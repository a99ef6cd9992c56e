----------------------------- MODULE BackEndProofs -----------------------------
(***************************************************************************)
(* What the interpolator and the regression store under a day is of that   *)
(* day and goes back from it without leaving out a day that was known, and *)
(* a run that nothing happened to leaves out no day that it should have    *)
(* fitted: for any number of equations and of days in each, any limit of   *)
(* empty days, forced or not, whatever fails and whatever the statistics   *)
(* write meanwhile.  The two keep different things in common between their *)
(* steps, so each has its invariant, and Fittings_Inv puts them together.  *)
(* Then the types of all that BackEnd composes, and at the end the rows    *)
(* that the output merges: what the loop of merge_data keeps (Merge_Inv),  *)
(* and what is shown when it ends (RowsShown_Inv).                         *)
(***************************************************************************)
EXTENDS BackEnd, SequenceTheorems, FiniteSetTheorems, WellFoundedInduction,
        TLAPS

USE DaysBackAssumption, FittingAssumption

(* Days in their order back.                                                *)
Down(s) == \A j, k \in DOMAIN s : j < k => s[j] > s[k]

-----------------------------------------------------------------------------
(* Sequences that go down.                                                  *)

(* A day before all of them goes to the end.                                *)
LEMMA DownAppend ==
  ASSUME NEW s \in Seq(Int), NEW d \in Int, Down(s), \A e \in ToSet(s) : d < e
  PROVE /\ Append(s, d) \in Seq(Int) /\ Down(Append(s, d))
        /\ ToSet(Append(s, d)) = ToSet(s) \cup {d}
        /\ Len(Append(s, d)) = Len(s) + 1
<1> DEFINE t == Append(s, d)
<1>1. /\ t \in Seq(Int) /\ Len(t) = Len(s) + 1 /\ Len(s) \in Nat
      /\ DOMAIN s = 1..Len(s) /\ DOMAIN t = 1..(Len(s) + 1)
      /\ \A i \in 1..Len(s) : t[i] = s[i]
      /\ t[Len(s) + 1] = d
  OBVIOUS
<1>2. \A i \in 1..Len(s) : s[i] \in Int /\ s[i] > d
  BY <1>1 DEF ToSet
<1>3. Down(t)
  BY <1>1, <1>2 DEF Down
<1>4. ToSet(t) = ToSet(s) \cup {d}
  <2>1. DOMAIN t = DOMAIN s \cup {Len(s) + 1}  BY <1>1
  <2> QED  BY <1>1, <2>1 DEF ToSet
<1> QED  BY <1>1, <1>3, <1>4

(* The first is the latest, and the others go on down.                      *)
LEMMA DownTail ==
  ASSUME NEW s \in Seq(Int), s # <<>>, Down(s)
  PROVE /\ Head(s) \in Int /\ Head(s) \in ToSet(s)
        /\ \A e \in ToSet(s) : e <= Head(s)
        /\ Tail(s) \in Seq(Int) /\ Down(Tail(s))
        /\ ToSet(Tail(s)) = ToSet(s) \ {Head(s)}
        /\ Len(Tail(s)) = Len(s) - 1
<1>1. /\ Len(s) \in Nat \ {0} /\ DOMAIN s = 1..Len(s) /\ Head(s) = s[1]
      /\ \A i \in 1..Len(s) : s[i] \in Int
  BY EmptySeq, LenProperties, ElementOfSeq
<1>2. /\ Tail(s) \in Seq(Int) /\ Len(Tail(s)) = Len(s) - 1
      /\ \A i \in 1..(Len(s) - 1) : Tail(s)[i] = s[i + 1]
  BY HeadTailProperties
<1>3. DOMAIN Tail(s) = 1..(Len(s) - 1)  BY <1>2, LenProperties
<1>4. \A j, k \in 1..Len(s) : j < k => s[j] > s[k]  BY <1>1 DEF Down
<1>5. Head(s) \in ToSet(s) /\ \A e \in ToSet(s) : e <= Head(s)
  <2>1. 1 \in DOMAIN s  BY <1>1
  <2>2. \A i \in 1..Len(s) : s[i] <= s[1]  BY <1>1, <1>4
  <2> QED  BY <1>1, <2>1, <2>2 DEF ToSet
<1>6. Down(Tail(s))
  <2> SUFFICES ASSUME NEW j \in 1..(Len(s) - 1), NEW k \in 1..(Len(s) - 1), j < k
               PROVE Tail(s)[j] > Tail(s)[k]
    BY <1>3 DEF Down
  <2>1. s[j + 1] > s[k + 1]  BY <1>1, <1>4
  <2> QED  BY <1>2, <2>1
<1>7. ToSet(Tail(s)) = ToSet(s) \ {Head(s)}
  <2>1. ASSUME NEW e \in ToSet(Tail(s))  PROVE e \in ToSet(s) /\ e # Head(s)
    <3>1. PICK i \in 1..(Len(s) - 1) : e = Tail(s)[i]  BY <1>3, <2>1 DEF ToSet
    <3>2. e = s[i + 1] /\ i + 1 \in 1..Len(s) /\ 1 < i + 1 /\ 1 \in 1..Len(s)
      BY <1>1, <1>2, <3>1
    <3>3. s[1] > s[i + 1]  BY <1>4, <3>2
    <3>4. s[1] # s[i + 1]  BY <1>1, <3>2, <3>3
    <3> QED  BY <1>1, <3>2, <3>4 DEF ToSet
  <2>2. ASSUME NEW e \in ToSet(s), e # Head(s)  PROVE e \in ToSet(Tail(s))
    <3>1. PICK i \in 1..Len(s) : e = s[i]  BY <1>1, <2>2 DEF ToSet
    <3>2. i # 1  BY <1>1, <2>2, <3>1
    <3>3. i - 1 \in 1..(Len(s) - 1) /\ Tail(s)[i - 1] = s[i]  BY <1>1, <1>2, <3>2
    <3> QED  BY <1>3, <3>1, <3>3 DEF ToSet
  <2> QED  BY <2>1, <2>2
<1> QED  BY <1>1, <1>2, <1>5, <1>6, <1>7

(* Of the days from a sequence's i-th on, there are i.                      *)
LEMMA DownCounts ==
  ASSUME NEW s \in Seq(Int), Down(s), NEW i \in 0..Len(s)
  PROVE /\ IsFiniteSet({s[j] : j \in 1..i})
        /\ Cardinality({s[j] : j \in 1..i}) = i
<1> DEFINE T == {s[j] : j \in 1..i}
           f == [j \in 1..i |-> s[j]]
<1>1. /\ Len(s) \in Nat /\ DOMAIN s = 1..Len(s) /\ \A j \in 1..Len(s) : s[j] \in Int
  BY LenProperties, ElementOfSeq
<1>2. \A j \in 1..i : j \in 1..Len(s)  BY <1>1
<1>3. ASSUME NEW j \in 1..i, NEW k \in 1..i, s[j] = s[k]  PROVE j = k
  <2>1. j \in 1..Len(s) /\ k \in 1..Len(s)  BY <1>2
  <2>2. \A a, b \in 1..Len(s) : a < b => s[a] > s[b]  BY <1>1 DEF Down
  <2>3. s[j] \in Int /\ s[k] \in Int  BY <1>1, <2>1
  <2>4. ~(j < k) /\ ~(k < j)  BY <1>3, <2>1, <2>2, <2>3
  <2> QED  BY <2>4
<1>4. f \in Bijection(1..i, T)
  <2>1. f \in Injection(1..i, T)  BY <1>3 DEF Injection, IsInjective
  <2>2. f \in Surjection(1..i, T)  BY DEF Surjection
  <2> QED  BY <2>1, <2>2 DEF Bijection
<1>5. ExistsBijection(1..i, T)  BY <1>4 DEF ExistsBijection
<1>6. IsFiniteSet(1..i) /\ Cardinality(1..i) = i
  <2>1. i \in Int  OBVIOUS
  <2> QED  BY <2>1, FS_Interval
<1> HIDE DEF T
<1>7. IsFiniteSet(T) /\ Cardinality(T) = Cardinality(1..i)
  BY <1>5, <1>6, FS_Bijection, Zenon
<1> QED  BY <1>6, <1>7 DEF T

(* A sequence has not more members than places.                             *)
LEMMA AsManyDays ==
  ASSUME NEW s \in Seq(Int), NEW a \in Nat, NEW b \in Nat, a <= b, b <= Len(s)
  PROVE /\ IsFiniteSet({s[j] : j \in (a + 1)..b})
        /\ Cardinality({s[j] : j \in (a + 1)..b}) <= b - a
<1> DEFINE I == (a + 1)..b
           T == {s[j] : j \in I}
           f == [j \in I |-> s[j]]
<1>1. f \in Surjection(I, T)  BY DEF Surjection
<1>2. IsFiniteSet(I) /\ Cardinality(I) = b - a
  <2>1. a + 1 \in Int /\ b \in Int /\ (b - (a + 1)) + 1 = b - a /\ (a + 1 > b => b - a = 0)  OBVIOUS
  <2> QED  BY <2>1, FS_Interval
<1> HIDE DEF I, T, f
<1>3. IsFiniteSet(T) /\ Cardinality(T) <= Cardinality(I)
  BY <1>1, <1>2, FS_Surjection
<1> QED  BY <1>2, <1>3 DEF T, I

-----------------------------------------------------------------------------
(* The days of a set from the latest to the first: each is where it is by   *)
(* how many are later.                                                      *)

Later(S, d) == {e \in S : e > d}

LEMMA LaterDays ==
  ASSUME NEW S \in SUBSET Int, IsFiniteSet(S), NEW d \in S
  PROVE /\ IsFiniteSet(Later(S, d))
        /\ Cardinality(Later(S, d)) \in 0..(Cardinality(S) - 1)
        /\ Cardinality(S) \in Nat
<1>1. Later(S, d) \in SUBSET S /\ d \notin Later(S, d) /\ d \in Int  BY DEF Later
<1>2. Later(S, d) # S  BY <1>1
<1>3. IsFiniteSet(Later(S, d)) /\ Cardinality(Later(S, d)) <= Cardinality(S)
      /\ Cardinality(S) # Cardinality(Later(S, d))
  BY <1>1, <1>2, FS_Subset
<1>4. Cardinality(S) \in Nat /\ Cardinality(Later(S, d)) \in Nat  BY <1>3, FS_CardinalityType
<1> QED  BY <1>3, <1>4

LEMMA FewerLater ==
  ASSUME NEW S \in SUBSET Int, IsFiniteSet(S), NEW d \in S, NEW e \in S, d < e
  PROVE Cardinality(Later(S, e)) < Cardinality(Later(S, d))
<1>1. /\ IsFiniteSet(Later(S, d)) /\ Cardinality(Later(S, d)) \in Nat
      /\ Cardinality(Later(S, e)) \in Nat
  BY LaterDays
<1>2. /\ Later(S, e) \in SUBSET Later(S, d)
      /\ e \in Later(S, d) /\ e \notin Later(S, e)
  <2>1. d \in Int /\ e \in Int /\ e > d /\ ~(e > e)  OBVIOUS
  <2>2. \A g \in S : g > e => g > d  BY <2>1
  <2> QED  BY <2>1, <2>2 DEF Later
<1>3. Later(S, e) # Later(S, d)  BY <1>2
<1>4. /\ Cardinality(Later(S, e)) <= Cardinality(Later(S, d))
      /\ Cardinality(Later(S, d)) # Cardinality(Later(S, e))
  BY <1>1, <1>2, <1>3, FS_Subset
<1> QED  BY <1>1, <1>4

LEMMA LatestFirstIsDown ==
  ASSUME NEW S \in SUBSET Int, IsFiniteSet(S)
  PROVE /\ LatestFirst(S) \in Seq(Int) /\ Len(LatestFirst(S)) = Cardinality(S)
        /\ Cardinality(S) \in Nat
        /\ Down(LatestFirst(S)) /\ ToSet(LatestFirst(S)) = S
<1> DEFINE n == Cardinality(S)
           rank == [d \in S |-> Cardinality(Later(S, d))]
           L == LatestFirst(S)
<1>1. n \in Nat  BY FS_CardinalityType
<1>2. \A d \in S : Cardinality(Later(S, d)) \in 0..(n - 1)  BY LaterDays
<1>3. \A d, e \in S : d < e => Cardinality(Later(S, e)) < Cardinality(Later(S, d))
  BY FewerLater
<1>4. \A d, e \in S : Cardinality(Later(S, e)) = Cardinality(Later(S, d)) => d = e
  <2> SUFFICES ASSUME NEW d \in S, NEW e \in S,
                      Cardinality(Later(S, e)) = Cardinality(Later(S, d)), d # e
               PROVE FALSE
    OBVIOUS
  <2>1. d < e \/ e < d  OBVIOUS
  <2>2. Cardinality(Later(S, d)) \in Int /\ Cardinality(Later(S, e)) \in Int  BY <1>2
  <2> QED  BY <1>3, <2>1, <2>2
<1>5. rank \in Injection(S, 0..(n - 1))
  BY <1>2, <1>4 DEF Injection, IsInjective
<1>6. IsFiniteSet(0..(n - 1)) /\ Cardinality(0..(n - 1)) = n
  <2>1. 0 \in Int /\ n - 1 \in Int /\ (n - 1) - 0 + 1 = n /\ (0 > n - 1 => n = 0)  BY <1>1
  <2> QED  BY <2>1, FS_Interval
<1>7. rank \in Surjection(S, 0..(n - 1))
  <2> HIDE DEF rank
  <2> QED  BY <1>5, <1>6, FS_Injection
<1>8. \A m \in 0..(n - 1) : \E d \in S : Cardinality(Later(S, d)) = m
  <2> DEFINE M == 0..(n - 1)
  <2>1. \A m \in M : \E d \in S : rank[d] = m
    <3>1. rank \in Surjection(S, M)  BY <1>7
    <3> HIDE DEF M, rank
    <3> QED  BY <3>1 DEF Surjection
  <2> QED  BY <2>1
<1> HIDE DEF rank, n
<1>9. L = [m \in 1..n |-> CHOOSE d \in S : Cardinality(Later(S, d)) = m - 1]
  BY DEF LatestFirst, Later, n
<1>10. \A m \in 1..n : L[m] \in S /\ Cardinality(Later(S, L[m])) = m - 1
  <2> SUFFICES ASSUME NEW m \in 1..n
               PROVE L[m] \in S /\ Cardinality(Later(S, L[m])) = m - 1
    OBVIOUS
  <2>1. m - 1 \in 0..(n - 1)  BY <1>1
  <2>2. \E d \in S : Cardinality(Later(S, d)) = m - 1  BY <1>8, <2>1
  <2> HIDE DEF L
  <2>3. L[m] = CHOOSE d \in S : Cardinality(Later(S, d)) = m - 1  BY <1>9
  <2> QED  BY <2>2, <2>3
<1> HIDE DEF L
<1>11. L \in Seq(Int) /\ Len(L) = n /\ DOMAIN L = 1..n
  <2>1. \A m \in 1..n : L[m] \in Int  BY <1>10
  <2>2. L = [m \in 1..n |-> L[m]]  BY <1>9
  <2>3. L \in [1..n -> Int]  BY <2>1, <2>2
  <2>4. L \in Seq(Int)  BY <1>1, <2>3, SeqDef
  <2>5. DOMAIN L = 1..n  BY <2>2
  <2> QED  BY <1>1, <2>4, <2>5, LenProperties
<1>12. Down(L)
  <2> SUFFICES ASSUME NEW j \in 1..n, NEW k \in 1..n, j < k  PROVE L[j] > L[k]
    BY <1>11 DEF Down
  <2>1. /\ L[j] \in S /\ L[k] \in S /\ Cardinality(Later(S, L[j])) = j - 1
        /\ Cardinality(Later(S, L[k])) = k - 1
    BY <1>10
  <2>2. L[j] # L[k]
    <3> SUFFICES ASSUME L[j] = L[k]  PROVE FALSE  OBVIOUS
    <3>1. j - 1 = k - 1  BY <2>1
    <3> QED  BY <1>1, <3>1
  <2>3. ~(L[j] < L[k])
    <3> SUFFICES ASSUME L[j] < L[k]  PROVE FALSE  OBVIOUS
    <3>1. k - 1 < j - 1  BY <1>3, <2>1
    <3> QED  BY <1>1, <3>1
  <2>4. L[j] \in Int /\ L[k] \in Int  BY <2>1
  <2> QED  BY <2>2, <2>3, <2>4
<1>13. ToSet(L) = S
  <2>1. ToSet(L) \subseteq S  BY <1>10, <1>11 DEF ToSet
  <2>2. ASSUME NEW d \in S  PROVE d \in ToSet(L)
    <3> DEFINE m == Cardinality(Later(S, d)) + 1
    <3>1. m \in 1..n /\ m - 1 = Cardinality(Later(S, d))  BY <1>1, <1>2
    <3>2. L[m] \in S /\ Cardinality(Later(S, L[m])) = Cardinality(Later(S, d))  BY <1>10, <3>1
    <3>3. L[m] = d  BY <1>4, <3>2
    <3> QED  BY <1>11, <3>1, <3>3 DEF ToSet
  <2> QED  BY <2>1, <2>2
<1> QED  BY <1>1, <1>11, <1>12, <1>13 DEF L, n

-----------------------------------------------------------------------------
(* The inductive invariant of the interpolator.                             *)

(* The window and the queue share out the days from day_tail to d: those    *)
(* taken have a row, and those passed over had none when the run began.     *)
Shared(d) ==
  /\ Down(xx) /\ Down(empty_queue)
  /\ ToSet(xx) \cup ToSet(empty_queue) = (day_tail + 1)..d
  /\ ToSet(xx) \cap ToSet(empty_queue) = {}
  /\ ToSet(xx) \subseteq statistics /\ ToSet(empty_queue) \cap known = {}

Types_Inv ==
  /\ loaded = "interpolator"
  /\ today \in Int /\ day \in Int /\ day_tail \in Int
  /\ xx \in Seq(Int) /\ empty_queue \in Seq(Int) /\ used \in Seq(Int)
  /\ known \subseteq statistics
  /\ results \in [Equations -> [Dates -> Seq(Int)]]

Window_Inv ==
  /\ pc \in {"idle", "fill", "solved"}
  /\ statements # <<>> => pc = "solved"
  /\ pc = "idle" => xx = <<>> /\ empty_queue = <<>>
  /\ pc = "fill" => day_tail <= day /\ Shared(day)
  /\ pc = "solved" => /\ day_tail <= day - 1 /\ Shared(day - 1)
                      /\ used = Null \/ OfDay(used, day)

Inv == Types_Inv /\ Window_Inv

(* What a step may do to the results.                                       *)
StoresItsDay ==
  \A e \in Equations : \A d \in Dates :
    results'[e][d] \in {results[e][d], Null} \/ OfDay(results'[e][d], d)

(* With a full window the day is the first of the queue or of the window.   *)
LEMMA DayIsAFront ==
  ASSUME Inv, WindowIsFull
  PROVE /\ xx # <<>> /\ day_tail < day
        /\ Queued => empty_queue # <<>> /\ Head(empty_queue) = day /\ day \notin ToSet(xx)
        /\ ~Queued => Head(xx) = day /\ day \notin ToSet(empty_queue)
<1>1. /\ xx \in Seq(Int) /\ empty_queue \in Seq(Int) /\ day \in Int /\ day_tail \in Int
      /\ Shared(day) /\ Len(xx) = N + K
  BY DEF Inv, Types_Inv, Window_Inv, WindowIsFull
<1>2. xx # <<>>
  <2>1. Len(<<>>) = 0  BY EmptySeq
  <2> QED  BY <1>1, <2>1
<1>3. Head(xx) \in ToSet(xx) /\ \A e \in ToSet(xx) : e <= Head(xx)
  BY <1>1, <1>2, DownTail DEF Shared
<1>4. Head(xx) \in (day_tail + 1)..day  BY <1>1, <1>3 DEF Shared
<1>5. day_tail < day  BY <1>1, <1>4
<1>6. day \in ToSet(xx) \cup ToSet(empty_queue)  BY <1>1, <1>5 DEF Shared
<1>7. CASE Queued
  <2>1. empty_queue # <<>> /\ Head(empty_queue) = day  BY <1>7 DEF Queued
  <2>2. day \in ToSet(empty_queue)  BY <1>1, <2>1, DownTail DEF Shared
  <2> QED  BY <1>1, <1>2, <1>5, <1>7, <2>1, <2>2 DEF Shared
<1>8. CASE ~Queued
  <2>1. day \notin ToSet(empty_queue)
    <3> SUFFICES ASSUME day \in ToSet(empty_queue)  PROVE FALSE  OBVIOUS
    <3>1. empty_queue # <<>>
      <4> SUFFICES ASSUME empty_queue = <<>>  PROVE FALSE  OBVIOUS
      <4> QED  BY DEF ToSet
    <3>2. /\ Head(empty_queue) \in ToSet(empty_queue)
          /\ \A e \in ToSet(empty_queue) : e <= Head(empty_queue)
      BY <1>1, <3>1, DownTail DEF Shared
    <3>3. Head(empty_queue) \in (day_tail + 1)..day  BY <1>1, <3>2 DEF Shared
    <3>4. Head(empty_queue) = day  BY <1>1, <3>2, <3>3
    <3> QED  BY <1>8, <3>1, <3>4 DEF Queued
  <2>2. day \in ToSet(xx)  BY <1>6, <2>1
  <2>3. Head(xx) = day  BY <1>1, <1>3, <1>4, <2>2
  <2> QED  BY <1>2, <1>5, <1>8, <2>1, <2>3
<1> QED  BY <1>7, <1>8

(* The first K days of a full window leave out no day that was known.       *)
LEMMA FrontIsOfItsDay ==
  ASSUME Inv, WindowIsFull, ~Queued
  PROVE SubSeq(xx, 1, K) \in Seq(Int) /\ OfDay(SubSeq(xx, 1, K), day)
<1> DEFINE s == SubSeq(xx, 1, K)
<1>1. /\ xx \in Seq(Int) /\ day \in Int /\ day_tail \in Int /\ Shared(day) /\ Len(xx) = N + K
      /\ xx # <<>> /\ Head(xx) = day
  BY DayIsAFront DEF Inv, Types_Inv, Window_Inv, WindowIsFull
<1>2. K \in Nat /\ N \in Nat /\ 1 <= K /\ K <= Len(xx)  BY <1>1
<1>3. /\ DOMAIN xx = 1..Len(xx) /\ \A i \in 1..Len(xx) : xx[i] \in Int
      /\ xx[1] = day
  BY <1>1, LenProperties, ElementOfSeq
<1>4. s \in Seq(Int) /\ Len(s) = K /\ DOMAIN s = 1..K /\ \A i \in 1..K : s[i] = xx[i]
  BY <1>1, <1>2
<1>5. \A j, k \in 1..Len(xx) : j < k => xx[j] > xx[k]  BY <1>1, <1>3 DEF Shared, Down
<1>6. \A i \in 2..K : s[i] < s[i - 1]
  <2> SUFFICES ASSUME NEW i \in 2..K  PROVE s[i] < s[i - 1]  OBVIOUS
  <2>1. i \in 1..Len(xx) /\ i - 1 \in 1..Len(xx) /\ i - 1 < i /\ i \in 1..K /\ i - 1 \in 1..K
    BY <1>1, <1>2
  <2>2. xx[i - 1] > xx[i]  BY <1>5, <2>1
  <2> QED  BY <1>3, <1>4, <2>1, <2>2
<1>7. s[1] = day  BY <1>2, <1>3, <1>4
<1>8. ToSet(s) \subseteq ToSet(xx)  BY <1>1, <1>2, <1>3, <1>4 DEF ToSet
<1>9. ToSet(s) \subseteq statistics  BY <1>1, <1>8 DEF Shared
<1>10. known \cap (s[K]..day) \subseteq ToSet(s)
  <2> SUFFICES ASSUME NEW d \in known, d \in s[K]..day  PROVE d \in ToSet(s)  OBVIOUS
  <2>1. K \in 1..Len(xx) /\ K \in 1..K /\ s[K] = xx[K] /\ xx[K] \in Int  BY <1>1, <1>2, <1>3, <1>4
  <2>2. xx[K] \in ToSet(xx)  BY <1>3, <2>1 DEF ToSet
  <2>3. xx[K] \in (day_tail + 1)..day  BY <1>1, <2>2 DEF Shared
  <2>4. d \in (day_tail + 1)..day  BY <1>1, <2>1, <2>3
  <2>5. d \in ToSet(xx)  BY <1>1, <2>4 DEF Shared
  <2>6. PICK j \in 1..Len(xx) : d = xx[j]  BY <1>3, <2>5 DEF ToSet
  <2>7. ~(K < j)
    <3> SUFFICES ASSUME K < j  PROVE FALSE  OBVIOUS
    <3>1. xx[K] > xx[j]  BY <1>5, <2>1, <2>6
    <3> QED  BY <1>3, <2>1, <2>6, <3>1
  <2>8. j \in 1..K /\ s[j] = d  BY <1>1, <1>2, <1>4, <2>6, <2>7
  <2> QED  BY <1>4, <2>8 DEF ToSet
<1> QED  BY <1>4, <1>6, <1>7, <1>9, <1>10 DEF OfDay

-----------------------------------------------------------------------------
(* The steps.                                                               *)

LEMMA InvInit == loaded = "interpolator" /\ Init => Inv
<1> SUFFICES ASSUME loaded = "interpolator", Init  PROVE Inv  OBVIOUS
<1>1. results \in [Equations -> [Dates -> Seq(Int)]]
  <2>1. NoRow \in Seq(Int)  BY DEF NoRow
  <2> QED  BY <2>1 DEF Init, FittingInit
<1>2. Types_Inv
  BY <1>1 DEF Init, DaysInit, FittingInit, Types_Inv
<1>3. Window_Inv  BY DEF Init, DaysInit, FittingInit, Window_Inv
<1> QED  BY <1>2, <1>3 DEF Inv

(* A day that is written meanwhile takes nothing away.                      *)
LEMMA MoreDays ==
  ASSUME Inv, statistics \subseteq statistics', today' \in Int,
         UNCHANGED <<loaded, pc, day, known, window, used, results>>,
         statements' # <<>> => statements # <<>>
  PROVE Inv' /\ StoresItsDay
<1>1. /\ xx' = xx /\ empty_queue' = empty_queue /\ day_tail' = day_tail
      /\ pc' = pc /\ day' = day /\ known' = known /\ used' = used /\ results' = results
      /\ loaded' = loaded
  BY DEF window
<1>2. Types_Inv'  BY <1>1 DEF Inv, Types_Inv
<1>3. ASSUME NEW d \in Int, Shared(d)  PROVE Shared(d)'
  BY <1>1, <1>3 DEF Shared, Down
<1>4. ASSUME OfDay(used, day)  PROVE OfDay(used, day)'
  BY <1>1, <1>4 DEF OfDay
<1>5. pc = "fill" => day_tail' <= day' /\ Shared(day)'
  BY <1>1, <1>3 DEF Inv, Types_Inv, Window_Inv
<1>6. pc = "solved" => /\ day_tail' <= day' - 1 /\ Shared(day - 1)'
                       /\ used' = Null \/ OfDay(used, day)'
  <2>1. ASSUME pc = "solved", OfDay(used, day)  PROVE OfDay(used, day)'  BY <1>4, <2>1
  <2>2. pc = "solved" => Shared(day - 1)'
    BY <1>1, <1>3 DEF Inv, Types_Inv, Window_Inv
  <2> QED  BY <1>1, <2>1, <2>2 DEF Inv, Window_Inv, Null
<1>7. Window_Inv'
  BY <1>1, <1>5, <1>6 DEF Inv, Window_Inv
<1> QED  BY <1>1, <1>2, <1>7 DEF Inv, StoresItsDay

(* A run that ends, wherever it is, leaves the window empty.                *)
LEMMA EndKeepsInv ==
  ASSUME Inv, Forget, pc' = "idle", day' \in Int,
         known' \subseteq known, UNCHANGED <<loaded, today, statistics, results>>
  PROVE Inv' /\ StoresItsDay
<1>1. <<>> \in Seq(Int)  OBVIOUS
<1>2. Types_Inv'  BY <1>1 DEF Inv, Types_Inv, Forget
<1>3. Window_Inv'  BY DEF Window_Inv, Forget
<1> QED  BY <1>2, <1>3 DEF Inv, StoresItsDay

(* A run begins with an empty window and all rows known.                    *)
LEMMA BeginKeepsInv ==
  ASSUME Inv, InterpolatorBegins, UNCHANGED loaded
  PROVE Inv' /\ StoresItsDay
<1>1. /\ pc = "idle" /\ pc' = "fill" /\ day' = today /\ day_tail' = today /\ today' = today
      /\ known' = statistics /\ statistics' = statistics /\ xx' = xx /\ empty_queue' = empty_queue
      /\ used' = used /\ statements' = statements /\ results' = results /\ loaded' = loaded
  BY DEF InterpolatorBegins, BeginAt, Starts, tables
<1>2. today \in Int /\ xx = <<>> /\ empty_queue = <<>> /\ statements = <<>>
  BY <1>1 DEF Inv, Types_Inv, Window_Inv
<1>3. Types_Inv'  BY <1>1, <1>2 DEF Inv, Types_Inv
<1>4. Shared(day)'  BY <1>1, <1>2 DEF Shared, Down, ToSet
<1>5. Window_Inv'  BY <1>1, <1>2, <1>4 DEF Window_Inv
<1> QED  BY <1>1, <1>3, <1>5 DEF Inv, StoresItsDay

(* The next day of the window is taken or passed over; a day that could not *)
(* be read is not one to find any more.                                     *)
LEMMA FillKeepsInv ==
  ASSUME Inv, TakeDay \/ PassDay \/ (TailFails /\ PassOver), UNCHANGED loaded
  PROVE Inv' /\ StoresItsDay
<1>0. /\ xx \in Seq(Int) /\ empty_queue \in Seq(Int) /\ Shared(day) /\ pc = "fill"
      /\ day \in Int /\ day_tail \in Int /\ day_tail <= day /\ today \in Int
      /\ known \subseteq statistics /\ statements = <<>>
  BY DEF Inv, Types_Inv, Window_Inv, TakeDay, PassDay, TailFails, Filling
<1>1. /\ loaded' = loaded /\ today' = today /\ pc' = pc /\ day' = day /\ day_tail' = day_tail - 1
      /\ statistics' = statistics /\ known' \subseteq known /\ used' = used
      /\ statements' = statements /\ results' = results
  BY DEF TakeDay, PassDay, PassOver, TailFails, begun, tables
<1>2. \A e \in ToSet(xx) \cup ToSet(empty_queue) : day_tail < e  BY <1>0 DEF Shared
<1>3. ((day_tail - 1) + 1)..day = ((day_tail + 1)..day) \cup {day_tail}  BY <1>0
<1>4. day_tail \notin ToSet(xx) /\ day_tail \notin ToSet(empty_queue)  BY <1>0, <1>2
<1>5. CASE TakeDay
  <2>1. xx' = Append(xx, day_tail) /\ empty_queue' = empty_queue /\ day_tail \in statistics
    BY <1>5 DEF TakeDay
  <2>2. /\ xx' \in Seq(Int) /\ Down(xx') /\ ToSet(xx') = ToSet(xx) \cup {day_tail}
    BY <1>0, <1>2, <2>1, DownAppend DEF Shared
  <2>3. ToSet(xx') \cup ToSet(empty_queue') = (day_tail' + 1)..day'
    BY <1>0, <1>1, <1>3, <2>1, <2>2 DEF Shared
  <2>4. ToSet(xx') \cap ToSet(empty_queue') = {}  BY <1>0, <1>4, <2>1, <2>2 DEF Shared
  <2>5. Shared(day)'
    BY <1>0, <1>1, <2>1, <2>2, <2>3, <2>4 DEF Shared, Down
  <2>6. Types_Inv'  BY <1>0, <1>1, <2>1, <2>2 DEF Inv, Types_Inv
  <2>7. Window_Inv'  BY <1>0, <1>1, <2>5 DEF Window_Inv
  <2> QED  BY <1>1, <2>6, <2>7 DEF Inv, StoresItsDay
<1>6. CASE PassDay \/ (TailFails /\ PassOver)
  <2>1. empty_queue' = Append(empty_queue, day_tail) /\ xx' = xx /\ day_tail \notin known'
    BY <1>0, <1>6 DEF PassDay, PassOver, TailFails
  <2>2. /\ empty_queue' \in Seq(Int) /\ Down(empty_queue')
        /\ ToSet(empty_queue') = ToSet(empty_queue) \cup {day_tail}
    BY <1>0, <1>2, <2>1, DownAppend DEF Shared
  <2>3. ToSet(xx') \cup ToSet(empty_queue') = (day_tail' + 1)..day'
    BY <1>0, <1>1, <1>3, <2>1, <2>2 DEF Shared
  <2>4. ToSet(xx') \cap ToSet(empty_queue') = {}  BY <1>0, <1>4, <2>1, <2>2 DEF Shared
  <2>5. ToSet(empty_queue') \cap known' = {}  BY <1>0, <1>1, <2>1, <2>2 DEF Shared
  <2>6. Shared(day)'
    BY <1>0, <1>1, <2>1, <2>2, <2>3, <2>4, <2>5 DEF Shared, Down
  <2>7. Types_Inv'  BY <1>0, <1>1, <2>1, <2>2 DEF Inv, Types_Inv
  <2>8. Window_Inv'  BY <1>0, <1>1, <2>6 DEF Window_Inv
  <2> QED  BY <1>1, <2>7, <2>8 DEF Inv, StoresItsDay
<1> QED  BY <1>5, <1>6

(* A queued day is left out.                                                *)
LEMMA SkipKeepsInv ==
  ASSUME Inv, SkipDay, UNCHANGED loaded
  PROVE Inv' /\ StoresItsDay
<1>1. /\ WindowIsFull /\ Queued /\ pc = "fill" /\ pc' = "fill" /\ day' = day - 1 /\ today' = today
      /\ empty_queue' = Tail(empty_queue) /\ statistics' = statistics /\ known' = known
      /\ xx' = xx /\ day_tail' = day_tail /\ used' = used /\ statements' = statements
      /\ results' = results /\ loaded' = loaded
  BY DEF SkipDay, WindowIsFull, DayBefore, begun, tables
<1>2. /\ xx \in Seq(Int) /\ empty_queue \in Seq(Int) /\ Shared(day)
      /\ day \in Int /\ day_tail \in Int /\ statements = <<>>
  BY <1>1 DEF Inv, Types_Inv, Window_Inv
<1>3. /\ day_tail < day /\ empty_queue # <<>> /\ Head(empty_queue) = day /\ day \notin ToSet(xx)
  BY <1>1, DayIsAFront
<1>4. (day_tail + 1)..(day - 1) = ((day_tail + 1)..day) \ {day}  BY <1>2, <1>3
<1>5. /\ empty_queue' \in Seq(Int) /\ Down(empty_queue')
      /\ ToSet(empty_queue') = ToSet(empty_queue) \ {day}
  BY <1>1, <1>2, <1>3, DownTail DEF Shared
<1>6. ToSet(xx') \cup ToSet(empty_queue') = (day_tail' + 1)..day'
  BY <1>1, <1>2, <1>3, <1>4, <1>5 DEF Shared
<1>7. Shared(day)'
  BY <1>1, <1>2, <1>5, <1>6 DEF Shared, Down
<1>8. Types_Inv'  BY <1>1, <1>2, <1>5 DEF Inv, Types_Inv
<1>9. Window_Inv'  BY <1>1, <1>2, <1>3, <1>7 DEF Window_Inv
<1> QED  BY <1>1, <1>8, <1>9 DEF Inv, StoresItsDay

(* The day's own place in the window is given up when it has been used.     *)
LEMMA SolveKeepsInv ==
  ASSUME Inv, Solve, UNCHANGED loaded
  PROVE Inv' /\ StoresItsDay
<1>1. /\ WindowIsFull /\ ~Queued /\ pc = "fill" /\ pc' = "solved" /\ day' = day /\ today' = today
      /\ empty_queue' = empty_queue /\ statistics' = statistics /\ known' = known
      /\ xx' = Tail(xx) /\ day_tail' = day_tail
      /\ results' = results /\ loaded' = loaded
      /\ used' = SubSeq(xx, 1, K) \/ used' = Null
  BY DEF Solve, WindowIsFull, Goto, FailsAt, begun, tables
<1>2. /\ xx \in Seq(Int) /\ empty_queue \in Seq(Int) /\ Shared(day)
      /\ day \in Int /\ day_tail \in Int
  BY <1>1 DEF Inv, Types_Inv, Window_Inv
<1>3. /\ day_tail < day /\ xx # <<>> /\ Head(xx) = day /\ day \notin ToSet(empty_queue)
  BY <1>1, DayIsAFront
<1>4. (day_tail + 1)..(day - 1) = ((day_tail + 1)..day) \ {day}  BY <1>2, <1>3
<1>5. /\ xx' \in Seq(Int) /\ Down(xx') /\ ToSet(xx') = ToSet(xx) \ {day}
  BY <1>1, <1>2, <1>3, DownTail DEF Shared
<1>6. ToSet(xx') \cup ToSet(empty_queue') = (day_tail' + 1)..(day' - 1)
  BY <1>1, <1>2, <1>3, <1>4, <1>5 DEF Shared
<1>7. Shared(day - 1)'
  BY <1>1, <1>2, <1>5, <1>6 DEF Shared, Down
<1>8. used' \in Seq(Int) /\ (used' = Null \/ OfDay(used', day))
  <2>1. Null \in Seq(Int)  BY DEF Null
  <2> QED  BY <1>1, <2>1, FrontIsOfItsDay
<1>9. Types_Inv'  BY <1>1, <1>2, <1>5, <1>8 DEF Inv, Types_Inv
<1>10. (used = Null \/ OfDay(used, day))'
  BY <1>1, <1>8 DEF OfDay, Null
<1>11. Window_Inv'  BY <1>1, <1>2, <1>3, <1>7, <1>10 DEF Window_Inv
<1> QED  BY <1>1, <1>9, <1>11 DEF Inv, StoresItsDay

(* What a statement writes: nothing but the day's result.                   *)
LEMMA ResultIsOfItsDay ==
  ASSUME results \in [Equations -> [Dates -> Seq(Int)]],
         used \in Seq(Int), used = Null \/ OfDay(used, day),
         NEW type, NEW date, NEW value \in {used, Null}, InsertResult(type, date, day, value)
  PROVE results' \in [Equations -> [Dates -> Seq(Int)]] /\ StoresItsDay
<1>1. results \in [Equations -> [Dates -> Seq(Int)]]  OBVIOUS
<1>2. value \in Seq(Int) /\ (value = Null \/ OfDay(value, day))
  <2>1. Null \in Seq(Int)  BY DEF Null
  <2> QED  BY <2>1
<1>3. CASE results' = results  BY <1>1, <1>3 DEF StoresItsDay
<1>4. CASE /\ <<type, date>> \in equations
           /\ results' = [results EXCEPT ![<<type, date>>][day] =
                            IF value = Null /\ @ # NoRow THEN @ ELSE value]
  <2> DEFINE old == results[<<type, date>>][day]
             v == IF value = Null /\ old # NoRow THEN old ELSE value
  <2>1. results' = [results EXCEPT ![<<type, date>>][day] = v]  BY <1>4
  <2>2. ASSUME NEW e \in Equations, NEW d \in Dates
        PROVE results'[e][d] = IF e = <<type, date>> /\ d = day THEN v ELSE results[e][d]
    BY <1>1, <2>1
  <2>3. results' \in [Equations -> [Dates -> Seq(Int)]]
    <3>1. ASSUME <<type, date>> \in Equations, day \in Dates  PROVE v \in Seq(Int)
      BY <1>1, <1>2, <3>1
    <3> QED  BY <1>1, <2>1, <3>1
  <2> QED  BY <1>2, <2>2, <2>3 DEF StoresItsDay
<1> QED  BY <1>3, <1>4 DEF InsertResult

LEMMA StatementIsOfItsDay ==
  ASSUME results \in [Equations -> [Dates -> Seq(Int)]],
         used \in Seq(Int), used = Null \/ OfDay(used, day), Insert \/ InsertFails
  PROVE results' \in [Equations -> [Dates -> Seq(Int)]] /\ StoresItsDay
<1>1. \/ results' = results
      \/ \E type, date : \E value \in {used, Null} : InsertResult(type, date, day, value)
  <2>1. CASE Insert  BY <2>1 DEF Insert, InsertEquation
  <2>2. CASE InsertFails  BY <2>2 DEF InsertFails, tables
  <2> QED  BY <2>1, <2>2
<1>2. CASE results' = results  BY <1>2 DEF StoresItsDay
<1>3. CASE \E type, date : \E value \in {used, Null} : InsertResult(type, date, day, value)
  BY <1>3, ResultIsOfItsDay
<1> QED  BY <1>1, <1>2, <1>3

(* The statements of a day, done or failed, keep its window.                *)
LEMMA InsertKeepsInv ==
  ASSUME Inv, Insert \/ InsertFails, UNCHANGED loaded
  PROVE Inv' /\ StoresItsDay
<1>1. /\ statements # <<>> /\ pc' = pc /\ day' = day /\ today' = today
      /\ statistics' = statistics /\ known' = known /\ xx' = xx /\ day_tail' = day_tail
      /\ empty_queue' = empty_queue /\ used' = used /\ loaded' = loaded
  BY DEF Insert, InsertFails, FailsAt, daysBack, process, begun, window
<1>2. pc = "solved"  BY <1>1 DEF Inv, Window_Inv
<1>3. results' \in [Equations -> [Dates -> Seq(Int)]] /\ StoresItsDay
  BY <1>2, StatementIsOfItsDay DEF Inv, Types_Inv, Window_Inv
<1>4. Types_Inv'  BY <1>1, <1>3 DEF Inv, Types_Inv
<1>5. Shared(day - 1)'  BY <1>1, <1>2 DEF Inv, Window_Inv, Shared, Down
<1>6. (used = Null \/ OfDay(used, day))'  BY <1>1, <1>2 DEF Inv, Window_Inv, OfDay, Null
<1>7. day_tail' <= day' - 1  BY <1>1, <1>2 DEF Inv, Window_Inv
<1>8. Window_Inv'  BY <1>1, <1>2, <1>5, <1>6, <1>7 DEF Window_Inv
<1> QED  BY <1>3, <1>4, <1>8 DEF Inv

(* The day is done: that was all, or the day before is next.                *)
LEMMA SolvedKeepsInv ==
  ASSUME Inv, Solved, UNCHANGED loaded
  PROVE Inv' /\ StoresItsDay
<1>1. /\ pc = "solved" /\ statements = <<>> /\ today' = today /\ statistics' = statistics
      /\ known' = known /\ results' = results /\ loaded' = loaded
  BY DEF Solved, Ends, Return, DayBefore, begun, tables
<1>2. CASE Ends
  BY <1>1, <1>2, EndKeepsInv DEF Ends, Return
<1>3. CASE DayBefore("fill") /\ UNCHANGED <<window, columns, row, used, statements>>
  <2>1. /\ pc' = "fill" /\ day' = day - 1 /\ xx' = xx /\ day_tail' = day_tail
        /\ empty_queue' = empty_queue /\ used' = used /\ statements' = statements
    BY <1>3 DEF DayBefore, window
  <2>2. Shared(day)'  BY <1>1, <2>1 DEF Inv, Window_Inv, Shared, Down
  <2>3. Types_Inv'  BY <1>1, <2>1 DEF Inv, Types_Inv
  <2>4. day_tail' <= day'  BY <1>1, <2>1 DEF Inv, Window_Inv
  <2>5. Window_Inv'  BY <1>1, <2>1, <2>2, <2>4 DEF Window_Inv
  <2> QED  BY <1>1, <2>3, <2>5 DEF Inv, StoresItsDay
<1> QED  BY <1>2, <1>3 DEF Solved

(* The codes could not be read: there is no run.                            *)
LEMMA IdleKeepsInv ==
  ASSUME Inv, pc' = pc, day' = day, today' = today, UNCHANGED <<loaded, fittingVars>>
  PROVE Inv' /\ StoresItsDay
BY MoreDays DEF Inv, Types_Inv, fittingVars, begun, tables

LEMMA RestartKeepsInv ==
  ASSUME Inv, FittingRestart, UNCHANGED loaded
  PROVE Inv' /\ StoresItsDay
BY EndKeepsInv DEF FittingRestart, Restart, begun, tables

-----------------------------------------------------------------------------

LEMMA StepKeepsInv ==
  ASSUME Inv, [Next]_backEndVars
  PROVE Inv' /\ StoresItsDay
<1>0. loaded = "interpolator"  BY DEF Inv, Types_Inv
<1>1. \/ UNCHANGED backEndVars
      \/ UNCHANGED loaded /\ (Interpolator \/ FittingWorld)
  BY <1>0 DEF Next, Run, World, Show, LoadedWealth, LoadedFitting, Loaded
<1>2. CASE UNCHANGED backEndVars
  BY <1>2, MoreDays DEF Inv, Types_Inv, backEndVars, daysBack, process, fittingVars, begun, tables
<1>3. CASE UNCHANGED loaded /\ Interpolator
  <2>1. CASE InterpolatorBegins  BY <1>3, <2>1, BeginKeepsInv
  <2>2. CASE InterpolatorEnds \/ TooManyEmpty
    BY <1>3, <2>2, EndKeepsInv DEF InterpolatorEnds, TooManyEmpty, Ends, Return, begun, tables
  <2>3. CASE TakeDay \/ PassDay \/ (TailFails /\ PassOver)  BY <1>3, <2>3, FillKeepsInv
  <2>4. CASE SkipDay  BY <1>3, <2>4, SkipKeepsInv
  <2>5. CASE Solve  BY <1>3, <2>5, SolveKeepsInv
  <2>6. CASE Insert \/ InsertFails  BY <1>3, <2>6, InsertKeepsInv
  <2>7. CASE Solved  BY <1>3, <2>7, SolvedKeepsInv
  <2>8. CASE FittingCodesFail  BY <1>3, <2>8, IdleKeepsInv DEF FittingCodesFail, CodesFail
  <2>9. CASE TailFails /\ ~PassOver
    <3>1. /\ Forget /\ pc' = "idle" /\ day' = day /\ today' = today /\ known' \subseteq known
          /\ statistics' = statistics /\ results' = results
      BY <2>9 DEF TailFails, FailsAt, tables
    <3> QED  BY <1>3, <3>1, EndKeepsInv DEF Inv, Types_Inv
  <2> QED
    BY <1>3, <2>1, <2>2, <2>3, <2>4, <2>5, <2>6, <2>7, <2>8, <2>9 DEF Interpolator
<1>4. CASE UNCHANGED loaded /\ FittingWorld
  <2>1. CASE FillDay
    BY <1>4, <2>1, MoreDays DEF FillDay, Inv, Types_Inv, daysBack, process, begun, tables
  <2>2. CASE FittingNextDay
    BY <1>4, <2>2, MoreDays
       DEF FittingNextDay, MidNight, Inv, Types_Inv, process, fittingVars, begun, tables
  <2>3. CASE FittingRestart  BY <1>4, <2>3, RestartKeepsInv
  <2> QED  BY <1>4, <2>1, <2>2, <2>3 DEF FittingWorld
<1> QED  BY <1>1, <1>2, <1>3, <1>4

-----------------------------------------------------------------------------
(* What the fittings have done when a run ends.                             *)

Days_Inv ==
  /\ today \in 1..LastDay /\ {force, mishaps, empty_days} \subseteq Nat
  /\ start \in Int /\ statistics \subseteq 1..today

(* The days after day_tail up to some day are without data and have been    *)
(* counted.                                                                 *)
Counted(d, e) == {g \in d..e : force = 0 \/ g <= force}
NoneKnown(d, e) == (d..e) \cap known = {}
Gap ==
  \E e \in day_tail..start :
    NoneKnown(day_tail + 1, e) /\ empty_days = Cardinality(Counted(day_tail + 1, e))

(* What the statements that are left will add to the day's results.         *)
Has(type, date) == OfDay(results[<<type, date>>][day], day)
HasBoth(date) == \A type \in Types : Has(type, date)

Storing(date) ==
  \/ statements = EquationThenResult("min", date) \o EquationThenResult("max", date)
  \/ /\ statements = Result("min", date) \o EquationThenResult("max", date)
     /\ <<"min", date>> \in equations
  \/ statements = EquationThenResult("max", date) /\ Has("min", date)
  \/ statements = Result("max", date) /\ Has("min", date) /\ <<"max", date>> \in equations
  \/ statements = <<>> /\ HasBoth(date)

(* No day that could be fitted is behind without its results.               *)
Passed(fits(_)) ==
  \A d \in known : IF force = 0 THEN d <= day ELSE Ahead(d) /\ d > day /\ fits(d) => HasResults(d)

Through_Inv ==
  /\ Days_Inv /\ day <= today
  /\ pc \in {"fill", "solved"} => Gap
  /\ mishaps = 0 /\ pc \in {"fill", "solved"} => Passed(Interpolable)
  /\ mishaps = 0 /\ pc = "solved" => OfDay(used, day) /\ Storing(day)
  /\ RanThrough(Interpolable)

(* The days of a value that are known are finitely many.                    *)
LEMMA BackIsDown ==
  ASSUME Days_Inv, known \subseteq statistics, NEW d \in Int
  PROVE /\ IsFiniteSet({e \in known : e <= d})
        /\ Back(d) \in Seq(Int) /\ Down(Back(d))
        /\ ToSet(Back(d)) = {e \in known : e <= d}
        /\ Len(Back(d)) = Cardinality({e \in known : e <= d})
<1> DEFINE S == {e \in known : e <= d}
<1>1. S \in SUBSET (1..today) /\ S \in SUBSET Int /\ today \in Int /\ 1 \in Int
  <2>1. today \in Int /\ statistics \subseteq 1..today  BY DEF Days_Inv
  <2>2. 1..today \subseteq Int  BY <2>1
  <2>3. S \subseteq statistics  OBVIOUS
  <2> HIDE DEF S
  <2> QED  BY <2>1, <2>2, <2>3
<1>2. IsFiniteSet(S)
  <2>1. IsFiniteSet(1..today)  BY <1>1, FS_Interval
  <2> QED  BY <1>1, <2>1, FS_Subset
<1> HIDE DEF S
<1>3. /\ LatestFirst(S) \in Seq(Int) /\ Down(LatestFirst(S)) /\ ToSet(LatestFirst(S)) = S
      /\ Len(LatestFirst(S)) = Cardinality(S)
  BY <1>1, <1>2, LatestFirstIsDown
<1>4. Back(d) = LatestFirst(S)  BY DEF Back, S
<1> QED  BY <1>2, <1>3, <1>4 DEF S

(* One more day without data, or that is passed over as if it had none: the *)
(* gap is longer by what is counted.                                        *)
LEMMA GapGrows ==
  ASSUME Inv, Days_Inv, Gap
  PROVE \E e \in day_tail..start :
          /\ known \cap (day_tail..e) \subseteq {day_tail}
          /\ EmptyDays = Cardinality(Counted(day_tail, e))
<1>1. /\ day_tail \in Int /\ start \in Int /\ force \in Nat /\ empty_days \in Nat
      /\ known \subseteq statistics
  BY DEF Inv, Types_Inv, Days_Inv
<1>2. PICK e \in day_tail..start :
        NoneKnown(day_tail + 1, e) /\ empty_days = Cardinality(Counted(day_tail + 1, e))
  BY DEF Gap
<1>3. day_tail..e = ((day_tail + 1)..e) \cup {day_tail} /\ e \in Int  BY <1>1, <1>2
<1>4. known \cap (day_tail..e) \subseteq {day_tail}  BY <1>1, <1>2, <1>3 DEF NoneKnown
<1> DEFINE C == Counted(day_tail + 1, e)
<1>5. IsFiniteSet(C) /\ day_tail \notin C
  <2>1. IsFiniteSet((day_tail + 1)..e)
    <3>1. day_tail + 1 \in Int  BY <1>1
    <3> QED  BY <1>3, <3>1, FS_Interval
  <2>2. C \in SUBSET ((day_tail + 1)..e)  BY DEF Counted
  <2> HIDE DEF C
  <2>3. IsFiniteSet(C)  BY <2>1, <2>2, FS_Subset
  <2>4. day_tail \notin C  BY <1>1, <2>2
  <2> QED  BY <2>3, <2>4
<1>6. EmptyDays = Cardinality(Counted(day_tail, e))
  <2>1. CASE force = 0 \/ day_tail <= force
    <3>1. Counted(day_tail, e) = C \cup {day_tail}  BY <1>3, <2>1 DEF Counted
    <3> HIDE DEF C
    <3>2. Cardinality(C \cup {day_tail}) = Cardinality(C) + 1  BY <1>5, FS_AddElement
    <3>3. EmptyDays = empty_days + 1  BY <1>1, <2>1 DEF EmptyDays
    <3> QED  BY <1>2, <3>1, <3>2, <3>3 DEF C
  <2>2. CASE ~(force = 0 \/ day_tail <= force)
    <3>1. Counted(day_tail, e) = C  BY <1>3, <2>2 DEF Counted
    <3>2. EmptyDays = empty_days  BY <1>1, <2>2 DEF EmptyDays
    <3> QED  BY <1>2, <3>1, <3>2
  <2> QED  BY <2>1, <2>2
<1> QED  BY <1>4, <1>6

(* When the interpolator gives up none of the days that are left has days   *)
(* enough behind it: they would be in the window, or behind the gap.        *)
LEMMA NoneIsInterpolable ==
  ASSUME Inv, Through_Inv, TooManyEmpty, NEW d \in known, d <= day
  PROVE ~Interpolable(d)
<1> SUFFICES ASSUME Interpolable(d)  PROVE FALSE  OBVIOUS
<1> DEFINE n == N + K
           s == Back(d)
<1>1. /\ known \subseteq statistics /\ day \in Int /\ day_tail \in Int /\ xx \in Seq(Int)
      /\ Shared(day) /\ Days_Inv /\ Gap /\ statistics \subseteq Int /\ start \in Int /\ Len(xx) < n
      /\ day_tail \notin statistics /\ EmptyDays > EmptyLimit
  BY DEF Inv, Types_Inv, Window_Inv, Through_Inv, Days_Inv, TooManyEmpty, Filling
<1>2. d \in Int /\ n \in Nat \ {0} /\ EmptyLimit \in Nat  BY <1>1
<1>3. /\ s \in Seq(Int) /\ Down(s) /\ ToSet(s) = {e \in known : e <= d}
      /\ Len(s) >= n /\ Reached(s[n])
  BY <1>1, <1>2, BackIsDown DEF Interpolable
<1> HIDE DEF n, s
<1>4. /\ DOMAIN s = 1..Len(s) /\ Len(s) \in Nat /\ \A i \in 1..Len(s) : s[i] \in Int
      /\ n \in 1..Len(s)
  BY <1>2, <1>3, LenProperties, ElementOfSeq
<1>5. CASE s[n] > day_tail
  <2> DEFINE T == {s[j] : j \in 1..n}
             U == {xx[j] : j \in (0 + 1)..Len(xx)}
  <2>1. n \in 0..Len(s)  BY <1>4
  <2>2. IsFiniteSet(T) /\ Cardinality(T) = n  BY <1>3, <2>1, DownCounts
  <2>3. Len(xx) \in Nat /\ DOMAIN xx = 1..Len(xx)  BY <1>1, LenProperties
  <2>4. IsFiniteSet(U) /\ Cardinality(U) <= Len(xx) - 0
    <3>1. 0 \in Nat /\ 0 <= Len(xx) /\ Len(xx) <= Len(xx)  BY <2>3
    <3> QED  BY <1>1, <2>3, <3>1, AsManyDays
  <2>5. ASSUME NEW j \in 1..n  PROVE s[j] \in U
    <3>1. j \in 1..Len(s)  BY <1>4
    <3>2. s[j] \in known /\ s[j] <= d /\ s[j] \in Int  BY <1>3, <1>4, <3>1 DEF ToSet
    <3>3. s[j] >= s[n]  BY <1>3, <1>4, <3>1 DEF Down
    <3>4. s[j] \in (day_tail + 1)..day  BY <1>1, <1>2, <1>4, <1>5, <3>2, <3>3
    <3>5. s[j] \in ToSet(xx)  BY <1>1, <3>2, <3>4 DEF Shared
    <3> QED  BY <2>3, <3>5 DEF ToSet
  <2>6. T \in SUBSET U  BY <2>5
  <2> HIDE DEF T, U
  <2>7. Cardinality(T) <= Cardinality(U) /\ Cardinality(U) \in Nat
    BY <2>4, <2>6, FS_Subset, FS_CardinalityType
  <2> QED  BY <1>1, <1>2, <2>2, <2>3, <2>4, <2>7
<1>6. CASE s[n] <= day_tail
  <2>1. PICK e \in day_tail..start :
          NoneKnown(day_tail, e) /\ EmptyDays = Cardinality(Counted(day_tail, e))
    BY <1>1, GapGrows DEF NoneKnown
  <2>2. day_tail \in s[n]..start /\ e \in s[n]..start  BY <1>1, <1>4, <1>6, <2>1
  <2>3. Cardinality(Counted(day_tail, e)) <= EmptyLimit
    BY <1>3, <2>1, <2>2 DEF Reached, NoneKnown, Counted
  <2>4. EmptyDays \in Int  BY <1>1 DEF EmptyDays, Days_Inv
  <2> QED  BY <1>1, <1>2, <2>1, <2>3, <2>4
<1> QED  BY <1>1, <1>4, <1>5, <1>6

-----------------------------------------------------------------------------
(* What has been done stays done.                                           *)

LEMMA OfDayStays ==
  ASSUME NEW s, NEW d, OfDay(s, d), statistics \subseteq statistics', UNCHANGED known
  PROVE OfDay(s, d)'
BY DEF OfDay

LEMMA FitsAlike ==
  ASSUME UNCHANGED <<force, start, known>>, NEW d
  PROVE (Interpolable(d)' <=> Interpolable(d)) /\ (Fittable(d)' <=> Fittable(d))
BY DEF Interpolable, Fittable, Back, Reached

(* A result is replaced by none or by another of its day.                   *)
StoresGood ==
  \A e \in Equations : \A d \in Dates :
    results'[e][d] = results[e][d] \/ OfDay(results'[e][d], d)

LEMMA HasStays ==
  ASSUME statistics \subseteq statistics', UNCHANGED known, StoresGood,
         NEW d \in Dates, NEW type \in Types, NEW date \in Dates,
         OfDay(results[<<type, date>>][d], d)
  PROVE OfDay(results[<<type, date>>][d], d)'
<1> DEFINE e == <<type, date>>
<1>1. e \in Equations  BY DEF Equations
<1>2. \E v : v = results'[e][d]  OBVIOUS
<1>3. PICK v : v = results'[e][d]  BY <1>2
<1>4. OfDay(v, d)  BY <1>1, <1>3 DEF StoresGood
<1>5. OfDay(v, d)'  BY <1>4, OfDayStays
<1> QED  BY <1>3, <1>5 DEF OfDay

LEMMA ResultsStay ==
  ASSUME statistics \subseteq statistics', UNCHANGED known, StoresGood,
         NEW d \in Dates, HasResults(d)
  PROVE HasResults(d)'
BY HasStays DEF HasResults

LEMMA OfDayIsADay ==
  ASSUME Days_Inv, NEW s \in Seq(Int), NEW d, OfDay(s, d)
  PROVE d \in statistics /\ d \in Dates /\ s # Null
<1>1. Len(s) = K /\ s[1] = d /\ ToSet(s) \subseteq statistics  BY DEF OfDay
<1>2. 1 \in DOMAIN s  BY <1>1, LenProperties
<1>3. d \in statistics  BY <1>1, <1>2 DEF ToSet
<1>4. d \in 1..today /\ today \in 1..LastDay  BY <1>3 DEF Days_Inv
<1>5. d \in Dates  BY <1>4 DEF Dates
<1>6. Null[1] = 0  BY DEF Null
<1> QED  BY <1>1, <1>3, <1>4, <1>5, <1>6

(* What a run that ends has left of a day that it could fit.                *)
Left(d) ==
  IF force # 0 THEN Ahead(d) => HasResults(d)
  ELSE d = Back(start)[1] => \E e \in d..LastDay : HasResults(e)

Ran(fits(_)) == \A d \in known : fits(d) => Left(d)

LEMMA LeftStays ==
  ASSUME UNCHANGED <<force, start, known>>, NEW d \in Dates, Left(d),
         \A e \in Dates : HasResults(e) => HasResults(e)'
  PROVE Left(d)'
<1>1. Back(start)' = Back(start) /\ Ahead(d)' = Ahead(d)  BY DEF Back, Ahead
<1>2. d..LastDay \subseteq Dates  BY DEF Dates
<1> QED  BY <1>1, <1>2 DEF Left

LEMMA RanStays ==
  ASSUME UNCHANGED <<force, pc, updated, mishaps, start, known>>, known \subseteq Dates,
         \A d \in Dates : HasResults(d) => HasResults(d)'
  PROVE /\ RanThrough(Interpolable) => RanThrough(Interpolable)'
        /\ RanThrough(Fittable) => RanThrough(Fittable)'
<1>1. \A d : (Interpolable(d)' <=> Interpolable(d)) /\ (Fittable(d)' <=> Fittable(d))
  BY FitsAlike
<1>2. \A d \in known : Left(d) => Left(d)'  BY LeftStays
<1>3. Ahead(start)' <=> Ahead(start)  BY DEF Ahead
<1> QED  BY <1>1, <1>2, <1>3 DEF RanThrough, Left

(* While the world goes on the fittings have done what they had.            *)
LEMMA WorldKeepsThrough ==
  ASSUME Inv, Through_Inv, statistics \subseteq statistics', statistics' \subseteq 1..today',
         today' \in today..LastDay,
         UNCHANGED <<force, process, mishaps, begun, window, used, statements, equations, results>>
  PROVE Through_Inv'
<1>1. /\ force' = force /\ updated' = updated /\ pc' = pc /\ day' = day
      /\ empty_days' = empty_days /\ mishaps' = mishaps /\ start' = start /\ known' = known
      /\ xx' = xx /\ day_tail' = day_tail /\ used' = used
      /\ statements' = statements /\ equations' = equations /\ results' = results
  BY DEF process, begun, window
<1>2. StoresGood  BY <1>1 DEF StoresGood
<1>3. /\ known \subseteq Dates /\ day \in Int /\ today \in Int
      /\ known \subseteq statistics /\ statistics \subseteq 1..today
  <2>1. /\ known \subseteq statistics /\ statistics \subseteq 1..today /\ today \in 1..LastDay
        /\ day \in Int
    BY DEF Inv, Types_Inv, Through_Inv, Days_Inv
  <2>2. 1..today \subseteq Dates  BY <2>1 DEF Dates
  <2> QED  BY <2>1, <2>2
<1>4. \A d \in known : Interpolable(d)' <=> Interpolable(d)  BY <1>1, FitsAlike
<1>5. \A d \in Dates : HasResults(d) => HasResults(d)'  BY <1>1, <1>2, ResultsStay
<1>6. Days_Inv'  BY <1>1, <1>3 DEF Through_Inv, Days_Inv
<1>7. day' <= today'  BY <1>1, <1>3 DEF Through_Inv
<1>8. Gap => Gap'  BY <1>1 DEF Gap, NoneKnown, Counted
<1>9. Passed(Interpolable) => Passed(Interpolable)'
  BY <1>1, <1>3, <1>4, <1>5 DEF Passed, Ahead
<1>10. OfDay(used, day) => OfDay(used, day)'
  BY <1>1 DEF OfDay
<1>11. pc = "solved" /\ OfDay(used, day) /\ Storing(day) => Storing(day)'
  <2> SUFFICES ASSUME OfDay(used, day), Storing(day)  PROVE Storing(day)'  OBVIOUS
  <2>1. day \in Dates  BY OfDayIsADay DEF Inv, Types_Inv, Through_Inv
  <2>2. \A type \in Types : Has(type, day) => Has(type, day)'
    BY <1>1, <1>2, <2>1, HasStays DEF Has, Types
  <2>3. (Has("min", day) => Has("min", day)') /\ (HasBoth(day) => HasBoth(day)')
    BY <2>2 DEF HasBoth, Types
  <2> QED  BY <1>1, <2>3 DEF Storing
<1>12. RanThrough(Interpolable)'
  <2>1. RanThrough(Interpolable)  BY DEF Through_Inv
  <2> QED  BY <1>1, <1>3, <1>5, <2>1, RanStays
<1> QED  BY <1>1, <1>6, <1>7, <1>8, <1>9, <1>10, <1>11, <1>12 DEF Through_Inv

LEMMA EndKeepsThrough ==
  ASSUME Through_Inv, Ends, UNCHANGED <<statistics, begun, tables>>,
         mishaps = 0 => Ran(Interpolable)
  PROVE Through_Inv'
<1>1. /\ pc' = "idle" /\ day' = 0 /\ empty_days' = 0 /\ today' = today /\ force' = force
      /\ updated' = updated /\ mishaps' = mishaps /\ statistics' = statistics /\ start' = start
      /\ known' = known /\ results' = results
  BY DEF Ends, Return, begun, tables
<1>2. \A d : Interpolable(d)' <=> Interpolable(d)  BY <1>1, FitsAlike
<1>3. \A d : HasResults(d)' <=> HasResults(d)  BY <1>1 DEF HasResults, OfDay
<1>4. Back(start)' = Back(start)  BY <1>1 DEF Back
<1>5. RanThrough(Interpolable)'
  BY <1>1, <1>2, <1>3, <1>4 DEF RanThrough, Ran, Left, Ahead
<1>6. Days_Inv' /\ day' <= today'  BY <1>1 DEF Through_Inv, Days_Inv
<1> QED  BY <1>1, <1>5, <1>6 DEF Through_Inv

LEMMA BeginKeepsThrough ==
  ASSUME Inv, Through_Inv, InterpolatorBegins
  PROVE Through_Inv'
<1>1. /\ pc' = "fill" /\ day' = today /\ day_tail' = today /\ today' = today /\ start' = today
      /\ known' = statistics /\ statistics' = statistics /\ force' = force /\ mishaps' = mishaps
      /\ empty_days' = 0
  BY DEF InterpolatorBegins, BeginAt, Starts
<1>2. today \in 1..LastDay /\ today \in Int /\ statistics \subseteq 1..today
  BY DEF Through_Inv, Days_Inv
<1>3. Days_Inv' /\ day' <= today'  BY <1>1, <1>2 DEF Through_Inv, Days_Inv
<1>4. Gap'
  <2>1. (day_tail' + 1)..today = {}  BY <1>1, <1>2
  <2>2. NoneKnown(day_tail + 1, today)'  BY <2>1, <1>1 DEF NoneKnown
  <2>3. Counted(day_tail + 1, today)' = {}  BY <2>1, <1>1 DEF Counted
  <2>4. today \in day_tail'..start'  BY <1>1, <1>2
  <2>5. Cardinality({}) = 0  BY FS_EmptySet
  <2>6. \E e \in day_tail'..start' : e = today'  BY <1>1, <2>4
  <2> QED  BY <1>1, <2>2, <2>3, <2>5, <2>6 DEF Gap
<1>5. Passed(Interpolable)'
  <2>1. \A d \in known' : d <= day' /\ ~(d > day')  BY <1>1, <1>2
  <2> QED  BY <2>1 DEF Passed
<1>6. RanThrough(Interpolable)'  BY <1>1 DEF RanThrough
<1> QED  BY <1>1, <1>3, <1>4, <1>5, <1>6 DEF Through_Inv

LEMMA FillKeepsThrough ==
  ASSUME Inv, Through_Inv, TakeDay \/ PassDay \/ (TailFails /\ PassOver)
  PROVE Through_Inv'
<1>1. /\ pc = "fill" /\ pc' = "fill" /\ day' = day /\ day_tail' = day_tail - 1 /\ today' = today
      /\ start' = start /\ statistics' = statistics /\ force' = force /\ results' = results
      /\ known' \subseteq known
      /\ \/ known' = known /\ mishaps' = mishaps
         \/ mishaps' = mishaps + 1
  BY DEF TakeDay, PassDay, PassOver, TailFails, FailsAt, Filling, begun, tables
<1>2. /\ day_tail \in Int /\ start \in Int /\ force \in Nat /\ empty_days \in Nat /\ Gap
      /\ Days_Inv /\ mishaps \in Nat /\ known \subseteq statistics
  BY <1>1 DEF Inv, Types_Inv, Through_Inv, Days_Inv
<1>3. empty_days' \in Nat /\ Gap'
  <2>1. CASE TakeDay
    <3>1. empty_days' = 0  BY <2>1 DEF TakeDay
    <3>2. PICK e \in day_tail..start : TRUE  BY <1>2 DEF Gap
    <3>3. day_tail - 1 \in (day_tail - 1)..start /\ (day_tail' + 1)..(day_tail - 1) = {}
      BY <1>1, <1>2, <3>2
    <3>4. \A d : d = day_tail - 1 =>
            NoneKnown(day_tail + 1, d)' /\ Counted(day_tail + 1, d)' = {}
      BY <1>1, <3>3 DEF NoneKnown, Counted
    <3>5. Cardinality({}) = 0  BY FS_EmptySet
    <3>6. \E d \in day_tail'..start' : d = day_tail - 1  BY <1>1, <3>3
    <3> QED  BY <3>1, <3>4, <3>5, <3>6 DEF Gap
  <2>2. CASE PassDay \/ (TailFails /\ PassOver)
    <3>1. empty_days' = EmptyDays /\ day_tail \notin known'
      BY <1>2, <2>2 DEF PassDay, PassOver, TailFails, begun
    <3>2. PICK e \in day_tail..start :
            /\ known \cap (day_tail..e) \subseteq {day_tail}
            /\ EmptyDays = Cardinality(Counted(day_tail, e))
      BY <1>2, GapGrows
    <3>3. e \in day_tail'..start' /\ day_tail' + 1 = day_tail  BY <1>1, <1>2, <3>2
    <3>4. NoneKnown(day_tail + 1, e)' /\ Counted(day_tail + 1, e)' = Counted(day_tail, e)
      BY <1>1, <3>1, <3>2, <3>3 DEF NoneKnown, Counted
    <3>5. EmptyDays \in Nat  BY <1>2 DEF EmptyDays
    <3> QED  BY <3>1, <3>2, <3>3, <3>4, <3>5 DEF Gap
  <2> QED  BY <2>1, <2>2
<1>4. mishaps' = 0 /\ Passed(Interpolable) => Passed(Interpolable)'
  <2> SUFFICES ASSUME known' = known, Passed(Interpolable)  PROVE Passed(Interpolable)'
    BY <1>1, <1>2
  <2>1. \A d : Interpolable(d)' <=> Interpolable(d)  BY <1>1, FitsAlike
  <2>2. \A d : HasResults(d)' <=> HasResults(d)  BY <1>1 DEF HasResults, OfDay
  <2> QED  BY <1>1, <2>1, <2>2 DEF Passed, Ahead
<1>5. mishaps' \in Nat /\ (mishaps' = 0 => mishaps = 0)  BY <1>1, <1>2
<1>6. Days_Inv' /\ day' <= today'  BY <1>1, <1>3, <1>5 DEF Through_Inv, Days_Inv
<1>7. RanThrough(Interpolable)'  BY <1>1 DEF RanThrough
<1> QED  BY <1>1, <1>3, <1>4, <1>5, <1>6, <1>7 DEF Through_Inv

LEMMA SkipKeepsThrough ==
  ASSUME Inv, Through_Inv, SkipDay
  PROVE Through_Inv'
<1>1. /\ WindowIsFull /\ Queued /\ pc = "fill" /\ pc' = "fill" /\ day' = day - 1 /\ today' = today
      /\ start' = start /\ known' = known /\ statistics' = statistics /\ force' = force
      /\ mishaps' = mishaps /\ empty_days' = empty_days /\ day_tail' = day_tail
      /\ results' = results
  BY DEF SkipDay, WindowIsFull, DayBefore, begun, tables
<1>2. /\ day \in Int /\ today \in Int /\ Gap /\ Days_Inv /\ known \subseteq Int
  BY <1>1 DEF Inv, Types_Inv, Through_Inv, Days_Inv
<1>3. day \notin known
  <2>1. empty_queue \in Seq(Int) /\ Down(empty_queue) /\ ToSet(empty_queue) \cap known = {}
    BY <1>1 DEF Inv, Types_Inv, Window_Inv, Shared
  <2>2. empty_queue # <<>> /\ Head(empty_queue) = day  BY <1>1, DayIsAFront
  <2> QED  BY <2>1, <2>2, DownTail
<1>4. \A d : Interpolable(d)' <=> Interpolable(d)  BY <1>1, FitsAlike
<1>5. \A d : HasResults(d)' <=> HasResults(d)  BY <1>1 DEF HasResults, OfDay
<1>6. \A d \in known : (d <= day => d <= day - 1) /\ (d > day - 1 => d > day)  BY <1>2, <1>3
<1>7. Passed(Interpolable) => Passed(Interpolable)'
  BY <1>1, <1>4, <1>5, <1>6 DEF Passed, Ahead
<1>8. Days_Inv' /\ day' <= today'  BY <1>1, <1>2 DEF Through_Inv, Days_Inv
<1>9. Gap'  BY <1>1, <1>2 DEF Gap, NoneKnown, Counted
<1>10. RanThrough(Interpolable)'  BY <1>1 DEF RanThrough
<1> QED  BY <1>1, <1>7, <1>8, <1>9, <1>10 DEF Through_Inv

LEMMA SolveKeepsThrough ==
  ASSUME Inv, Through_Inv, Solve
  PROVE Through_Inv'
<1>1. /\ WindowIsFull /\ ~Queued /\ pc = "fill" /\ pc' = "solved" /\ day' = day /\ today' = today
      /\ start' = start /\ known' = known /\ statistics' = statistics /\ force' = force
      /\ empty_days' = empty_days /\ day_tail' = day_tail /\ results' = results
      /\ equations' = equations
      /\ statements' = EquationThenResult("min", day) \o EquationThenResult("max", day)
      /\ \/ used' = SubSeq(xx, 1, K) /\ mishaps' = mishaps
         \/ mishaps' = mishaps + 1
  BY DEF Solve, WindowIsFull, Goto, FailsAt, begun, tables
<1>2. /\ day \in Int /\ today \in Int /\ Gap /\ Days_Inv /\ mishaps \in Nat
  BY <1>1 DEF Inv, Types_Inv, Through_Inv, Days_Inv
<1>3. mishaps' \in Nat /\ (mishaps' = 0 => mishaps = 0 /\ used' = SubSeq(xx, 1, K))
  BY <1>1, <1>2
<1>4. mishaps' = 0 => OfDay(used, day)'
  <2>1. OfDay(SubSeq(xx, 1, K), day)  BY <1>1, FrontIsOfItsDay
  <2>2. ASSUME used' = SubSeq(xx, 1, K)  PROVE OfDay(used, day)'
    BY <1>1, <2>1, <2>2 DEF OfDay
  <2> QED  BY <1>3, <2>2
<1>5. Storing(day)'  BY <1>1 DEF Storing, EquationThenResult
<1>6. \A d : Interpolable(d)' <=> Interpolable(d)  BY <1>1, FitsAlike
<1>7. \A d : HasResults(d)' <=> HasResults(d)  BY <1>1 DEF HasResults, OfDay
<1>8. Passed(Interpolable) => Passed(Interpolable)'
  BY <1>1, <1>6, <1>7 DEF Passed, Ahead
<1>9. Days_Inv' /\ day' <= today'  BY <1>1, <1>2, <1>3 DEF Through_Inv, Days_Inv
<1>10. Gap'  BY <1>1, <1>2 DEF Gap, NoneKnown, Counted
<1>11. RanThrough(Interpolable)'  BY <1>1 DEF RanThrough
<1> QED  BY <1>1, <1>3, <1>4, <1>5, <1>8, <1>9, <1>10, <1>11 DEF Through_Inv

(* A statement stores the day's result where its equation is, and nothing   *)
(* else.                                                                    *)
LEMMA StoredIsGood ==
  ASSUME results \in [Equations -> [Dates -> Seq(Int)]], used # Null,
         NEW type \in Types, NEW date \in Dates, NEW d \in Dates, OfDay(used, d),
         InsertResult(type, date, d, used)
  PROVE /\ StoresGood
        /\ <<type, date>> \in equations => results'[<<type, date>>][d] = used
<1>1. CASE <<type, date>> \notin equations
  BY <1>1 DEF InsertResult, StoresGood
<1>2. CASE <<type, date>> \in equations
  <2> DEFINE e == <<type, date>>
  <2>1. results' = [results EXCEPT ![e][d] = used]  BY <1>2 DEF InsertResult
  <2>2. e \in Equations  BY DEF Equations
  <2>3. /\ results'[e][d] = used
        /\ \A f \in Equations : \A g \in Dates :
             f # e \/ g # d => results'[f][g] = results[f][g]
    BY <2>1, <2>2
  <2> QED  BY <2>2, <2>3 DEF StoresGood
<1> QED  BY <1>1, <1>2

LEMMA FirstOfThree ==
  ASSUME NEW s, NEW a, NEW b, NEW c, s = <<a>> \o <<b, c>>
  PROVE Head(s) = a /\ Tail(s) = <<b, c>>
<1> DEFINE S == {a, b, c}
           t == Tail(s)
           u == <<b, c>>
<1>1. t \in Seq(S) /\ u \in Seq(S) /\ Len(t) = 2 /\ Len(u) = 2 /\ Head(s) = a  OBVIOUS
<1>2. \A i \in 1..2 : t[i] = u[i]  OBVIOUS
<1>3. t = u  BY <1>1, <1>2, SeqEqual
<1> QED  BY <1>1, <1>3

(* The statements of a day, one after the other, give it its results.       *)
LEMMA InsertStores ==
  ASSUME results \in [Equations -> [Dates -> Seq(Int)]], used # Null,
         day \in Dates, OfDay(used, day), Storing(day), Insert
  PROVE StoresGood /\ Storing(day)'
<1>1. /\ statements # <<>> /\ statements' = Tail(statements) /\ day' = day
      /\ statistics' = statistics /\ known' = known /\ used' = used
  BY DEF Insert, daysBack, process, begun
<1>2. Types = {"min", "max"}  BY DEF Types
<1>3. ASSUME StoresGood, NEW type \in Types, Has(type, day)  PROVE Has(type, day)'
  BY <1>1, <1>3, HasStays DEF Has
<1>4. ASSUME NEW type \in Types, Head(statements) = <<"result", type, day>>,
             <<type, day>> \in equations
      PROVE StoresGood /\ Has(type, day)' /\ equations' = equations
  <2>1. InsertResult(type, day, day, used)  BY <1>4 DEF Insert
  <2>2. StoresGood /\ results'[<<type, day>>][day] = used  BY <1>4, <2>1, StoredIsGood
  <2>3. equations' = equations  BY <2>1 DEF InsertResult
  <2>4. OfDay(used, day)'  BY <1>1 DEF OfDay
  <2> QED  BY <1>1, <2>2, <2>3, <2>4 DEF Has
<1>5. ASSUME NEW type \in Types, Head(statements) = <<"equation", type, day>>
      PROVE StoresGood /\ equations' = equations \cup {<<type, day>>}
  BY <1>5 DEF Insert, InsertEquation, StoresGood
<1> DEFINE a == <<"equation", "min", day>>
           b == <<"result", "min", day>>
           c == <<"equation", "max", day>>
           d == <<"result", "max", day>>
<1>6. CASE statements = EquationThenResult("min", day) \o EquationThenResult("max", day)
  <2>1. statements = <<a, b>> \o <<c, d>>
    BY <1>6 DEF EquationThenResult
  <2>2. /\ Head(statements) = a
        /\ statements' = Result("min", day) \o EquationThenResult("max", day)
    <3>1. <<b>> \o <<c, d>> = Result("min", day) \o EquationThenResult("max", day)
      BY DEF EquationThenResult, Result
    <3> HIDE DEF a, b, c, d
    <3>2. Head(statements) = a /\ Tail(statements) = <<b>> \o <<c, d>>
      BY <2>1, SMTT(30)
    <3> QED  BY <1>1, <3>1, <3>2
  <2>3. StoresGood /\ <<"min", day>> \in equations'  BY <1>2, <1>5, <2>2
  <2> QED  BY <1>1, <2>2, <2>3 DEF Storing
<1>7. CASE /\ statements = Result("min", day) \o EquationThenResult("max", day)
           /\ <<"min", day>> \in equations
  <2>1. statements = <<b>> \o <<c, d>>
    BY <1>7 DEF EquationThenResult, Result
  <2>2. Head(statements) = b /\ statements' = EquationThenResult("max", day)
    <3>1. <<c, d>> = EquationThenResult("max", day)  BY DEF EquationThenResult
    <3> HIDE DEF a, b, c, d
    <3> QED  BY <1>1, <2>1, <3>1, FirstOfThree
  <2>3. StoresGood /\ Has("min", day)'  BY <1>2, <1>4, <1>7, <2>2
  <2> QED  BY <1>1, <2>2, <2>3 DEF Storing
<1>8. CASE statements = EquationThenResult("max", day) /\ Has("min", day)
  <2>1. Head(statements) = c /\ statements' = Result("max", day)
    BY <1>1, <1>8 DEF EquationThenResult, Result
  <2>2. StoresGood /\ <<"max", day>> \in equations'  BY <1>2, <1>5, <2>1
  <2>3. Has("min", day)'  BY <1>2, <1>3, <1>8, <2>2
  <2> QED  BY <1>1, <2>1, <2>2, <2>3 DEF Storing
<1>9. CASE statements = Result("max", day) /\ Has("min", day) /\ <<"max", day>> \in equations
  <2>1. Head(statements) = d /\ statements' = <<>>  BY <1>1, <1>9 DEF Result
  <2>2. StoresGood /\ Has("max", day)'  BY <1>2, <1>4, <1>9, <2>1
  <2>3. Has("min", day)'  BY <1>2, <1>3, <1>9, <2>2
  <2>4. HasBoth(day)'  BY <1>2, <2>2, <2>3 DEF HasBoth
  <2> QED  BY <1>1, <2>1, <2>2, <2>4 DEF Storing
<1> QED  BY <1>1, <1>6, <1>7, <1>8, <1>9 DEF Storing

LEMMA InsertKeepsThrough ==
  ASSUME Inv, Through_Inv, Insert \/ InsertFails
  PROVE Through_Inv'
<1>1. /\ statements # <<>> /\ pc' = pc /\ day' = day /\ today' = today
      /\ start' = start /\ known' = known /\ statistics' = statistics /\ force' = force
      /\ empty_days' = empty_days /\ day_tail' = day_tail /\ used' = used
      /\ mishaps' \in {mishaps, mishaps + 1} /\ (mishaps' = mishaps => Insert)
  <2>1. CASE Insert  BY <2>1 DEF Insert, daysBack, process, begun, window
  <2>2. CASE InsertFails
    <3>1. mishaps \in Nat  BY DEF Through_Inv, Days_Inv
    <3> QED  BY <2>2, <3>1 DEF InsertFails, FailsAt, begun, window
  <2> QED  BY <2>1, <2>2
<1>2. /\ pc = "solved" /\ day \in Int /\ today \in Int /\ Gap /\ Days_Inv /\ mishaps \in Nat
      /\ known \subseteq statistics /\ used \in Seq(Int)
      /\ results \in [Equations -> [Dates -> Seq(Int)]]
  BY <1>1 DEF Inv, Types_Inv, Window_Inv, Through_Inv, Days_Inv
<1>3. Days_Inv' /\ day' <= today'  BY <1>1, <1>2 DEF Through_Inv, Days_Inv
<1>4. Gap'  BY <1>1, <1>2 DEF Gap, NoneKnown, Counted
<1>5. RanThrough(Interpolable)'  BY <1>1, <1>2 DEF RanThrough
<1>6. ASSUME mishaps' = 0
      PROVE OfDay(used, day)' /\ Storing(day)' /\ Passed(Interpolable)'
  <2>1. mishaps = 0 /\ Insert  BY <1>1, <1>2, <1>6
  <2>2. OfDay(used, day) /\ Storing(day) /\ Passed(Interpolable)
    BY <1>2, <2>1 DEF Through_Inv
  <2>3. day \in Dates /\ used # Null  BY <1>2, <2>2, OfDayIsADay
  <2>4. StoresGood /\ Storing(day)'  BY <1>2, <2>1, <2>2, <2>3, InsertStores
  <2>5. OfDay(used, day)'  BY <1>1, <2>2 DEF OfDay
  <2>6. known \subseteq Dates  BY <1>2 DEF Days_Inv, Dates
  <2>7. \A d \in Dates : HasResults(d) => HasResults(d)'  BY <1>1, <2>4, ResultsStay
  <2>8. \A d : Interpolable(d)' <=> Interpolable(d)  BY <1>1, FitsAlike
  <2>9. Passed(Interpolable)'  BY <1>1, <2>2, <2>6, <2>7, <2>8 DEF Passed, Ahead
  <2> QED  BY <2>4, <2>5, <2>9
<1> QED  BY <1>1, <1>2, <1>3, <1>4, <1>5, <1>6 DEF Through_Inv

(* A day whose statements are done has its results.                         *)
LEMMA StoredIsThere ==
  ASSUME day \in Dates, NEW date \in Dates, HasBoth(date)
  PROVE HasResults(day)
BY DEF HasBoth, Has, HasResults

LEMMA SolvedKeepsThrough ==
  ASSUME Inv, Through_Inv, Solved
  PROVE Through_Inv'
<1>1. /\ pc = "solved" /\ statements = <<>> /\ statistics' = statistics /\ start' = start
      /\ known' = known /\ results' = results /\ UNCHANGED <<statistics, begun, tables>>
  BY DEF Solved, begun, tables
<1>2. /\ day \in Int /\ today \in 1..LastDay /\ today \in Int /\ day <= today /\ Gap /\ Days_Inv
      /\ known \subseteq statistics /\ used \in Seq(Int) /\ known \subseteq Int
  BY <1>1 DEF Inv, Types_Inv, Window_Inv, Through_Inv, Days_Inv
<1>3. mishaps = 0 => Passed(Interpolable) /\ HasResults(day)
  <2> SUFFICES ASSUME mishaps = 0  PROVE Passed(Interpolable) /\ HasResults(day)  OBVIOUS
  <2>1. OfDay(used, day) /\ Storing(day) /\ Passed(Interpolable)  BY <1>1 DEF Through_Inv
  <2>2. HasBoth(day)
    BY <1>1, <2>1 DEF Storing, EquationThenResult, Result
  <2>3. day \in Dates  BY <1>2, <2>1, OfDayIsADay
  <2> QED  BY <2>1, <2>2, <2>3, StoredIsThere
<1>4. CASE force = 0
  <2>1. Ends  BY <1>4 DEF Solved
  <2>2. mishaps = 0 => Ran(Interpolable)
    <3> SUFFICES ASSUME mishaps = 0, NEW d \in known  PROVE \E e \in d..LastDay : HasResults(e)
      BY <1>4 DEF Ran, Left
    <3>1. d <= day /\ HasResults(day)  BY <1>3, <1>4 DEF Passed
    <3>2. day \in d..LastDay  BY <1>2, <3>1
    <3> QED  BY <3>1, <3>2
  <2> QED  BY <1>1, <2>1, <2>2, EndKeepsThrough
<1>5. CASE force # 0
  <2>1. /\ pc' = "fill" /\ day' = day - 1 /\ today' = today /\ force' = force
        /\ empty_days' = empty_days /\ mishaps' = mishaps /\ day_tail' = day_tail
    BY <1>5 DEF Solved, DayBefore, window
  <2>2. Days_Inv' /\ day' <= today'  BY <1>1, <1>2, <2>1 DEF Days_Inv
  <2>3. Gap'  BY <1>1, <1>2, <2>1 DEF Gap, NoneKnown, Counted
  <2>4. RanThrough(Interpolable)'  BY <2>1 DEF RanThrough
  <2>5. \A d : Interpolable(d)' <=> Interpolable(d)  BY <1>1, <2>1, FitsAlike
  <2>6. \A d : HasResults(d)' <=> HasResults(d)  BY <1>1 DEF HasResults, OfDay
  <2>7. \A d \in known : d > day - 1 => d > day \/ d = day  BY <1>2
  <2>8. mishaps = 0 => Passed(Interpolable)'
    BY <1>1, <1>3, <1>5, <2>1, <2>5, <2>6, <2>7 DEF Passed, Ahead
  <2> QED  BY <2>1, <2>2, <2>3, <2>4, <2>8 DEF Through_Inv
<1> QED  BY <1>4, <1>5

LEMMA EndsKeepThrough ==
  ASSUME Inv, Through_Inv, InterpolatorEnds \/ TooManyEmpty
  PROVE Through_Inv'
<1>1. pc = "fill" /\ Ends /\ UNCHANGED <<statistics, begun, tables>>
  BY DEF InterpolatorEnds, TooManyEmpty, Filling
<1>2. day \in Int /\ force \in Nat /\ known \subseteq Int
  BY DEF Inv, Types_Inv, Through_Inv, Days_Inv
<1>3. mishaps = 0 => Ran(Interpolable)
  <2> SUFFICES ASSUME mishaps = 0, NEW d \in known, Interpolable(d)
               PROVE force # 0 /\ (Ahead(d) => HasResults(d))
    BY DEF Ran, Left
  <2>1. IF force = 0 THEN d <= day ELSE Ahead(d) /\ d > day => HasResults(d)
    BY <1>1 DEF Through_Inv, Passed
  <2>2. CASE InterpolatorEnds
    <3>1. force # 0 /\ ~(force < day)  BY <2>2 DEF InterpolatorEnds, Ahead
    <3>2. Ahead(d) => d > day  BY <1>2, <3>1 DEF Ahead
    <3> QED  BY <2>1, <3>1, <3>2
  <2>3. CASE TooManyEmpty
    <3>1. ~(d <= day)  BY <2>3, NoneIsInterpolable
    <3> QED  BY <1>2, <2>1, <3>1
  <2> QED  BY <2>2, <2>3
<1> QED  BY <1>1, <1>3, EndKeepsThrough

(* A run that could not be begun, or was broken off.                        *)
LEMMA FailureKeepsThrough ==
  ASSUME Inv, Through_Inv, FittingCodesFail \/ (TailFails /\ ~PassOver)
  PROVE Through_Inv'
<1>1. /\ pc' = "idle" /\ day' = day /\ empty_days' = empty_days /\ today' = today
      /\ force' = force /\ mishaps' = mishaps + 1 /\ statistics' = statistics /\ start' = start
  BY DEF FittingCodesFail, CodesFail, TailFails, FailsAt, fittingVars, begun
<1>2. Days_Inv /\ mishaps \in Nat  BY DEF Through_Inv, Days_Inv
<1>3. Days_Inv' /\ day' <= today' /\ mishaps' # 0  BY <1>1, <1>2 DEF Through_Inv, Days_Inv
<1> QED  BY <1>1, <1>3 DEF Through_Inv, RanThrough

LEMMA RestartKeepsThrough ==
  ASSUME Through_Inv, FittingRestart
  PROVE Through_Inv'
<1>1. /\ pc' = "idle" /\ day' = 0 /\ empty_days' = 0 /\ today' = today /\ force' = force
      /\ mishaps' = mishaps + 1 /\ statistics' = statistics /\ start' = start
  BY DEF FittingRestart, Restart, begun
<1>2. Days_Inv /\ mishaps \in Nat /\ today \in Nat  BY DEF Through_Inv, Days_Inv
<1>3. Days_Inv' /\ day' <= today' /\ mishaps' # 0  BY <1>1, <1>2 DEF Days_Inv
<1> QED  BY <1>1, <1>3 DEF Through_Inv, RanThrough

LEMMA ThroughInit == loaded = "interpolator" /\ Init => Through_Inv
<1> SUFFICES ASSUME Init  PROVE Through_Inv  OBVIOUS
<1>1. /\ today = FirstDay /\ force \in {0} \cup Forced /\ updated = TRUE /\ pc = "idle"
      /\ day = 0 /\ empty_days = 0 /\ mishaps = 0 /\ statistics \subseteq 1..FirstDay /\ start = 0
  BY DEF Init, DaysInit, FittingInit
<1>2. Days_Inv /\ day <= today  BY <1>1 DEF Days_Inv
<1> QED  BY <1>1, <1>2 DEF Through_Inv, RanThrough

LEMMA StepKeepsThrough ==
  ASSUME Inv, Through_Inv, [Next]_backEndVars
  PROVE Through_Inv'
<1>0. loaded = "interpolator"  BY DEF Inv, Types_Inv
<1>1. \/ UNCHANGED backEndVars
      \/ UNCHANGED loaded /\ (Interpolator \/ FittingWorld)
  BY <1>0 DEF Next, Run, World, Show, LoadedWealth, LoadedFitting, Loaded
<1>2. /\ today \in 1..LastDay /\ today \in today..LastDay /\ today \in Int
      /\ statistics \subseteq 1..today
  BY DEF Through_Inv, Days_Inv
<1>3. CASE UNCHANGED backEndVars
  BY <1>2, <1>3, WorldKeepsThrough DEF backEndVars, daysBack, fittingVars, tables
<1>4. CASE Interpolator
  <2>1. CASE InterpolatorBegins  BY <2>1, BeginKeepsThrough
  <2>2. CASE InterpolatorEnds \/ TooManyEmpty  BY <2>2, EndsKeepThrough
  <2>3. CASE TakeDay \/ PassDay \/ (TailFails /\ PassOver)  BY <2>3, FillKeepsThrough
  <2>4. CASE SkipDay  BY <2>4, SkipKeepsThrough
  <2>5. CASE Solve  BY <2>5, SolveKeepsThrough
  <2>6. CASE Insert \/ InsertFails  BY <2>6, InsertKeepsThrough
  <2>7. CASE Solved  BY <2>7, SolvedKeepsThrough
  <2>8. CASE FittingCodesFail \/ (TailFails /\ ~PassOver)  BY <2>8, FailureKeepsThrough
  <2> QED  BY <1>4, <2>1, <2>2, <2>3, <2>4, <2>5, <2>6, <2>7, <2>8 DEF Interpolator
<1>5. CASE FittingWorld
  <2>1. CASE FillDay
    <3>1. statistics' \subseteq 1..today' /\ statistics \subseteq statistics' /\ today' = today
      BY <1>2, <2>1 DEF FillDay, daysBack
    <3> QED  BY <1>2, <2>1, <3>1, WorldKeepsThrough DEF FillDay, daysBack, tables
  <2>2. CASE FittingNextDay
    <3>1. statistics' = statistics /\ today' = today + 1 /\ today < LastDay
      BY <2>2 DEF FittingNextDay, MidNight, fittingVars
    <3>2. today' \in today..LastDay /\ statistics' \subseteq 1..today'  BY <1>2, <3>1
    <3> QED
      BY <2>2, <3>1, <3>2, WorldKeepsThrough DEF FittingNextDay, MidNight, fittingVars, tables
  <2>3. CASE FittingRestart  BY <2>3, RestartKeepsThrough
  <2> QED  BY <1>5, <2>1, <2>2, <2>3 DEF FittingWorld
<1> QED  BY <1>1, <1>3, <1>4, <1>5

-----------------------------------------------------------------------------
(* What both fittings insert are equations of days and their results.       *)

Statements == {"equation", "result"} \X Types \X Dates

Statements_Inv == statements \in Seq(Statements) /\ equations \subseteq Equations

LEMMA StatementsInit == Init => Statements_Inv
BY DEF Init, FittingInit, Statements_Inv

LEMMA StatementsStay ==
  ASSUME Statements_Inv, statements' \in {statements, <<>>}, UNCHANGED equations
  PROVE Statements_Inv'
<1>1. <<>> \in Seq(Statements)  OBVIOUS
<1> QED  BY <1>1 DEF Statements_Inv

LEMMA InsertKeepsStatements ==
  ASSUME Statements_Inv, Insert \/ InsertFails
  PROVE Statements_Inv'
<1> DEFINE s == Head(statements)
<1>1. statements \in Seq(Statements) /\ statements # <<>> /\ statements' = Tail(statements)
  BY DEF Statements_Inv, Insert, InsertFails
<1>2. s \in Statements /\ statements' \in Seq(Statements)  BY <1>1, HeadTailProperties
<1>3. <<s[2], s[3]>> \in Equations  BY <1>2 DEF Statements, Equations
<1>4. equations' \in {equations, equations \cup {<<s[2], s[3]>>}}
  BY DEF Insert, InsertFails, InsertEquation, InsertResult, tables
<1> QED  BY <1>2, <1>3, <1>4 DEF Statements_Inv

LEMMA DayKeepsStatements ==
  ASSUME Statements_Inv, NEW date \in Dates, UNCHANGED equations,
         \/ statements' = EquationThenResult("min", date) \o EquationThenResult("max", date)
         \/ statements' = Result("min", date) \o Result("max", date)
         \/ statements' = <<<<"equation", "min", date>>, <<"equation", "max", date>>>>
  PROVE Statements_Inv'
<1>1. /\ EquationThenResult("min", date) \in Seq(Statements)
      /\ EquationThenResult("max", date) \in Seq(Statements)
      /\ Result("min", date) \in Seq(Statements) /\ Result("max", date) \in Seq(Statements)
      /\ <<<<"equation", "min", date>>, <<"equation", "max", date>>>> \in Seq(Statements)
  BY DEF EquationThenResult, Result, Statements, Types
<1>2. \A s, t \in Seq(Statements) : s \o t \in Seq(Statements)  OBVIOUS
<1> QED  BY <1>1, <1>2 DEF Statements_Inv

LEMMA StepKeepsStatements ==
  ASSUME Statements_Inv, [Next]_backEndVars,
         Solve => day \in Dates, Fit => Taken[1] \in Dates, Label => start \in Dates
  PROVE Statements_Inv'
<1>1. \/ UNCHANGED fittingVars \/ Interpolator \/ Regression \/ FittingWorld
  BY DEF Next, Run, World, Show, LoadedWealth, LoadedFitting, Loaded, backEndVars
<1>2. CASE UNCHANGED fittingVars \/ FittingWorld
  BY <1>2, StatementsStay
     DEF fittingVars, tables, FittingWorld, FillDay, FittingNextDay, FittingRestart, Forget
<1>3. CASE Insert \/ InsertFails  BY <1>3, InsertKeepsStatements
<1>4. CASE Solve  BY <1>4, DayKeepsStatements DEF Solve, tables
<1>5. CASE Fit  BY <1>5, DayKeepsStatements DEF Fit, FitAt, tables
<1>6. CASE Label  BY <1>6, DayKeepsStatements DEF Label, tables
<1>7. CASE \/ InterpolatorBegins \/ FittingCodesFail \/ InterpolatorEnds \/ TakeDay \/ PassDay
           \/ TailFails \/ TooManyEmpty \/ SkipDay \/ Solved
  BY <1>7, StatementsStay
     DEF InterpolatorBegins, FittingCodesFail, InterpolatorEnds, TakeDay, PassDay, PassOver,
         TailFails, TooManyEmpty, SkipDay, Solved, Ends, Forget, fittingVars, tables
<1>8. CASE \/ RegressionBegins \/ Query \/ QueryFails \/ TooFewDays \/ NoFit \/ PassLabel
           \/ Labelled \/ RegressionEnds
  BY <1>8, StatementsStay
     DEF RegressionBegins, Query, QueryFails, TooFewDays, NoFit, PassLabel, Labelled, RegressionEnds,
         Ends, Forget, tables
<1> QED
  BY <1>1, <1>2, <1>3, <1>4, <1>5, <1>6, <1>7, <1>8 DEF Interpolator, Regression

-----------------------------------------------------------------------------
(* The inductive invariant of the regression.                               *)

(* The queue and the rows from row on share out the days from d back to the *)
(* first of the window, which has all that were known.                      *)
Remains(d) ==
  /\ Down(xx) /\ Down(empty_queue)
  /\ ToSet(xx) \subseteq statistics /\ known \subseteq ToSet(xx)
  /\ ToSet(empty_queue) \cap ToSet(xx) = {} /\ row \in 0..Len(xx)
  /\ \A e \in Dates : e <= d /\ e >= xx[Len(xx)] =>
       e \in ToSet(empty_queue) \/ \E i \in (row + 1)..Len(xx) : e = xx[i]
  /\ \A e \in ToSet(empty_queue) : e <= d
  /\ \A i \in (row + 1)..Len(xx) : xx[i] <= d

RegTypes_Inv ==
  /\ loaded = "regression" /\ Days_Inv
  /\ day \in Int /\ day <= today /\ row \in Nat
  /\ xx \in Seq(Int) /\ empty_queue \in Seq(Int) /\ used \in Seq(Int)
  /\ columns \in Seq(SUBSET Int) /\ known \subseteq statistics
  /\ results \in [Equations -> [Dates -> Seq(Int)]]

(* What was known is in every answer, whenever it was given.                *)
Columns_Inv ==
  \A i \in DOMAIN columns : columns[i] \subseteq statistics /\ known \subseteq columns[i]

Rows_Inv ==
  /\ pc \in {"idle", "query", "label", "labelled"}
  /\ statements # <<>> => pc \in {"label", "labelled"}
  /\ pc = "idle" => columns = <<>>
  /\ pc \in {"idle", "query"} => row = 0
  /\ pc = "query" => Columns_Inv /\ \A d \in known : d <= day
  /\ pc \in {"label", "labelled"} => start \in Dates /\ xx # <<>>
  /\ pc = "label" => Remains(day) /\ \A i \in DOMAIN statements : statements[i][1] = "equation"
  /\ pc = "labelled" => Remains(day - 1) /\ OfDay(used, day)

RegInv == RegTypes_Inv /\ Rows_Inv

LEMMA RegInit == loaded = "regression" /\ Init => RegInv
<1> SUFFICES ASSUME loaded = "regression", Init  PROVE RegInv  OBVIOUS
<1>1. /\ today = FirstDay /\ force \in {0} \cup Forced /\ pc = "idle" /\ day = 0 /\ empty_days = 0
      /\ mishaps = 0 /\ statistics \subseteq 1..FirstDay /\ start = 0 /\ known = {}
      /\ xx = <<>> /\ empty_queue = <<>> /\ used = <<>> /\ columns = <<>> /\ row = 0
      /\ statements = <<>>
  BY DEF Init, DaysInit, FittingInit
<1>2. results \in [Equations -> [Dates -> Seq(Int)]]
  <2>1. NoRow \in Seq(Int)  BY DEF NoRow
  <2> QED  BY <2>1 DEF Init, FittingInit
<1>3. Days_Inv  BY <1>1 DEF Days_Inv
<1>4. RegTypes_Inv  BY <1>1, <1>2, <1>3 DEF RegTypes_Inv
<1>5. Rows_Inv  BY <1>1 DEF Rows_Inv
<1> QED  BY <1>4, <1>5 DEF RegInv

(* Days that are written meanwhile take nothing away.                       *)
LEMMA WorldKeepsReg ==
  ASSUME RegInv, statistics \subseteq statistics', statistics' \subseteq 1..today',
         today' \in today..LastDay,
         UNCHANGED <<loaded, force, process, mishaps, begun, window, columns, row, used, statements,
                     results>>
  PROVE RegInv' /\ StoresItsDay
<1>1. /\ loaded' = loaded /\ force' = force /\ pc' = pc /\ day' = day
      /\ empty_days' = empty_days /\ mishaps' = mishaps /\ start' = start /\ known' = known
      /\ xx' = xx /\ empty_queue' = empty_queue /\ columns' = columns /\ row' = row /\ used' = used
      /\ statements' = statements /\ results' = results
  BY DEF process, begun, window
<1>2. /\ today \in 1..LastDay /\ today \in Int /\ day \in Int /\ day <= today /\ Days_Inv
      /\ known \subseteq statistics
  BY DEF RegInv, RegTypes_Inv, Days_Inv
<1>3. Days_Inv'  BY <1>1, <1>2 DEF Days_Inv
<1>4. RegTypes_Inv'
  <2>1. day' <= today'  BY <1>1, <1>2
  <2> QED  BY <1>1, <1>2, <1>3, <2>1 DEF RegInv, RegTypes_Inv
<1>5. \A d : Remains(d) => Remains(d)'  BY <1>1 DEF Remains, Down
<1>6. OfDay(used, day) => OfDay(used, day)'  BY <1>1 DEF OfDay
<1>7. Columns_Inv => Columns_Inv'  BY <1>1 DEF Columns_Inv
<1>8. Rows_Inv'
  <2>1. pc' = "label" => Remains(day)'
    BY <1>1, <1>5 DEF RegInv, Rows_Inv
  <2>2. pc' = "labelled" => Remains(day - 1)' /\ OfDay(used, day)'
    BY <1>1, <1>5, <1>6 DEF RegInv, Rows_Inv
  <2> QED  BY <1>1, <1>7, <2>1, <2>2 DEF RegInv, Rows_Inv
<1> QED  BY <1>1, <1>4, <1>8 DEF RegInv, StoresItsDay

LEMMA EndKeepsReg ==
  ASSUME RegInv, Forget, pc' = "idle", day' \in Int, day' <= today,
         {empty_days', mishaps'} \subseteq Nat,
         UNCHANGED <<loaded, today, force, start, statistics, known, results>>
  PROVE RegInv' /\ StoresItsDay
<1>1. /\ xx' = <<>> /\ empty_queue' = <<>> /\ columns' = <<>> /\ row' = 0 /\ used' = <<>>
      /\ statements' = <<>>
  BY DEF Forget
<1>2. Days_Inv' /\ day' <= today'  BY DEF RegInv, RegTypes_Inv, Days_Inv
<1>3. RegTypes_Inv'  BY <1>1, <1>2 DEF RegInv, RegTypes_Inv
<1>4. Rows_Inv'  BY <1>1 DEF Rows_Inv
<1> QED  BY <1>3, <1>4 DEF RegInv, StoresItsDay

LEMMA BeginKeepsReg ==
  ASSUME RegInv, RegressionBegins, UNCHANGED loaded
  PROVE RegInv' /\ StoresItsDay
<1>1. /\ pc = "idle" /\ pc' = "query" /\ day' = today /\ today' = today /\ start' = today
      /\ known' = statistics /\ statistics' = statistics /\ force' = force /\ mishaps' = mishaps
      /\ empty_days' = 0 /\ xx' = xx /\ empty_queue' = empty_queue
      /\ columns' = columns /\ row' = row
      /\ used' = used /\ statements' = statements /\ results' = results
  BY DEF RegressionBegins, BeginAt, Starts, window, tables
<1>2. /\ columns = <<>> /\ row = 0 /\ statements = <<>> /\ today \in Int
      /\ statistics \subseteq 1..today
  BY <1>1 DEF RegInv, RegTypes_Inv, Days_Inv, Rows_Inv
<1>3. Days_Inv' /\ day' <= today' /\ \A d \in known' : d <= day'
  BY <1>1, <1>2 DEF RegInv, RegTypes_Inv, Days_Inv
<1>4. RegTypes_Inv'  BY <1>1, <1>2, <1>3 DEF RegInv, RegTypes_Inv
<1>5. Rows_Inv'  BY <1>1, <1>2, <1>3 DEF Rows_Inv, Columns_Inv
<1> QED  BY <1>1, <1>4, <1>5 DEF RegInv, StoresItsDay

(* An answer has the days that were known and none that is not there.       *)
LEMMA QueryKeepsReg ==
  ASSUME RegInv, Query, UNCHANGED loaded
  PROVE RegInv' /\ StoresItsDay
<1> DEFINE found == {d \in statistics : d <= day}
<1>1. /\ pc = "query" /\ columns' = Append(columns, found) /\ statements' = statements
      /\ statistics' = statistics /\ known' = known /\ pc' = pc /\ day' = day /\ today' = today
      /\ force' = force /\ start' = start /\ mishaps' = mishaps /\ empty_days' = empty_days
      /\ xx' = xx /\ empty_queue' = empty_queue /\ row' = row /\ used' = used /\ results' = results
  BY DEF Query, daysBack, process, begun, window, tables
<1>2. /\ columns \in Seq(SUBSET Int) /\ statements = <<>> /\ Columns_Inv
      /\ \A d \in known : d <= day
      /\ known \subseteq statistics /\ statistics \subseteq 1..today /\ today \in Int /\ row = 0
  BY <1>1 DEF RegInv, RegTypes_Inv, Days_Inv, Rows_Inv
<1>3. found \in SUBSET Int /\ found \subseteq statistics /\ known \subseteq found
  <2>1. 1..today \subseteq Int  BY <1>2
  <2>2. statistics \subseteq Int  BY <1>2, <2>1
  <2> QED  BY <1>2, <2>2
<1> HIDE DEF found
<1>4. /\ columns' \in Seq(SUBSET Int) /\ DOMAIN columns' = 1..(Len(columns) + 1)
      /\ DOMAIN columns = 1..Len(columns) /\ Len(columns) \in Nat
      /\ \A i \in 1..Len(columns) : columns'[i] = columns[i]
      /\ columns'[Len(columns) + 1] = found
  BY <1>1, <1>2, <1>3
<1>5. Columns_Inv'
  <2> SUFFICES ASSUME NEW i \in 1..(Len(columns) + 1)
               PROVE columns'[i] \subseteq statistics' /\ known' \subseteq columns'[i]
    BY <1>4 DEF Columns_Inv
  <2>1. CASE i = Len(columns) + 1  BY <1>1, <1>3, <1>4, <2>1
  <2>2. CASE i # Len(columns) + 1
    <3>1. i \in 1..Len(columns)  BY <1>4, <2>2
    <3> QED  BY <1>1, <1>2, <1>4, <3>1 DEF Columns_Inv
  <2> QED  BY <2>1, <2>2
<1>6. Days_Inv' /\ day' <= today'  BY <1>1, <1>2 DEF RegInv, RegTypes_Inv, Days_Inv
<1>7. RegTypes_Inv'  BY <1>1, <1>4, <1>6 DEF RegInv, RegTypes_Inv
<1>8. Rows_Inv'  BY <1>1, <1>2, <1>5 DEF Rows_Inv
<1> QED  BY <1>1, <1>7, <1>8 DEF RegInv, StoresItsDay

(* The days that all columns have are those that were known, and some of    *)
(* those that came.                                                         *)
LEMMA TakenDays ==
  ASSUME RegInv, Scanned
  PROVE /\ Taken \in Seq(Int) /\ Down(Taken) /\ Len(Taken) \in Nat
        /\ ToSet(Taken) \subseteq statistics /\ known \subseteq ToSet(Taken)
        /\ IsFiniteSet(ToSet(Taken)) /\ Len(Taken) = Cardinality(ToSet(Taken))
<1> DEFINE T == {d \in Dates : \A i \in 1..NrColumns : d \in columns[i]}
<1>1. /\ Columns_Inv /\ columns \in Seq(SUBSET Int) /\ Len(columns) = NrColumns
      /\ known \subseteq statistics /\ statistics \subseteq 1..today /\ today \in 1..LastDay
  BY DEF RegInv, RegTypes_Inv, Days_Inv, Rows_Inv, Scanned
<1>2. DOMAIN columns = 1..NrColumns /\ 1 \in 1..NrColumns  BY <1>1, LenProperties
<1>3. T \subseteq statistics  BY <1>1, <1>2 DEF Columns_Inv
<1>4. known \subseteq T
  <2>1. 1..today \subseteq Dates  BY <1>1 DEF Dates
  <2>2. \A i \in 1..NrColumns : known \subseteq columns[i]  BY <1>1, <1>2 DEF Columns_Inv
  <2> QED  BY <1>1, <2>1, <2>2
<1>5. T \subseteq Dates /\ Dates \subseteq Int /\ IsFiniteSet(Dates)
  <2>1. 1 \in Int /\ LastDay \in Int /\ 1..LastDay \subseteq Int  OBVIOUS
  <2>2. IsFiniteSet(1..LastDay)  BY <2>1, FS_Interval
  <2>3. T \subseteq Dates  OBVIOUS
  <2> QED  BY <2>1, <2>2, <2>3 DEF Dates
<1> HIDE DEF T
<1>6. T \in SUBSET Int /\ IsFiniteSet(T)  BY <1>5, FS_Subset
<1>7. Taken = LatestFirst(T)  BY DEF Taken, T
<1> QED  BY <1>3, <1>4, <1>6, <1>7, LatestFirstIsDown, LenProperties

(* The rows begin at the latest day, and those between are queued.          *)
LEMMA FitKeepsReg ==
  ASSUME RegInv, Fit, UNCHANGED loaded
  PROVE RegInv' /\ StoresItsDay
<1> DEFINE s == Taken
           from == s[1]
           Q == (s[Len(s)]..from) \ ToSet(s)
<1>1. /\ Scanned /\ pc = "query" /\ Len(s) > 0 /\ xx' = s /\ start' = from /\ day' = from
      /\ empty_queue' = LatestFirst(Q) /\ pc' = "label"
      /\ statements' = <<<<"equation", "min", from>>, <<"equation", "max", from>>>>
      /\ statistics' = statistics /\ known' = known /\ today' = today /\ force' = force
      /\ mishaps' = mishaps /\ empty_days' = empty_days /\ columns' = columns /\ row' = row
      /\ used' = used /\ results' = results
  BY DEF Fit, FitAt, Scanned, tables
<1>2. /\ s \in Seq(Int) /\ Down(s) /\ ToSet(s) \subseteq statistics /\ known \subseteq ToSet(s)
      /\ Len(s) \in Nat
  BY <1>1, TakenDays
<1>3. row = 0 /\ statistics \subseteq 1..today /\ today \in 1..LastDay /\ today \in Int
  BY <1>1 DEF RegInv, RegTypes_Inv, Days_Inv, Rows_Inv
<1> HIDE DEF s
<1>4. /\ DOMAIN s = 1..Len(s) /\ \A i \in 1..Len(s) : s[i] \in Int
      /\ 1 \in 1..Len(s) /\ Len(s) \in 1..Len(s)
  BY <1>1, <1>2, LenProperties, ElementOfSeq
<1>5. \A i \in 1..Len(s) : s[i] <= from /\ s[i] >= s[Len(s)]
  <2>1. \A i, k \in 1..Len(s) : i < k => s[i] > s[k]  BY <1>2, <1>4 DEF Down
  <2> SUFFICES ASSUME NEW i \in 1..Len(s)  PROVE s[i] <= from /\ s[i] >= s[Len(s)]  OBVIOUS
  <2>2. i = 1 \/ 1 < i  OBVIOUS
  <2>3. i = Len(s) \/ i < Len(s)  BY <1>2
  <2>4. s[i] <= s[1]
    <3>1. s[i] \in Int /\ s[1] \in Int  BY <1>4
    <3>2. i # 1 => s[1] > s[i]  BY <1>4, <2>1, <2>2
    <3> QED  BY <3>1, <3>2
  <2>5. s[i] >= s[Len(s)]
    <3>1. s[i] \in Int /\ s[Len(s)] \in Int  BY <1>4
    <3>2. i # Len(s) => s[i] > s[Len(s)]  BY <1>4, <2>1, <2>3
    <3> QED  BY <3>1, <3>2
  <2> QED  BY <2>4, <2>5
<1>6. from \in ToSet(s) /\ from \in Int  BY <1>4 DEF ToSet
<1>7. from \in 1..today /\ from \in Dates  BY <1>2, <1>3, <1>6 DEF Dates
<1>8. Q \in SUBSET Int /\ IsFiniteSet(Q) /\ Q \cap ToSet(s) = {} /\ \A e \in Q : e <= from
  <2>1. s[Len(s)] \in Int  BY <1>4
  <2>2. IsFiniteSet(s[Len(s)]..from)  BY <1>6, <2>1, FS_Interval
  <2>3. Q \in SUBSET (s[Len(s)]..from)  OBVIOUS
  <2>4. \A e \in s[Len(s)]..from : e \in Int /\ e <= from  BY <1>6, <2>1
  <2>5. IsFiniteSet(Q)
    <3> HIDE DEF Q
    <3> QED  BY <2>2, <2>3, FS_Subset
  <2> QED  BY <2>3, <2>4, <2>5
<1>9. \A e \in Int : e <= from /\ e >= s[Len(s)] => e \in Q \/ \E i \in 1..Len(s) : e = s[i]
  <2>1. \A e \in Int : e <= from /\ e >= s[Len(s)] => e \in s[Len(s)]..from  BY <1>4, <1>6
  <2> QED  BY <1>4, <2>1 DEF ToSet
<1> HIDE DEF Q
<1>10. /\ empty_queue' \in Seq(Int) /\ Down(empty_queue') /\ ToSet(empty_queue') = Q
  BY <1>1, <1>8, LatestFirstIsDown
<1>11. Remains(day)'
  <2>1. Down(xx') /\ Down(empty_queue')  BY <1>1, <1>2, <1>10
  <2>2. /\ ToSet(xx') \subseteq statistics' /\ known' \subseteq ToSet(xx')
        /\ ToSet(empty_queue') \cap ToSet(xx') = {} /\ row' \in 0..Len(xx')
        /\ row' + 1 = 1
    BY <1>1, <1>2, <1>3, <1>8, <1>10
  <2>3. \A e \in Dates : e <= day' /\ e >= xx'[Len(xx')] =>
          e \in ToSet(empty_queue') \/ \E i \in 1..Len(xx') : e = xx'[i]
    BY <1>1, <1>9, <1>10 DEF Dates
  <2>4. \A e \in ToSet(empty_queue') : e <= day'  BY <1>1, <1>8, <1>10
  <2>5. \A i \in 1..Len(xx') : xx'[i] <= day'  BY <1>1, <1>5
  <2> HIDE DEF from
  <2> QED  BY <1>1, <2>1, <2>2, <2>3, <2>4, <2>5 DEF Remains, Down
<1>12. Days_Inv' /\ day' <= today' /\ day' \in Int
  BY <1>1, <1>3, <1>6, <1>7 DEF RegInv, RegTypes_Inv, Days_Inv
<1>13. RegTypes_Inv'  BY <1>1, <1>2, <1>10, <1>12 DEF RegInv, RegTypes_Inv
<1>14. xx' # <<>>
  <2>1. Len(<<>>) = 0  BY EmptySeq
  <2> QED  BY <1>1, <2>1
<1>15. \A i \in DOMAIN statements' : statements'[i][1] = "equation"
  <2> HIDE DEF from
  <2>1. DOMAIN statements' = 1..2  BY <1>1
  <2> QED  BY <1>1, <2>1
<1>16. Rows_Inv'
  <2>1. start' \in Dates  BY <1>1, <1>7
  <2> QED  BY <1>1, <1>11, <1>14, <1>15, <2>1 DEF Rows_Inv
<1> QED  BY <1>1, <1>13, <1>16 DEF RegInv, StoresItsDay

(* The latest of the days that remain is the first of the queue or of the   *)
(* rows that are left.                                                      *)
LEMMA LabelIsAFront ==
  ASSUME RegInv, Labels
  PROVE /\ Queued => day \notin ToSet(xx) /\ empty_queue # <<>> /\ Head(empty_queue) = day
        /\ ~Queued => day \notin ToSet(empty_queue) /\ xx[row + 1] = day
<1>1. /\ Remains(day) /\ row + K <= Len(xx) /\ day \in Int
      /\ xx \in Seq(Int) /\ empty_queue \in Seq(Int) /\ row \in Nat
      /\ statistics \subseteq 1..today /\ today \in 1..LastDay /\ day <= today
  BY DEF RegInv, RegTypes_Inv, Days_Inv, Rows_Inv, Labels
<1>2. /\ DOMAIN xx = 1..Len(xx) /\ \A i \in 1..Len(xx) : xx[i] \in Int
      /\ Len(xx) \in Nat /\ K \in Nat \ {0}
  BY <1>1, LenProperties, ElementOfSeq
<1>3. CASE Queued
  <2>1. empty_queue # <<>> /\ Head(empty_queue) = day  BY <1>3 DEF Queued
  <2>2. day \in ToSet(empty_queue)  BY <1>1, <2>1, DownTail DEF Remains
  <2> QED  BY <1>1, <1>3, <2>1, <2>2 DEF Remains
<1>4. CASE ~Queued
  <2>1. day \notin ToSet(empty_queue)
    <3> SUFFICES ASSUME day \in ToSet(empty_queue)  PROVE FALSE  OBVIOUS
    <3>1. empty_queue # <<>>
      <4> SUFFICES ASSUME empty_queue = <<>>  PROVE FALSE  OBVIOUS
      <4> QED  BY DEF ToSet
    <3>2. /\ Head(empty_queue) \in ToSet(empty_queue) /\ Head(empty_queue) \in Int
          /\ \A e \in ToSet(empty_queue) : e <= Head(empty_queue)
      BY <1>1, <3>1, DownTail DEF Remains
    <3>3. Head(empty_queue) <= day /\ day <= Head(empty_queue)  BY <1>1, <3>2 DEF Remains
    <3>4. Head(empty_queue) = day  BY <1>1, <3>2, <3>3
    <3> QED  BY <1>4, <3>1, <3>4 DEF Queued
  <2>2. /\ row + 1 \in (row + 1)..Len(xx) /\ Len(xx) \in (row + 1)..Len(xx)
        /\ \A i \in (row + 1)..Len(xx) : i \in 1..Len(xx) /\ (i = row + 1 \/ row + 1 < i)
    BY <1>1, <1>2
  <2>3. xx[Len(xx)] <= day /\ xx[row + 1] <= day  BY <1>1, <2>2 DEF Remains
  <2>4. day \in Dates
    <3>1. xx[Len(xx)] \in ToSet(xx)  BY <1>2, <2>2 DEF ToSet
    <3>2. xx[Len(xx)] \in 1..today  BY <1>1, <3>1 DEF Remains
    <3> QED  BY <1>1, <2>3, <3>2 DEF Dates
  <2>5. day >= xx[Len(xx)]  BY <1>1, <1>2, <2>2, <2>3
  <2>6. PICK i \in (row + 1)..Len(xx) : day = xx[i]
    BY <1>1, <2>1, <2>4, <2>5 DEF Remains
  <2>7. xx[row + 1] >= xx[i]
    <3>1. xx[row + 1] \in Int /\ xx[i] \in Int  BY <1>2, <2>2
    <3>2. i # row + 1 => xx[row + 1] > xx[i]  BY <1>1, <1>2, <2>2 DEF Remains, Down
    <3> QED  BY <3>1, <3>2
  <2>8. xx[row + 1] = day  BY <1>1, <1>2, <2>2, <2>3, <2>6, <2>7
  <2> QED  BY <1>4, <2>1, <2>8
<1> QED  BY <1>3, <1>4

(* The K days of a row leave out no day that was known.                     *)
LEMMA RowIsOfItsDay ==
  ASSUME RegInv, Labels, ~Queued
  PROVE /\ SubSeq(xx, row + 1, row + K) \in Seq(Int)
        /\ OfDay(SubSeq(xx, row + 1, row + K), day)
<1> DEFINE s == SubSeq(xx, row + 1, row + K)
<1>1. /\ Remains(day) /\ row + K <= Len(xx) /\ day \in Int /\ xx \in Seq(Int) /\ row \in Nat
      /\ statistics \subseteq 1..today /\ today \in 1..LastDay
      /\ K \in Nat \ {0} /\ xx[row + 1] = day
  BY LabelIsAFront DEF RegInv, RegTypes_Inv, Days_Inv, Rows_Inv, Labels
<1>2. /\ DOMAIN xx = 1..Len(xx) /\ \A i \in 1..Len(xx) : xx[i] \in Int
      /\ Len(xx) \in Nat
  BY <1>1, LenProperties, ElementOfSeq
<1>3. /\ s \in Seq(Int) /\ Len(s) = K /\ DOMAIN s = 1..K
      /\ \A i \in 1..K : s[i] = xx[row + i] /\ row + i \in 1..Len(xx)
  BY <1>1, <1>2
<1> HIDE DEF s
<1>4. \A j, k \in 1..Len(xx) : j < k => xx[j] > xx[k]  BY <1>1, <1>2 DEF Remains, Down
<1>5. \A i \in 2..K : s[i] < s[i - 1]
  <2> SUFFICES ASSUME NEW i \in 2..K  PROVE s[i] < s[i - 1]  OBVIOUS
  <2>1. i \in 1..K /\ i - 1 \in 1..K /\ row + (i - 1) < row + i  BY <1>1
  <2>2. xx[row + (i - 1)] > xx[row + i]  BY <1>3, <1>4, <2>1
  <2> QED  BY <1>2, <1>3, <2>1, <2>2
<1>6. s[1] = day  BY <1>1, <1>3
<1>7. ToSet(s) \subseteq ToSet(xx)  BY <1>2, <1>3 DEF ToSet
<1>8. known \cap (s[K]..day) \subseteq ToSet(s)
  <2> SUFFICES ASSUME NEW d \in known, d \in s[K]..day  PROVE d \in ToSet(s)  OBVIOUS
  <2>1. K \in 1..K /\ s[K] = xx[row + K] /\ row + K \in 1..Len(xx) /\ row + 1 \in 1..Len(xx)
    BY <1>1, <1>3
  <2>2. d \in Int /\ d >= xx[row + K] /\ d <= xx[row + 1]  BY <1>1, <1>2, <2>1
  <2>3. PICK j \in 1..Len(xx) : d = xx[j]
    <3>1. d \in ToSet(xx)  BY <1>1 DEF Remains
    <3> QED  BY <1>2, <3>1 DEF ToSet
  <2>4. ~(row + K < j)
    <3> SUFFICES ASSUME row + K < j  PROVE FALSE  OBVIOUS
    <3>1. xx[row + K] > xx[j]  BY <1>4, <2>1
    <3> QED  BY <1>2, <2>1, <2>2, <2>3, <3>1
  <2>5. ~(j < row + 1)
    <3> SUFFICES ASSUME j < row + 1  PROVE FALSE  OBVIOUS
    <3>1. xx[j] > xx[row + 1]  BY <1>4, <2>1
    <3> QED  BY <1>2, <2>1, <2>2, <2>3, <3>1
  <2>6. j - row \in 1..K /\ row + (j - row) = j  BY <1>1, <1>2, <2>4, <2>5
  <2>7. s[j - row] = d  BY <1>3, <2>3, <2>6
  <2> QED  BY <1>3, <2>6, <2>7 DEF ToSet
<1>9. ToSet(s) \subseteq statistics  BY <1>1, <1>7 DEF Remains
<1>10. OfDay(s, day)  BY <1>3, <1>5, <1>6, <1>8, <1>9 DEF OfDay
<1> QED  BY <1>3, <1>10 DEF s

(* A queued day is left out.                                                *)
LEMMA PassLabelKeepsReg ==
  ASSUME RegInv, PassLabel, UNCHANGED loaded
  PROVE RegInv' /\ StoresItsDay
<1>1. /\ Labels /\ Queued /\ pc = "label" /\ statements = <<>> /\ pc' = "label" /\ day' = day - 1
      /\ empty_queue' = Tail(empty_queue) /\ statistics' = statistics /\ known' = known
      /\ start' = start /\ xx' = xx /\ columns' = columns /\ row' = row /\ used' = used
      /\ statements' = statements /\ results' = results /\ today' = today /\ force' = force
      /\ mishaps' = mishaps /\ empty_days' = empty_days
  BY DEF PassLabel, Labels, DayBefore, begun, tables
<1>2. /\ Remains(day) /\ day \in Int /\ empty_queue \in Seq(Int) /\ xx \in Seq(Int) /\ row \in Nat
      /\ today \in Int /\ day <= today
  BY <1>1 DEF RegInv, RegTypes_Inv, Days_Inv, Rows_Inv
<1>3. day \notin ToSet(xx) /\ empty_queue # <<>> /\ Head(empty_queue) = day
  BY <1>1, LabelIsAFront
<1>4. /\ empty_queue' \in Seq(Int) /\ Down(empty_queue')
      /\ ToSet(empty_queue') = ToSet(empty_queue) \ {day}
      /\ ToSet(empty_queue) \subseteq Int
  <2>1. Down(empty_queue)  BY <1>2 DEF Remains
  <2>2. ToSet(empty_queue) \subseteq Int
    <3>1. \A i \in DOMAIN empty_queue : empty_queue[i] \in Int
      BY <1>2, LenProperties, ElementOfSeq
    <3> QED  BY <3>1 DEF ToSet
  <2> QED  BY <1>1, <1>2, <1>3, <2>1, <2>2, DownTail
<1>5. \A i \in (row + 1)..Len(xx) : xx[i] \in Int /\ xx[i] # day
  <2>1. DOMAIN xx = 1..Len(xx) /\ \A i \in 1..Len(xx) : xx[i] \in Int
    BY <1>2, LenProperties, ElementOfSeq
  <2>2. \A i \in (row + 1)..Len(xx) : i \in 1..Len(xx)  BY <1>2
  <2> QED  BY <1>3, <2>1, <2>2 DEF ToSet
<1>6. Remains(day)'
  <2>1. \A e \in Dates : e <= day - 1 => e <= day /\ e # day  BY <1>2 DEF Dates
  <2>2. \A e \in Dates : e <= day' /\ e >= xx'[Len(xx')] =>
          e \in ToSet(empty_queue') \/ \E i \in (row' + 1)..Len(xx') : e = xx'[i]
    BY <1>1, <1>2, <1>4, <2>1 DEF Remains
  <2>3. \A e \in ToSet(empty_queue') : e <= day'
    <3>1. \A e \in ToSet(empty_queue) : e \in Int /\ e <= day  BY <1>2, <1>4 DEF Remains
    <3> QED  BY <1>1, <1>2, <1>4, <3>1
  <2>4. \A i \in (row' + 1)..Len(xx') : xx'[i] <= day'
    <3>1. \A i \in (row + 1)..Len(xx) : xx[i] <= day  BY <1>2 DEF Remains
    <3> QED  BY <1>1, <1>2, <1>5, <3>1
  <2> QED  BY <1>1, <1>2, <1>4, <2>2, <2>3, <2>4 DEF Remains, Down
<1>7. RegTypes_Inv'
  <2>1. Days_Inv' /\ day' <= today' /\ day' \in Int
    BY <1>1, <1>2 DEF RegInv, RegTypes_Inv, Days_Inv
  <2> QED  BY <1>1, <1>4, <2>1 DEF RegInv, RegTypes_Inv
<1>8. Rows_Inv'  BY <1>1, <1>6 DEF RegInv, Rows_Inv
<1> QED  BY <1>1, <1>7, <1>8 DEF RegInv, StoresItsDay

(* The row of the day is used.                                              *)
LEMMA LabelKeepsReg ==
  ASSUME RegInv, Label, UNCHANGED loaded
  PROVE RegInv' /\ StoresItsDay
<1>1. /\ Labels /\ ~Queued /\ pc = "label" /\ pc' = "labelled" /\ day' = day
      /\ used' = SubSeq(xx, row + 1, row + K) /\ row' = row + 1 /\ row + K <= Len(xx)
      /\ empty_queue' = empty_queue /\ statistics' = statistics /\ known' = known
      /\ start' = start /\ xx' = xx /\ columns' = columns /\ results' = results
      /\ today' = today /\ force' = force /\ mishaps' = mishaps /\ empty_days' = empty_days
  BY DEF Label, Labels, Goto, begun, window, tables
<1>2. /\ Remains(day) /\ day \in Int /\ empty_queue \in Seq(Int) /\ xx \in Seq(Int) /\ row \in Nat
      /\ K \in Nat \ {0} /\ Len(xx) \in Nat
  BY <1>1, LenProperties DEF RegInv, RegTypes_Inv, Days_Inv, Rows_Inv
<1>3. /\ day \notin ToSet(empty_queue) /\ xx[row + 1] = day
      /\ used' \in Seq(Int) /\ OfDay(SubSeq(xx, row + 1, row + K), day)
  BY <1>1, LabelIsAFront, RowIsOfItsDay
<1>4. /\ DOMAIN xx = 1..Len(xx) /\ \A i \in 1..Len(xx) : xx[i] \in Int
      /\ \A i \in 1..Len(empty_queue) : empty_queue[i] \in Int
      /\ DOMAIN empty_queue = 1..Len(empty_queue)
  BY <1>2, LenProperties, ElementOfSeq
<1>5. /\ row + 1 \in 1..Len(xx)
      /\ \A i \in (row + 1)..Len(xx) : i \in 1..Len(xx)
      /\ \A i \in (row + 2)..Len(xx) : i \in (row + 1)..Len(xx) /\ row + 1 < i
      /\ \A i \in (row + 1)..Len(xx) : i = row + 1 \/ i \in (row + 2)..Len(xx)
      /\ (row + 1) + 1 = row + 2
  BY <1>1, <1>2
<1>6. Remains(day - 1)'
  <2>1. \A e \in Dates : e <= day - 1 => e \in Int /\ e <= day /\ e # day  BY <1>2 DEF Dates
  <2>2. \A e \in Dates : e <= day - 1 /\ e >= xx[Len(xx)] =>
          e \in ToSet(empty_queue) \/ \E i \in (row + 2)..Len(xx) : e = xx[i]
    <3> SUFFICES ASSUME NEW e \in Dates, e <= day - 1, e >= xx[Len(xx)], e \notin ToSet(empty_queue)
                 PROVE \E i \in (row + 2)..Len(xx) : e = xx[i]
      OBVIOUS
    <3>1. e # day /\ e <= day  BY <2>1
    <3>2. PICK i \in (row + 1)..Len(xx) : e = xx[i]  BY <1>2, <3>1 DEF Remains
    <3> QED  BY <1>3, <1>5, <3>1, <3>2
  <2>3. \A e \in ToSet(empty_queue) : e <= day - 1
    <3>1. \A e \in ToSet(empty_queue) : e \in Int /\ e <= day /\ e # day
      BY <1>2, <1>3, <1>4 DEF Remains, ToSet
    <3> QED  BY <1>2, <3>1
  <2>4. \A i \in (row + 2)..Len(xx) : xx[i] <= day - 1
    <3> SUFFICES ASSUME NEW i \in (row + 2)..Len(xx)  PROVE xx[i] <= day - 1  OBVIOUS
    <3>1. i \in 1..Len(xx) /\ row + 1 < i  BY <1>5
    <3>2. xx[row + 1] > xx[i]  BY <1>2, <1>4, <1>5, <3>1 DEF Remains, Down
    <3>3. xx[i] \in Int  BY <1>4, <3>1
    <3> QED  BY <1>2, <1>3, <3>2, <3>3
  <2>5. row + 1 \in 0..Len(xx)  BY <1>1, <1>2
  <2> QED  BY <1>1, <1>2, <1>5, <2>2, <2>3, <2>4, <2>5 DEF Remains, Down
<1>7. OfDay(used, day)'  BY <1>1, <1>3 DEF OfDay
<1>8. RegTypes_Inv'
  <2>1. Days_Inv' /\ day' <= today' /\ day' \in Int
    BY <1>1, <1>2 DEF RegInv, RegTypes_Inv, Days_Inv
  <2>2. row' \in Nat  BY <1>1, <1>2
  <2> QED  BY <1>1, <1>3, <2>1, <2>2 DEF RegInv, RegTypes_Inv
<1>9. Rows_Inv'  BY <1>1, <1>6, <1>7 DEF RegInv, Rows_Inv
<1> QED  BY <1>1, <1>8, <1>9 DEF RegInv, StoresItsDay

(* While the equations are inserted no result is stored.                    *)
LEMMA InsertKeepsReg ==
  ASSUME RegInv, Statements_Inv, Insert \/ InsertFails, UNCHANGED loaded
  PROVE RegInv' /\ StoresItsDay
<1>1. /\ statements # <<>> /\ statements' = Tail(statements) /\ pc' = pc /\ day' = day
      /\ statistics' = statistics /\ known' = known /\ today' = today /\ force' = force
      /\ start' = start /\ empty_days' = empty_days /\ xx' = xx /\ empty_queue' = empty_queue
      /\ columns' = columns /\ row' = row /\ used' = used /\ mishaps' \in {mishaps, mishaps + 1}
  BY DEF Insert, InsertFails, FailsAt, daysBack, process, begun, window
<1>2. /\ pc \in {"label", "labelled"} /\ mishaps \in Nat /\ used \in Seq(Int)
      /\ results \in [Equations -> [Dates -> Seq(Int)]]
      /\ statements \in Seq(Statements)
  BY <1>1 DEF RegInv, RegTypes_Inv, Days_Inv, Rows_Inv, Statements_Inv
<1>3. /\ Len(statements) \in Nat \ {0} /\ DOMAIN statements = 1..Len(statements)
      /\ Head(statements) = statements[1]
      /\ DOMAIN statements' = 1..(Len(statements) - 1)
      /\ \A i \in 1..(Len(statements) - 1) : statements'[i] = statements[i + 1]
  BY <1>1, <1>2, EmptySeq, LenProperties, HeadTailProperties
<1>4. pc = "label" =>
        results' = results /\ \A i \in DOMAIN statements' : statements'[i][1] = "equation"
  <2> SUFFICES ASSUME pc = "label"
               PROVE /\ results' = results
                     /\ \A i \in DOMAIN statements' : statements'[i][1] = "equation"
    OBVIOUS
  <2>1. \A i \in DOMAIN statements : statements[i][1] = "equation"  BY DEF RegInv, Rows_Inv
  <2>2. Head(statements)[1] = "equation"  BY <1>3, <2>1
  <2>3. results' = results
    BY <2>2 DEF Insert, InsertFails, InsertEquation, tables
  <2>4. \A i \in 1..(Len(statements) - 1) : i + 1 \in 1..Len(statements)  BY <1>3
  <2> QED  BY <1>3, <2>1, <2>3, <2>4
<1>5. results' \in [Equations -> [Dates -> Seq(Int)]] /\ StoresItsDay
  <2>1. CASE pc = "label"  BY <1>2, <1>4, <2>1 DEF StoresItsDay
  <2>2. CASE pc = "labelled"
    <3>1. OfDay(used, day)  BY <2>2 DEF RegInv, Rows_Inv
    <3> QED  BY <1>2, <3>1, StatementIsOfItsDay
  <2> QED  BY <1>2, <2>1, <2>2
<1>6. Days_Inv' /\ day' <= today'
  BY <1>1, <1>2 DEF RegInv, RegTypes_Inv, Days_Inv
<1>7. RegTypes_Inv'  BY <1>1, <1>5, <1>6 DEF RegInv, RegTypes_Inv
<1>8. \A d : Remains(d)' <=> Remains(d)  BY <1>1 DEF Remains, Down
<1>9. OfDay(used, day)' <=> OfDay(used, day)  BY <1>1 DEF OfDay
<1>10. Rows_Inv'
  <2>1. pc' = "label" => Remains(day)'  BY <1>1, <1>8 DEF RegInv, Rows_Inv
  <2>2. pc' = "labelled" => Remains(day - 1)' /\ OfDay(used, day)'
    BY <1>1, <1>8, <1>9 DEF RegInv, Rows_Inv
  <2> QED  BY <1>1, <1>2, <1>4, <2>1, <2>2 DEF RegInv, Rows_Inv
<1> QED  BY <1>5, <1>7, <1>10 DEF RegInv

(* The day is done: that was all, or the day before is next.                *)
LEMMA LabelledKeepsReg ==
  ASSUME RegInv, Labelled, UNCHANGED loaded
  PROVE RegInv' /\ StoresItsDay
<1>1. /\ pc = "labelled" /\ statements = <<>> /\ statistics' = statistics /\ start' = start
      /\ known' = known /\ results' = results /\ today' = today /\ force' = force
      /\ mishaps' = mishaps
  BY DEF Labelled, Ends, Return, DayBefore, begun, tables
<1>2. mishaps \in Nat /\ 0 <= today  BY DEF RegInv, RegTypes_Inv, Days_Inv
<1>3. CASE Ends
  BY <1>1, <1>2, <1>3, EndKeepsReg DEF Ends, Return
<1>4. CASE DayBefore("label") /\ UNCHANGED <<window, columns, row, used, statements>>
  <2>1. /\ pc' = "label" /\ day' = day - 1 /\ xx' = xx /\ empty_queue' = empty_queue
        /\ columns' = columns /\ row' = row /\ used' = used /\ statements' = statements
        /\ empty_days' = empty_days
    BY <1>4 DEF DayBefore, window
  <2>2. Remains(day - 1)  BY <1>1 DEF RegInv, Rows_Inv
  <2>3. Remains(day)'  BY <1>1, <2>1, <2>2 DEF Remains, Down
  <2>4. day \in Int /\ today \in Int /\ day <= today /\ Days_Inv
    BY DEF RegInv, RegTypes_Inv, Days_Inv
  <2>5. Days_Inv' /\ day' <= today' /\ day' \in Int  BY <1>1, <2>1, <2>4 DEF Days_Inv
  <2>6. RegTypes_Inv'  BY <1>1, <2>1, <2>5 DEF RegInv, RegTypes_Inv
  <2>7. Rows_Inv'  BY <1>1, <2>1, <2>3 DEF RegInv, Rows_Inv
  <2> QED  BY <1>1, <2>6, <2>7 DEF RegInv, StoresItsDay
<1> QED  BY <1>3, <1>4 DEF Labelled

LEMMA EndsKeepReg ==
  ASSUME RegInv, UNCHANGED loaded,
         TooFewDays \/ NoFit \/ QueryFails \/ RegressionEnds \/ FittingRestart
  PROVE RegInv' /\ StoresItsDay
<1>1. mishaps \in Nat /\ 0 <= today /\ day \in Int /\ day <= today /\ empty_days \in Nat
  BY DEF RegInv, RegTypes_Inv, Days_Inv
<1>2. CASE TooFewDays \/ RegressionEnds
  BY <1>1, <1>2, EndKeepsReg DEF TooFewDays, RegressionEnds, Ends, Return, begun, tables
<1>3. CASE FittingRestart
  BY <1>1, <1>3, EndKeepsReg DEF FittingRestart, Restart, begun, tables
<1>4. CASE NoFit \/ QueryFails
  BY <1>1, <1>4, EndKeepsReg DEF NoFit, QueryFails, FailsAt, begun, tables
<1> QED  BY <1>2, <1>3, <1>4

(* The codes could not be read: there is no run.                            *)
LEMMA IdleKeepsReg ==
  ASSUME RegInv, FittingCodesFail, UNCHANGED loaded
  PROVE RegInv' /\ StoresItsDay
<1>1. /\ pc = "idle" /\ pc' = "idle" /\ day' = day /\ empty_days' = empty_days /\ today' = today
      /\ force' = force /\ mishaps' = mishaps + 1
      /\ UNCHANGED <<statistics, start, known, xx, empty_queue, columns, row, used, statements, results>>
  BY DEF FittingCodesFail, CodesFail, fittingVars, begun, window, tables
<1>2. Days_Inv'  BY <1>1 DEF RegInv, RegTypes_Inv, Days_Inv
<1>3. RegTypes_Inv'  BY <1>1, <1>2 DEF RegInv, RegTypes_Inv
<1>4. Rows_Inv'  BY <1>1 DEF RegInv, Rows_Inv
<1> QED  BY <1>1, <1>3, <1>4 DEF RegInv, StoresItsDay

LEMMA StepKeepsReg ==
  ASSUME RegInv, Statements_Inv, [Next]_backEndVars
  PROVE RegInv' /\ StoresItsDay
<1>0. loaded = "regression"  BY DEF RegInv, RegTypes_Inv
<1>1. \/ UNCHANGED backEndVars
      \/ UNCHANGED loaded /\ (Regression \/ FittingWorld)
  BY <1>0 DEF Next, Run, World, Show, LoadedWealth, LoadedFitting, Loaded
<1>2. /\ today \in 1..LastDay /\ today \in today..LastDay /\ today \in Int
      /\ statistics \subseteq 1..today
  BY DEF RegInv, RegTypes_Inv, Days_Inv
<1>3. CASE UNCHANGED backEndVars
  BY <1>2, <1>3, WorldKeepsReg DEF backEndVars, daysBack, fittingVars, tables
<1>4. CASE UNCHANGED loaded /\ Regression
  <2>1. CASE RegressionBegins  BY <1>4, <2>1, BeginKeepsReg
  <2>2. CASE Query  BY <1>4, <2>2, QueryKeepsReg
  <2>3. CASE TooFewDays \/ NoFit \/ QueryFails \/ RegressionEnds  BY <1>4, <2>3, EndsKeepReg
  <2>4. CASE Fit  BY <1>4, <2>4, FitKeepsReg
  <2>5. CASE PassLabel  BY <1>4, <2>5, PassLabelKeepsReg
  <2>6. CASE Label  BY <1>4, <2>6, LabelKeepsReg
  <2>7. CASE Labelled  BY <1>4, <2>7, LabelledKeepsReg
  <2>8. CASE Insert \/ InsertFails  BY <1>4, <2>8, InsertKeepsReg
  <2>9. CASE FittingCodesFail  BY <1>4, <2>9, IdleKeepsReg
  <2> QED  BY <1>4, <2>1, <2>2, <2>3, <2>4, <2>5, <2>6, <2>7, <2>8, <2>9 DEF Regression
<1>5. CASE UNCHANGED loaded /\ FittingWorld
  <2>1. CASE FillDay
    <3>1. statistics' \subseteq 1..today' /\ statistics \subseteq statistics' /\ today' = today
      BY <1>2, <2>1 DEF FillDay, daysBack
    <3> QED  BY <1>2, <1>5, <2>1, <3>1, WorldKeepsReg DEF FillDay, daysBack, tables
  <2>2. CASE FittingNextDay
    <3>1. statistics' = statistics /\ today' = today + 1 /\ today < LastDay
      BY <2>2 DEF FittingNextDay, MidNight, fittingVars
    <3>2. today' \in today..LastDay /\ statistics' \subseteq 1..today'  BY <1>2, <3>1
    <3> QED
      BY <1>5, <2>2, <3>1, <3>2, WorldKeepsReg DEF FittingNextDay, MidNight, fittingVars, tables
  <2>3. CASE FittingRestart  BY <1>5, <2>3, EndsKeepReg
  <2> QED  BY <1>5, <2>1, <2>2, <2>3 DEF FittingWorld
<1> QED  BY <1>1, <1>3, <1>4, <1>5

(* The equations and the results of the regression are of days.             *)
LEMMA RegDays ==
  ASSUME RegInv
  PROVE (Fit => Taken[1] \in Dates) /\ (Label => start \in Dates)
<1>1. ASSUME Fit  PROVE Taken[1] \in Dates
  <2>1. Scanned /\ Len(Taken) > 0  BY <1>1 DEF Fit
  <2>2. Taken \in Seq(Int) /\ ToSet(Taken) \subseteq statistics /\ Len(Taken) \in Nat
    BY <2>1, TakenDays
  <2>3. 1 \in DOMAIN Taken  BY <2>1, <2>2, LenProperties
  <2>4. Taken[1] \in statistics  BY <2>2, <2>3 DEF ToSet
  <2>5. statistics \subseteq 1..today /\ today \in 1..LastDay
    BY DEF RegInv, RegTypes_Inv, Days_Inv
  <2>6. Taken[1] \in 1..today  BY <2>4, <2>5
  <2> QED  BY <2>5, <2>6 DEF Dates
<1>2. Label => start \in Dates  BY DEF Label, Labels, RegInv, Rows_Inv
<1> QED  BY <1>1, <1>2

-----------------------------------------------------------------------------
(* What the regression has done when a run ends.                            *)

(* What the statements that are left will add to the run's equations, and   *)
(* then to the day's results.                                               *)
Inserted(types) == \A type \in types : <<type, start>> \in equations

Inserting ==
  \/ statements = <<<<"equation", "min", start>>, <<"equation", "max", start>>>>
  \/ statements = <<<<"equation", "max", start>>>> /\ Inserted({"min"})
  \/ statements = <<>> /\ Inserted(Types)

Labelling ==
  /\ Inserted(Types)
  /\ \/ statements = Result("min", start) \o Result("max", start)
     \/ statements = Result("max", start) /\ Has("min", start)
     \/ statements = <<>> /\ HasBoth(start)

RegThrough_Inv ==
  /\ mishaps = 0 /\ pc \in {"label", "labelled"} => Passed(Fittable)
  /\ mishaps = 0 /\ pc = "label" => Inserting
  /\ mishaps = 0 /\ pc = "labelled" => Labelling
  /\ RanThrough(Fittable)

LEMMA RegThroughInit == Init => RegThrough_Inv
BY DEF Init, DaysInit, RegThrough_Inv, RanThrough

LEMMA WorldKeepsRegThrough ==
  ASSUME RegInv, RegThrough_Inv, statistics \subseteq statistics',
         UNCHANGED <<force, process, mishaps, begun, statements, equations, results>>
  PROVE RegThrough_Inv'
<1>1. /\ force' = force /\ updated' = updated /\ pc' = pc /\ day' = day
      /\ mishaps' = mishaps /\ start' = start /\ known' = known
      /\ statements' = statements /\ equations' = equations /\ results' = results
  BY DEF process, begun
<1>2. StoresGood  BY <1>1 DEF StoresGood
<1>3. known \subseteq Dates
  <2>1. known \subseteq 1..today /\ today \in 1..LastDay  BY DEF RegInv, RegTypes_Inv, Days_Inv
  <2>2. 1..today \subseteq Dates  BY <2>1 DEF Dates
  <2> QED  BY <2>1, <2>2
<1>4. \A d \in known : Fittable(d)' <=> Fittable(d)  BY <1>1, FitsAlike
<1>5. \A d \in Dates : HasResults(d) => HasResults(d)'  BY <1>1, <1>2, ResultsStay
<1>6. Passed(Fittable) => Passed(Fittable)'
  BY <1>1, <1>3, <1>4, <1>5 DEF Passed, Ahead
<1>7. Inserting => Inserting'  BY <1>1 DEF Inserting, Inserted
<1>8. pc = "labelled" /\ Labelling => Labelling'
  <2> SUFFICES ASSUME pc = "labelled", Labelling  PROVE Labelling'  OBVIOUS
  <2>1. day \in Dates /\ start \in Dates
    BY OfDayIsADay DEF RegInv, RegTypes_Inv, Rows_Inv
  <2>2. \A type \in Types : Has(type, start) => Has(type, start)'
    BY <1>1, <1>2, <2>1, HasStays DEF Has
  <2>3. (Has("min", start) => Has("min", start)') /\ (HasBoth(start) => HasBoth(start)')
    BY <2>2 DEF HasBoth, Types
  <2> QED  BY <1>1, <2>3 DEF Labelling, Inserted
<1>9. RanThrough(Fittable)'  BY <1>1, <1>3, <1>5, RanStays DEF RegThrough_Inv
<1> QED  BY <1>1, <1>6, <1>7, <1>8, <1>9 DEF RegThrough_Inv

LEMMA EndKeepsRegThrough ==
  ASSUME RegInv, Ends, UNCHANGED <<statistics, begun, tables>>, mishaps = 0 => Ran(Fittable)
  PROVE RegThrough_Inv'
<1>1. /\ pc' = "idle" /\ force' = force /\ updated' = updated /\ mishaps' = mishaps
      /\ statistics' = statistics /\ start' = start /\ known' = known /\ results' = results
  BY DEF Ends, Return, begun, tables
<1>2. \A d : (Fittable(d)' <=> Fittable(d)) /\ (HasResults(d)' <=> HasResults(d))
  BY <1>1, FitsAlike DEF HasResults, OfDay
<1>3. Back(start)' = Back(start)  BY <1>1 DEF Back
<1>4. RanThrough(Fittable)'
  BY <1>1, <1>2, <1>3 DEF RanThrough, Ran, Left, Ahead
<1> QED  BY <1>1, <1>4 DEF RegThrough_Inv

(* With too few days in the columns there were too few before.              *)
LEMMA TooFewKeepsRegThrough ==
  ASSUME RegInv, TooFewDays
  PROVE RegThrough_Inv'
<1>1. /\ Scanned /\ Len(Taken) < N + K /\ Ends /\ UNCHANGED <<statistics, begun, tables>>
  BY DEF TooFewDays
<1>2. /\ known \subseteq ToSet(Taken) /\ IsFiniteSet(ToSet(Taken))
      /\ Len(Taken) = Cardinality(ToSet(Taken)) /\ Len(Taken) \in Nat
  BY <1>1, TakenDays
<1> DEFINE S == {e \in known : e <= start}
<1>3. Len(Back(start)) = Cardinality(S) /\ Len(Back(start)) \in Nat
  <2>1. Days_Inv /\ known \subseteq statistics /\ start \in Int
    BY DEF RegInv, RegTypes_Inv, Days_Inv
  <2> QED  BY <2>1, BackIsDown, LenProperties
<1>4. Cardinality(S) <= Cardinality(ToSet(Taken))
  <2>1. S \in SUBSET ToSet(Taken)  BY <1>2
  <2> HIDE DEF S
  <2> QED  BY <1>2, <2>1, FS_Subset
<1> HIDE DEF S
<1>5. ~(Len(Back(start)) >= N + K)  BY <1>1, <1>2, <1>3, <1>4
<1>6. Ran(Fittable)  BY <1>5 DEF Ran, Fittable
<1> QED  BY <1>1, <1>6, EndKeepsRegThrough

(* When the rows are used up none of the days that are left has enough.     *)
LEMMA NoneIsFittable ==
  ASSUME RegInv, pc = "label", row + K > Len(xx), NEW d \in known, d <= day
  PROVE ~Fittable(d)
<1> DEFINE S == {e \in known : e <= d}
           U == {xx[j] : j \in (row + 1)..Len(xx)}
<1>1. /\ Remains(day) /\ Days_Inv /\ known \subseteq statistics /\ statistics \subseteq 1..today
      /\ xx \in Seq(Int) /\ row \in Nat /\ day \in Int /\ today \in 1..LastDay
  BY DEF RegInv, RegTypes_Inv, Days_Inv, Rows_Inv
<1>2. /\ Len(xx) \in Nat /\ DOMAIN xx = 1..Len(xx) /\ \A i \in 1..Len(xx) : xx[i] \in Int
      /\ row <= Len(xx)
  BY <1>1, LenProperties, ElementOfSeq DEF Remains
<1>3. known \subseteq Dates /\ known \subseteq Int
  <2>1. 1..today \subseteq Dates /\ 1..today \subseteq Int  BY <1>1 DEF Dates
  <2> QED  BY <1>1, <2>1
<1>4. ASSUME NEW e \in S  PROVE e \in U
  <2>1. e \in known /\ e \in Dates /\ e \in Int /\ e <= day /\ d \in Int  BY <1>1, <1>3
  <2>2. e \in ToSet(xx) /\ e \notin ToSet(empty_queue)  BY <1>1, <2>1 DEF Remains
  <2>3. PICK i \in 1..Len(xx) : e = xx[i]  BY <1>2, <2>2 DEF ToSet
  <2>4. xx[i] >= xx[Len(xx)]
    <3>1. Len(xx) \in 1..Len(xx)  BY <1>2, <2>3
    <3>2. xx[i] \in Int /\ xx[Len(xx)] \in Int  BY <1>2, <2>3, <3>1
    <3>3. \A n \in Nat : \A k \in 1..n : k # n => k < n  OBVIOUS
    <3>4. i # Len(xx) => xx[i] > xx[Len(xx)]
      BY <1>1, <1>2, <2>3, <3>1, <3>3 DEF Remains, Down
    <3> QED  BY <3>2, <3>4
  <2>5. \E j \in (row + 1)..Len(xx) : e = xx[j]  BY <1>1, <2>1, <2>2, <2>3, <2>4 DEF Remains
  <2> QED  BY <2>5
<1>5. IsFiniteSet(U) /\ Cardinality(U) <= Len(xx) - row
  <2>1. Len(xx) <= Len(xx)  BY <1>2
  <2> QED  BY <1>1, <1>2, <2>1, AsManyDays
<1>6. Len(Back(d)) = Cardinality(S) /\ d \in Int  BY <1>1, <1>3, BackIsDown
<1>7. S \in SUBSET U  BY <1>4
<1> HIDE DEF S, U
<1>8. /\ Cardinality(S) <= Cardinality(U) /\ Cardinality(S) \in Nat /\ Cardinality(U) \in Nat
  BY <1>5, <1>7, FS_Subset, FS_CardinalityType
<1>9. Cardinality(S) < K  BY <1>1, <1>2, <1>5, <1>8
<1> QED  BY <1>6, <1>8, <1>9 DEF Fittable

LEMMA EndsKeepRegThrough ==
  ASSUME RegInv, RegThrough_Inv, RegressionEnds
  PROVE RegThrough_Inv'
<1>1. /\ pc = "label" /\ Ends /\ UNCHANGED <<statistics, begun, tables>>
      /\ ~Ahead(day) \/ row + K > Len(xx)
  BY DEF RegressionEnds
<1>2. day \in Int /\ force \in Nat /\ known \subseteq Int
  <2>1. /\ day \in Int /\ force \in Nat /\ known \subseteq 1..today /\ today \in Int
    BY DEF RegInv, RegTypes_Inv, Days_Inv
  <2>2. 1..today \subseteq Int  BY <2>1
  <2> QED  BY <2>1, <2>2
<1>3. mishaps = 0 => Ran(Fittable)
  <2> SUFFICES ASSUME mishaps = 0, NEW d \in known, Fittable(d)
               PROVE force # 0 /\ (Ahead(d) => HasResults(d))
    BY DEF Ran, Left
  <2>1. IF force = 0 THEN d <= day ELSE Ahead(d) /\ d > day => HasResults(d)
    BY <1>1 DEF RegThrough_Inv, Passed
  <2>2. CASE ~Ahead(day)
    <3>1. force # 0 /\ ~(force < day)  BY <2>2 DEF Ahead
    <3>2. Ahead(d) => d > day  BY <1>2, <3>1 DEF Ahead
    <3> QED  BY <2>1, <3>1, <3>2
  <2>3. CASE row + K > Len(xx)
    <3>1. ~(d <= day)  BY <1>1, <2>3, NoneIsFittable
    <3> QED  BY <1>2, <2>1, <3>1
  <2> QED  BY <1>1, <2>2, <2>3
<1> QED  BY <1>1, <1>3, EndKeepsRegThrough

(* The run goes back from the latest of all days there are.                 *)
LEMMA FitKeepsRegThrough ==
  ASSUME RegInv, Fit
  PROVE RegThrough_Inv'
<1>1. /\ Scanned /\ Len(Taken) > 0 /\ start' = Taken[1] /\ day' = Taken[1] /\ pc' = "label"
      /\ statements' = <<<<"equation", "min", Taken[1]>>, <<"equation", "max", Taken[1]>>>>
      /\ known' = known /\ force' = force /\ mishaps' = mishaps
  BY DEF Fit, FitAt
<1>2. /\ Taken \in Seq(Int) /\ Down(Taken) /\ known \subseteq ToSet(Taken) /\ Len(Taken) \in Nat
  BY <1>1, TakenDays
<1>3. \A d \in known : d <= Taken[1] /\ ~(d > Taken[1])
  <2>1. /\ DOMAIN Taken = 1..Len(Taken) /\ \A i \in 1..Len(Taken) : Taken[i] \in Int
        /\ 1 \in 1..Len(Taken)
    BY <1>1, <1>2, LenProperties, ElementOfSeq
  <2> SUFFICES ASSUME NEW d \in known  PROVE d <= Taken[1] /\ ~(d > Taken[1])  OBVIOUS
  <2>2. PICK i \in 1..Len(Taken) : d = Taken[i]  BY <1>2, <2>1 DEF ToSet
  <2>3. i # 1 => Taken[1] > Taken[i]
    <3>1. i # 1 => 1 < i  OBVIOUS
    <3> QED  BY <1>2, <2>1, <3>1 DEF Down
  <2>4. Taken[1] \in Int /\ Taken[i] \in Int  BY <2>1
  <2> QED  BY <2>2, <2>3, <2>4
<1>4. Passed(Fittable)'  BY <1>1, <1>3 DEF Passed
<1>5. Inserting'  BY <1>1 DEF Inserting
<1>6. RanThrough(Fittable)'  BY <1>1 DEF RanThrough
<1> QED  BY <1>1, <1>4, <1>5, <1>6 DEF RegThrough_Inv

LEMMA PassLabelKeepsRegThrough ==
  ASSUME RegInv, RegThrough_Inv, PassLabel
  PROVE RegThrough_Inv'
<1>1. /\ Labels /\ Queued /\ pc = "label" /\ statements = <<>> /\ pc' = "label" /\ day' = day - 1
      /\ statistics' = statistics /\ known' = known /\ start' = start /\ force' = force
      /\ statements' = statements /\ results' = results /\ equations' = equations
      /\ mishaps' = mishaps
  BY DEF PassLabel, Labels, DayBefore, begun, tables
<1>2. day \in Int /\ known \subseteq Int
  <2>1. /\ day \in Int /\ known \subseteq 1..today /\ today \in Int
    BY DEF RegInv, RegTypes_Inv, Days_Inv
  <2>2. 1..today \subseteq Int  BY <2>1
  <2> QED  BY <2>1, <2>2
<1>3. day \notin known
  <2>1. day \notin ToSet(xx)  BY <1>1, LabelIsAFront
  <2>2. known \subseteq ToSet(xx)  BY <1>1 DEF RegInv, Rows_Inv, Remains
  <2> QED  BY <2>1, <2>2
<1>4. \A d : (Fittable(d)' <=> Fittable(d)) /\ (HasResults(d)' <=> HasResults(d))
  BY <1>1, FitsAlike DEF HasResults, OfDay
<1>5. \A d \in known : (d <= day => d <= day - 1) /\ (d > day - 1 => d > day)  BY <1>2, <1>3
<1>6. Passed(Fittable) => Passed(Fittable)'
  BY <1>1, <1>4, <1>5 DEF Passed, Ahead
<1>7. Inserting => Inserting'  BY <1>1 DEF Inserting, Inserted
<1>8. RanThrough(Fittable)'  BY <1>1 DEF RanThrough
<1> QED  BY <1>1, <1>6, <1>7, <1>8 DEF RegThrough_Inv

LEMMA LabelKeepsRegThrough ==
  ASSUME RegInv, RegThrough_Inv, Label
  PROVE RegThrough_Inv'
<1>1. /\ pc = "label" /\ statements = <<>> /\ pc' = "labelled" /\ day' = day
      /\ statements' = Result("min", start) \o Result("max", start)
      /\ statistics' = statistics /\ known' = known /\ start' = start /\ force' = force
      /\ results' = results /\ equations' = equations /\ mishaps' = mishaps
  BY DEF Label, Labels, Goto, begun, tables
<1>2. \A d : (Fittable(d)' <=> Fittable(d)) /\ (HasResults(d)' <=> HasResults(d))
  BY <1>1, FitsAlike DEF HasResults, OfDay
<1>3. Passed(Fittable) => Passed(Fittable)'  BY <1>1, <1>2 DEF Passed, Ahead
<1>4. Inserting => Labelling'  BY <1>1 DEF Inserting, Labelling, Inserted
<1>5. RanThrough(Fittable)'  BY <1>1 DEF RanThrough
<1> QED  BY <1>1, <1>3, <1>4, <1>5 DEF RegThrough_Inv

LEMMA LabelledKeepsRegThrough ==
  ASSUME RegInv, RegThrough_Inv, Labelled
  PROVE RegThrough_Inv'
<1>1. /\ pc = "labelled" /\ statements = <<>> /\ UNCHANGED <<statistics, begun, tables>>
      /\ statistics' = statistics /\ start' = start /\ known' = known /\ results' = results
      /\ equations' = equations
  BY DEF Labelled, begun, tables
<1>2. /\ day \in Int /\ day \in Dates /\ start \in Dates /\ known \subseteq Int
  <2>1. /\ day \in Int /\ known \subseteq 1..today /\ today \in Int
    BY DEF RegInv, RegTypes_Inv, Days_Inv
  <2>2. 1..today \subseteq Int  BY <2>1
  <2>3. day \in Dates /\ start \in Dates
    BY <1>1, OfDayIsADay DEF RegInv, RegTypes_Inv, Rows_Inv
  <2> QED  BY <2>1, <2>2, <2>3
<1>3. mishaps = 0 => Passed(Fittable) /\ Inserted(Types) /\ HasResults(day)
  <2> SUFFICES ASSUME mishaps = 0
               PROVE Passed(Fittable) /\ Inserted(Types) /\ HasResults(day)
    OBVIOUS
  <2>1. Passed(Fittable) /\ Labelling  BY <1>1 DEF RegThrough_Inv
  <2>2. Inserted(Types) /\ HasBoth(start)  BY <1>1, <2>1 DEF Labelling, Result
  <2> QED  BY <1>2, <2>1, <2>2, StoredIsThere
<1>4. CASE force = 0
  <2>1. Ends  BY <1>4 DEF Labelled
  <2>2. mishaps = 0 => Ran(Fittable)
    <3> SUFFICES ASSUME mishaps = 0, NEW d \in known  PROVE \E e \in d..LastDay : HasResults(e)
      BY <1>4 DEF Ran, Left
    <3>1. d <= day /\ HasResults(day)  BY <1>3, <1>4 DEF Passed
    <3>2. day \in d..LastDay  BY <1>2, <3>1 DEF Dates
    <3> QED  BY <3>1, <3>2
  <2> QED  BY <1>1, <2>1, <2>2, EndKeepsRegThrough
<1>5. CASE force # 0
  <2>1. /\ pc' = "label" /\ day' = day - 1 /\ force' = force /\ mishaps' = mishaps
        /\ statements' = statements
    BY <1>5 DEF Labelled, DayBefore
  <2>2. \A d : (Fittable(d)' <=> Fittable(d)) /\ (HasResults(d)' <=> HasResults(d))
    BY <1>1, <2>1, FitsAlike DEF HasResults, OfDay
  <2>3. \A d \in known : d > day - 1 => d > day \/ d = day  BY <1>2
  <2>4. mishaps = 0 => Passed(Fittable)'
    BY <1>1, <1>3, <1>5, <2>1, <2>2, <2>3 DEF Passed, Ahead
  <2>5. mishaps = 0 => Inserting'  BY <1>1, <1>3, <2>1 DEF Inserting, Inserted
  <2>6. RanThrough(Fittable)'  BY <2>1 DEF RanThrough
  <2> QED  BY <2>1, <2>4, <2>5, <2>6 DEF RegThrough_Inv
<1> QED  BY <1>4, <1>5

(* The equations are there before the first result is stored.               *)
LEMMA InsertingGoesOn ==
  ASSUME Inserting, Insert, start' = start
  PROVE Inserting' /\ UNCHANGED results
<1> DEFINE a == <<"equation", "min", start>>
           b == <<"equation", "max", start>>
<1>1. statements # <<>> /\ statements' = Tail(statements)  BY DEF Insert
<1>2. ASSUME NEW type, Head(statements) = <<"equation", type, start>>
      PROVE equations' = equations \cup {<<type, start>>} /\ results' = results
  BY <1>2 DEF Insert, InsertEquation
<1>3. CASE statements = <<a, b>>
  <2>1. Head(statements) = a /\ statements' = <<b>>
    <3> HIDE DEF a, b
    <3> QED  BY <1>1, <1>3
  <2>2. equations' = equations \cup {<<"min", start>>} /\ results' = results  BY <1>2, <2>1
  <2>3. Inserted({"min"})'  BY <2>2 DEF Inserted
  <2> QED  BY <2>1, <2>2, <2>3 DEF Inserting
<1>4. CASE statements = <<b>> /\ Inserted({"min"})
  <2>1. Head(statements) = b /\ statements' = <<>>
    <3> HIDE DEF a, b
    <3> QED  BY <1>1, <1>4
  <2>2. equations' = equations \cup {<<"max", start>>} /\ results' = results  BY <1>2, <2>1
  <2>3. Inserted(Types)'  BY <1>4, <2>2 DEF Inserted, Types
  <2> QED  BY <2>1, <2>2, <2>3 DEF Inserting
<1> QED  BY <1>1, <1>3, <1>4 DEF Inserting

LEMMA FirstOfTwo ==
  ASSUME NEW s, NEW a, NEW b, s = <<a>> \o <<b>>
  PROVE Head(s) = a /\ Tail(s) = <<b>>
<1> DEFINE S == {a, b}
           t == Tail(s)
           u == <<b>>
<1>1. t \in Seq(S) /\ u \in Seq(S) /\ Len(t) = 1 /\ Len(u) = 1 /\ Head(s) = a  OBVIOUS
<1>2. \A i \in 1..1 : t[i] = u[i]  OBVIOUS
<1>3. t = u  BY <1>1, <1>2, SeqEqual
<1> QED  BY <1>1, <1>3

LEMMA LabellingGoesOn ==
  ASSUME results \in [Equations -> [Dates -> Seq(Int)]], used # Null,
         day \in Dates, start \in Dates, OfDay(used, day), Labelling, Insert
  PROVE StoresGood /\ Labelling'
<1>1. /\ statements # <<>> /\ statements' = Tail(statements) /\ day' = day /\ start' = start
      /\ statistics' = statistics /\ known' = known /\ used' = used
  BY DEF Insert, daysBack, process, begun
<1>2. Types = {"min", "max"}  BY DEF Types
<1>3. ASSUME StoresGood, NEW type \in Types, Has(type, start)  PROVE Has(type, start)'
  BY <1>1, <1>3, HasStays DEF Has
<1>4. ASSUME NEW type \in Types, Head(statements) = <<"result", type, start>>
      PROVE StoresGood /\ Has(type, start)' /\ Inserted(Types)'
  <2>1. InsertResult(type, start, day, used)  BY <1>4 DEF Insert
  <2>2. <<type, start>> \in equations  BY DEF Labelling, Inserted
  <2>3. StoresGood /\ results'[<<type, start>>][day] = used  BY <2>1, <2>2, StoredIsGood
  <2>4. equations' = equations  BY <2>1 DEF InsertResult
  <2>5. OfDay(used, day)'  BY <1>1 DEF OfDay
  <2>6. Inserted(Types)'  BY <1>1, <2>4 DEF Labelling, Inserted
  <2> QED  BY <1>1, <2>3, <2>5, <2>6 DEF Has
<1> DEFINE a == <<"result", "min", start>>
           b == <<"result", "max", start>>
<1>5. CASE statements = Result("min", start) \o Result("max", start)
  <2>1. statements = <<a>> \o <<b>>  BY <1>5 DEF Result
  <2>2. Head(statements) = a /\ Tail(statements) = <<b>>
    <3> HIDE DEF a, b
    <3> QED  BY <2>1, FirstOfTwo
  <2>3. StoresGood /\ Has("min", start)' /\ Inserted(Types)'  BY <1>2, <1>4, <2>2
  <2>4. statements' = Result("max", start)  BY <1>1, <2>2 DEF Result
  <2> QED  BY <1>1, <2>3, <2>4 DEF Labelling
<1>6. CASE statements = Result("max", start) /\ Has("min", start)
  <2>1. Head(statements) = b /\ statements' = <<>>  BY <1>1, <1>6 DEF Result
  <2>2. StoresGood /\ Has("max", start)' /\ Inserted(Types)'  BY <1>2, <1>4, <2>1
  <2>3. Has("min", start)'  BY <1>2, <1>3, <1>6, <2>2
  <2>4. HasBoth(start)'  BY <1>2, <2>2, <2>3 DEF HasBoth
  <2> QED  BY <1>1, <2>1, <2>2, <2>4 DEF Labelling
<1> QED  BY <1>1, <1>5, <1>6 DEF Labelling

LEMMA InsertKeepsRegThrough ==
  ASSUME RegInv, RegThrough_Inv, Insert \/ InsertFails
  PROVE RegThrough_Inv'
<1>1. /\ statements # <<>> /\ pc' = pc /\ day' = day /\ start' = start /\ known' = known
      /\ statistics' = statistics /\ force' = force /\ used' = used
      /\ mishaps' \in {mishaps, mishaps + 1} /\ (mishaps' = mishaps => Insert)
  <2>1. CASE Insert  BY <2>1 DEF Insert, daysBack, process, begun
  <2>2. CASE InsertFails
    <3>1. mishaps \in Nat  BY DEF RegInv, RegTypes_Inv, Days_Inv
    <3> QED  BY <2>2, <3>1 DEF InsertFails, FailsAt, begun
  <2> QED  BY <2>1, <2>2
<1>2. /\ pc \in {"label", "labelled"} /\ mishaps \in Nat /\ used \in Seq(Int) /\ Days_Inv
      /\ start \in Dates /\ known \subseteq 1..today /\ today \in 1..LastDay
      /\ results \in [Equations -> [Dates -> Seq(Int)]]
  BY <1>1 DEF RegInv, RegTypes_Inv, Days_Inv, Rows_Inv
<1>3. RanThrough(Fittable)'  BY <1>1, <1>2 DEF RanThrough
<1>4. ASSUME mishaps' = 0
      PROVE /\ Passed(Fittable)' /\ (pc = "label" => Inserting')
            /\ (pc = "labelled" => Labelling')
  <2>1. mishaps = 0 /\ Insert  BY <1>1, <1>2, <1>4
  <2>2. Passed(Fittable)  BY <1>2, <2>1 DEF RegThrough_Inv
  <2>3. StoresGood /\ (pc = "label" => Inserting') /\ (pc = "labelled" => Labelling')
    <3>1. CASE pc = "label"
      <4>1. Inserting  BY <2>1, <3>1 DEF RegThrough_Inv
      <4>2. Inserting' /\ results' = results  BY <1>1, <2>1, <4>1, InsertingGoesOn
      <4> QED  BY <3>1, <4>2 DEF StoresGood
    <3>2. CASE pc = "labelled"
      <4>1. Labelling  BY <2>1, <3>2 DEF RegThrough_Inv
      <4>2. OfDay(used, day)  BY <3>2 DEF RegInv, Rows_Inv
      <4>3. day \in Dates /\ used # Null  BY <1>2, <4>2, OfDayIsADay
      <4> QED  BY <1>2, <2>1, <3>2, <4>1, <4>2, <4>3, LabellingGoesOn
    <3> QED  BY <1>2, <3>1, <3>2
  <2>4. known \subseteq Dates
    <3>1. 1..today \subseteq Dates  BY <1>2 DEF Dates
    <3> QED  BY <1>2, <3>1
  <2>5. \A d \in Dates : HasResults(d) => HasResults(d)'  BY <1>1, <2>3, ResultsStay
  <2>6. \A d : Fittable(d)' <=> Fittable(d)  BY <1>1, FitsAlike
  <2>7. Passed(Fittable)'  BY <1>1, <2>2, <2>4, <2>5, <2>6 DEF Passed, Ahead
  <2> QED  BY <2>3, <2>7
<1> QED  BY <1>1, <1>2, <1>3, <1>4 DEF RegThrough_Inv

LEMMA StepKeepsRegThrough ==
  ASSUME RegInv, RegThrough_Inv, [Next]_backEndVars
  PROVE RegThrough_Inv'
<1>0. loaded = "regression" /\ mishaps \in Nat  BY DEF RegInv, RegTypes_Inv, Days_Inv
<1>1. UNCHANGED backEndVars \/ Regression \/ FittingWorld
  BY <1>0 DEF Next, Run, World, Show, LoadedWealth, LoadedFitting, Loaded
<1>2. CASE UNCHANGED backEndVars
  BY <1>2, WorldKeepsRegThrough DEF backEndVars, daysBack, fittingVars, tables
<1>3. CASE Regression
  <2>1. CASE RegressionBegins \/ Query
    <3>1. pc' = "query"
      BY <2>1 DEF RegressionBegins, BeginAt, Query, daysBack, process
    <3> QED  BY <3>1 DEF RegThrough_Inv, RanThrough
  <2>2. CASE TooFewDays  BY <2>2, TooFewKeepsRegThrough
  <2>3. CASE NoFit \/ QueryFails \/ FittingCodesFail
    <3>1. pc' = "idle" /\ mishaps' = mishaps + 1
      BY <2>3 DEF NoFit, QueryFails, FailsAt, FittingCodesFail, CodesFail
    <3> QED  BY <1>0, <3>1 DEF RegThrough_Inv, RanThrough
  <2>4. CASE Fit  BY <2>4, FitKeepsRegThrough
  <2>5. CASE PassLabel  BY <2>5, PassLabelKeepsRegThrough
  <2>6. CASE Label  BY <2>6, LabelKeepsRegThrough
  <2>7. CASE Labelled  BY <2>7, LabelledKeepsRegThrough
  <2>8. CASE Insert \/ InsertFails  BY <2>8, InsertKeepsRegThrough
  <2>9. CASE RegressionEnds  BY <2>9, EndsKeepRegThrough
  <2> QED  BY <1>3, <2>1, <2>2, <2>3, <2>4, <2>5, <2>6, <2>7, <2>8, <2>9 DEF Regression
<1>4. CASE FittingWorld
  <2>1. CASE FillDay
    <3>1. statistics \subseteq statistics'  BY <2>1 DEF FillDay
    <3> QED  BY <2>1, <3>1, WorldKeepsRegThrough DEF FillDay, daysBack, tables
  <2>2. CASE FittingNextDay
    BY <2>2, WorldKeepsRegThrough DEF FittingNextDay, MidNight, fittingVars, tables
  <2>3. CASE FittingRestart
    <3>1. pc' = "idle" /\ mishaps' = mishaps + 1  BY <2>3 DEF FittingRestart, Restart
    <3> QED  BY <1>0, <3>1 DEF RegThrough_Inv, RanThrough
  <2> QED  BY <1>4, <2>1, <2>2, <2>3 DEF FittingWorld
<1> QED  BY <1>1, <1>2, <1>3, <1>4

-----------------------------------------------------------------------------
(* Whatever is loaded.                                                      *)

Fittings_Inv ==
  /\ Statements_Inv
  /\ loaded = "interpolator" => Inv /\ Through_Inv
  /\ loaded = "regression" => RegInv /\ RegThrough_Inv
  /\ loaded \in {"wealth", "interpolator", "regression", "output"}

LEMMA FittingsInit == Init => Fittings_Inv
BY InvInit, ThroughInit, RegInit, RegThroughInit, StatementsInit DEF Fittings_Inv, Init

(* What the interpolator inserts is of a day of its window.                 *)
LEMMA SolvesADay ==
  ASSUME Inv, Through_Inv, Solve
  PROVE day \in Dates
<1>1. /\ xx # <<>> /\ Head(xx) = day /\ xx \in Seq(Int) /\ Down(xx)
      /\ ToSet(xx) \subseteq statistics /\ statistics \subseteq 1..today /\ today \in 1..LastDay
  BY DayIsAFront
     DEF Solve, WindowIsFull, Inv, Types_Inv, Window_Inv, Shared, Through_Inv, Days_Inv
<1>2. day \in 1..today  BY <1>1, DownTail
<1> QED  BY <1>1, <1>2 DEF Dates

LEMMA StepKeepsFittings ==
  ASSUME Fittings_Inv, [Next]_backEndVars
  PROVE Fittings_Inv' /\ [StoresItsDay]_results
<1>1. UNCHANGED loaded
  BY DEF Next, Run, World, Show, LoadedWealth, LoadedFitting, Loaded, backEndVars
<1>2. CASE loaded = "interpolator"
  <2>1. Inv /\ Through_Inv /\ Statements_Inv  BY <1>2 DEF Fittings_Inv
  <2>2. Inv' /\ Through_Inv' /\ StoresItsDay  BY <2>1, StepKeepsInv, StepKeepsThrough
  <2>3. ~Fit /\ ~Label
    BY <2>1 DEF Fit, FitAt, Scanned, Label, Labels, Inv, Window_Inv
  <2>4. Solve => day \in Dates  BY <2>1, SolvesADay
  <2>5. Statements_Inv'  BY <2>1, <2>3, <2>4, StepKeepsStatements
  <2> QED  BY <1>1, <1>2, <2>2, <2>5 DEF Fittings_Inv
<1>3. CASE loaded = "regression"
  <2>1. RegInv /\ RegThrough_Inv /\ Statements_Inv  BY <1>3 DEF Fittings_Inv
  <2>2. RegInv' /\ RegThrough_Inv' /\ StoresItsDay  BY <2>1, StepKeepsReg, StepKeepsRegThrough
  <2>3. ~Solve  BY <2>1 DEF Solve, WindowIsFull, RegInv, Rows_Inv
  <2>4. Statements_Inv'  BY <2>1, <2>3, RegDays, StepKeepsStatements
  <2> QED  BY <1>1, <1>3, <2>2, <2>4 DEF Fittings_Inv
<1>4. CASE loaded \notin {"interpolator", "regression"}
  <2>1. UNCHANGED fittingVars
    BY <1>4 DEF Next, Run, World, Show, LoadedWealth, LoadedFitting, Loaded, backEndVars
  <2>2. statements' = statements /\ equations' = equations /\ results' = results
    BY <2>1 DEF fittingVars, tables
  <2> QED  BY <1>1, <1>4, <2>2, StatementsStay DEF Fittings_Inv
<1> QED  BY <1>2, <1>3, <1>4

(* A result of the interpolator or the regression is of the day it is       *)
(* stored under, and goes back from there without leaving out a day that    *)
(* was known when its run began: for any number of equations and of days in *)
(* each, any limit of empty days, forced or not, whatever statements fail,  *)
(* wherever the process starts again and whatever the statistics write      *)
(* meanwhile, between the columns of one run too.  Only a day whose own     *)
(* read failed may be left out: the code takes it for one without data.     *)
THEOREM ResultsOfTheirDay == Spec => OfItsDay
<1>1. Fittings_Inv /\ [Next]_backEndVars => Fittings_Inv' /\ [StoresItsDay]_results
  BY StepKeepsFittings
<1>2. [StoresItsDay]_results =>
        [\A e \in Equations : \A d \in Dates :
           results'[e][d] \in {results[e][d], Null} \/ OfDay(results'[e][d], d)]_results
  BY DEF StoresItsDay
<1> QED  BY FittingsInit, <1>1, <1>2, PTL DEF Spec, OfItsDay

(* A run of either in a process that nothing happened to ends with results  *)
(* of each day that there were days enough for, if it was forced, and else  *)
(* with those of the last one: giving up after too many empty days, or when *)
(* the rows are used up, it leaves out none.                                *)
THEOREM FitsAll == Spec => []Fitted
<1>1. Fittings_Inv /\ [Next]_backEndVars => Fittings_Inv'  BY StepKeepsFittings
<1>2. Fittings_Inv => Fitted  BY DEF Fittings_Inv, Through_Inv, RegThrough_Inv, Fitted
<1> QED  BY FittingsInit, <1>1, <1>2, PTL DEF Spec

-----------------------------------------------------------------------------
(* Types.                                                                   *)

Pair == Nat \X Nat

WealthTypes ==
  /\ source \in [Tables -> [Codes -> [Days -> Rows \cup {NoRow}]]]
  /\ replaced \in [Tables -> [Codes -> [Days -> SUBSET Rows]]]
  /\ wealth \in [Tables -> [Days -> Pair \cup {NoRow}]]
  /\ sums \in [Tables -> Pair] /\ (count = 0 => sums = NoSums)
  /\ changes \in 0..MaxChanges /\ code \in 1..(NrCodes + 1)
  /\ count \in 0..(code - 1) /\ all_same \in BOOLEAN

DaysTypes == DaysTypeOK /\ day \in Int

LEMMA WealthIs ==
  /\ NrCodes \in Nat /\ MaxChanges \in Nat /\ MaxMishaps \in Nat /\ EmptyLimit \in Nat
  /\ Rows \subseteq Pair /\ Rows # {} /\ FirstDay \in Nat /\ LastDay \in Nat /\ FirstDay <= LastDay
BY WealthAssumption DEF Pair

LEMMA DaysInitTypes == DaysInit => DaysTypes
BY WealthIs DEF DaysInit, DaysTypes, DaysTypeOK

(* The frame of a run.                                                      *)
LEMMA FrameTypes ==
  ASSUME DaysTypes
  PROVE /\ UNCHANGED daysBack => DaysTypes'
        /\ MidNight \/ Return \/ CodesFail \/ Restart => DaysTypes'
        /\ \A label :
             BeginAt(label) \/ Goto(label) \/ DayBefore(label) \/ FailsAt(label) => DaysTypes'
<1>0. /\ today \in FirstDay..LastDay /\ force \in {0} \cup Forced
      /\ updated \in BOOLEAN /\ day \in Int /\ day <= today /\ empty_days \in Nat
      /\ mishaps \in 0..MaxMishaps
  BY DEF DaysTypes, DaysTypeOK
<1>1. UNCHANGED daysBack => DaysTypes'
  BY DEF DaysTypes, DaysTypeOK, daysBack, process
<1>2. MidNight => DaysTypes'
  BY <1>0, WealthIs DEF MidNight, DaysTypes, DaysTypeOK, process
<1>3. Return => DaysTypes'
  BY <1>0, WealthIs DEF Return, DaysTypes, DaysTypeOK
<1>4. CodesFail \/ Restart => DaysTypes'
  <2>1. ASSUME CodesFail  PROVE DaysTypes'
    <3>1. /\ mishaps' = mishaps + 1 /\ mishaps < MaxMishaps /\ updated' = FALSE
          /\ UNCHANGED <<today, force, day, empty_days>>
      BY <2>1 DEF CodesFail
    <3>2. mishaps' \in 0..MaxMishaps  BY <1>0, <3>1, WealthIs
    <3> QED  BY <1>0, <3>1, <3>2 DEF DaysTypes, DaysTypeOK
  <2>2. Restart => DaysTypes'  BY <1>0, WealthIs DEF Restart, DaysTypes, DaysTypeOK
  <2> QED  BY <2>1, <2>2
<1>5. ASSUME NEW label, BeginAt(label) \/ Goto(label) \/ DayBefore(label) \/ FailsAt(label)
      PROVE DaysTypes'
  <2>1. CASE BeginAt(label)
    <3>1. /\ day' = today /\ empty_days' = 0 /\ updated' = FALSE
          /\ UNCHANGED <<today, force, mishaps>>
      BY <2>1 DEF BeginAt
    <3>2. day' \in Int /\ day' <= today' /\ empty_days' \in Nat  BY <1>0, <3>1, WealthIs
    <3> QED  BY <1>0, <3>1, <3>2 DEF DaysTypes, DaysTypeOK
  <2>2. CASE Goto(label)  BY <1>0, <2>2 DEF Goto, DaysTypes, DaysTypeOK
  <2>3. CASE DayBefore(label)  BY <1>0, <2>3, WealthIs DEF DayBefore, DaysTypes, DaysTypeOK
  <2>4. CASE FailsAt(label)  BY <1>0, <2>4, WealthIs DEF FailsAt, DaysTypes, DaysTypeOK
  <2> QED  BY <1>5, <2>1, <2>2, <2>3, <2>4
<1> QED  BY <1>1, <1>2, <1>3, <1>4, <1>5

(* A row's sum is a pair of numbers.                                        *)
LEMMA PlusIs ==
  ASSUME NEW p \in Pair, NEW r \in Pair \cup {NoRow} PROVE Plus(p, r) \in Pair
<1>1. CASE r = NoRow  BY <1>1 DEF Plus
<1>2. CASE r # NoRow
  <2>1. r \in Pair  BY <1>2
  <2>2. p[1] + r[1] \in Nat /\ p[2] + r[2] \in Nat  BY <2>1 DEF Pair
  <2> QED  BY <1>2, <2>2 DEF Plus, Pair
<1> QED  BY <1>1, <1>2

(* An answer is a row or none.                                              *)
LEMMA AnswersAre ==
  ASSUME WealthTypes, NEW t \in Tables, NEW c \in Codes, NEW a \in Answers(t, c)
  PROVE a \in Pair \cup {NoRow}
<1>1. CASE day \notin Days  BY <1>1 DEF Answers
<1>2. CASE day \in Days /\ source[t][c][day] = NoRow  BY <1>2 DEF Answers
<1>3. CASE day \in Days /\ source[t][c][day] # NoRow
  <2> DEFINE r == {source[t][c][day]} \cup replaced[t][c][day]
  <2>1. r \subseteq Pair
    <3>1. source[t][c][day] \in Rows \cup {NoRow} /\ replaced[t][c][day] \in SUBSET Rows
      BY <1>3 DEF WealthTypes
    <3> QED  BY <1>3, <3>1, WealthIs
  <2>2. a \in {<<p[1], q[2]>> : p, q \in r}  BY <1>3 DEF Answers
  <2> HIDE DEF r
  <2>3. PICK p \in r, q \in r : a = <<p[1], q[2]>>  BY <2>2
  <2> QED  BY <2>1, <2>3 DEF Pair
<1> QED  BY <1>1, <1>2, <1>3

(* A code's rows are taken.                                                 *)
LEMMA TakeTypes ==
  ASSUME WealthTypes, NEW r, \A t \in Tables : r[t] \in Pair \cup {NoRow},
         Take(r), code <= NrCodes
  PROVE /\ sums' \in [Tables -> Pair] /\ (count' = 0 => sums' = NoSums)
        /\ code' \in 1..(NrCodes + 1) /\ count' \in 0..(code' - 1)
<1>1. /\ sums' = [t \in Tables |-> Plus(sums[t], r[t])]
      /\ count' = count + (IF \A t \in Tables : r[t] = NoRow THEN 0 ELSE 1)
      /\ code' = code + 1
  BY DEF Take
<1>2. sums \in [Tables -> Pair] /\ code \in 1..(NrCodes + 1) /\ count \in 0..(code - 1)
  BY DEF WealthTypes
<1>3. sums' \in [Tables -> Pair]  BY <1>1, <1>2, PlusIs
<1>4. code' \in 1..(NrCodes + 1) /\ count' \in 0..(code' - 1)  BY <1>1, <1>2, WealthIs
<1>5. ASSUME count' = 0 PROVE sums' = NoSums
  <2>1. count = 0 /\ \A t \in Tables : r[t] = NoRow  BY <1>1, <1>2, <1>5
  <2>2. sums = NoSums  BY <2>1 DEF WealthTypes
  <2>3. \A t \in Tables : Plus(sums[t], r[t]) = sums[t]  BY <2>1 DEF Plus
  <2> QED  BY <1>1, <1>2, <2>2, <2>3 DEF NoSums
<1> QED  BY <1>3, <1>4, <1>5

LEMMA WealthInitTypes == WealthInit => WealthTypes
<1> SUFFICES ASSUME WealthInit PROVE WealthTypes  OBVIOUS
<1>1. (CHOOSE r \in Rows : TRUE) \in Rows  BY WealthIs
<1>2. source \in [Tables -> [Codes -> [Days -> Rows \cup {NoRow}]]]
  BY <1>1 DEF WealthInit
<1>3. replaced \in [Tables -> [Codes -> [Days -> SUBSET Rows]]]
  BY DEF WealthInit, NoReplaced
<1>4. wealth \in [Tables -> [Days -> Pair \cup {NoRow}]]  BY DEF WealthInit
<1>5. sums \in [Tables -> Pair] /\ sums = NoSums  BY DEF WealthInit, NoSums, Zero, Pair
<1> QED  BY <1>2, <1>3, <1>4, <1>5, WealthIs DEF WealthInit, WealthTypes

LEMMA NewDayTypes ==
  ASSUME NewDay
  PROVE /\ sums' \in [Tables -> Pair] /\ (count' = 0 => sums' = NoSums)
        /\ code' \in 1..(NrCodes + 1) /\ count' \in 0..(code' - 1) /\ all_same' \in BOOLEAN
BY WealthIs DEF NewDay, NoSums, Zero, Pair

LEMMA WealthStepTypes ==
  ASSUME DaysTypes, WealthTypes, WealthRun \/ WealthWorld
  PROVE DaysTypes' /\ WealthTypes'
<1>0. UNCHANGED wealthVars => WealthTypes'  BY DEF wealthVars, reading, WealthTypes, NoSums
<1>1. CASE \/ WealthBegin \/ WealthCodesFail \/ WealthEnds \/ SomeData \/ WealthNextDay
           \/ TrendsUpdated
  <2>1. WealthTypes'
    BY <1>0, <1>1
       DEF WealthBegin, WealthCodesFail, WealthEnds, SomeData, WealthNextDay, TrendsUpdated
  <2>2. CASE WealthBegin \/ WealthCodesFail
    BY <2>1, <2>2, FrameTypes DEF WealthBegin, WealthCodesFail
  <2>3. CASE WealthEnds \/ WealthNextDay
    BY <2>1, <2>3, FrameTypes DEF WealthEnds, WealthNextDay
  <2>4. CASE SomeData
    <3>1. empty_days' = 0 /\ UNCHANGED <<today, force, updated, day, mishaps>>
      BY <2>4 DEF SomeData
    <3> QED  BY <2>1, <3>1 DEF DaysTypes, DaysTypeOK
  <2>5. CASE TrendsUpdated
    <3>1. updated' = TRUE /\ UNCHANGED <<today, force, day, empty_days, mishaps>>
      BY <2>5 DEF TrendsUpdated
    <3> QED  BY <2>1, <3>1 DEF DaysTypes, DaysTypeOK
  <2> QED  BY <1>1, <2>2, <2>3, <2>4, <2>5
<1>2. CASE ReadCode
  <2>1. DaysTypes'  BY <1>2, FrameTypes DEF ReadCode
  <2>2. code <= NrCodes /\ code \in Codes
    BY <1>2, WealthIs DEF ReadCode, WealthTypes, Codes
  <2>3. PICK r \in [Tables -> Answered(code)] :
          (\A t \in Tables : r[t] \in Answers(t, code)) /\ Take(r)
    BY <1>2 DEF ReadCode
  <2>4. \A t \in Tables : r[t] \in Pair \cup {NoRow}  BY <2>2, <2>3, AnswersAre
  <2>5. /\ sums' \in [Tables -> Pair] /\ (count' = 0 => sums' = NoSums)
        /\ code' \in 1..(NrCodes + 1) /\ count' \in 0..(code' - 1)
    BY <2>2, <2>3, <2>4, TakeTypes
  <2>6. UNCHANGED <<source, replaced, changes, all_same, wealth>>  BY <1>2 DEF ReadCode
  <2> QED  BY <2>1, <2>5, <2>6 DEF WealthTypes
<1>3. CASE ReadFails
  <2>1. DaysTypes'  BY <1>3, FrameTypes DEF ReadFails
  <2>2. code <= NrCodes /\ code \in Codes
    BY <1>3, WealthIs DEF ReadFails, WealthTypes, Codes
  <2>3. PICK t \in Tables :
          Take([u \in Tables |-> IF u = t \/ day \notin Days THEN NoRow ELSE source[u][code][day]])
    BY <1>3 DEF ReadFails
  <2> DEFINE r == [u \in Tables |-> IF u = t \/ day \notin Days THEN NoRow ELSE source[u][code][day]]
  <2>4. \A u \in Tables : r[u] \in Pair \cup {NoRow}
    BY <2>2, WealthIs DEF WealthTypes
  <2> HIDE DEF r
  <2>5. /\ sums' \in [Tables -> Pair] /\ (count' = 0 => sums' = NoSums)
        /\ code' \in 1..(NrCodes + 1) /\ count' \in 0..(code' - 1)
    BY <2>2, <2>3, <2>4, TakeTypes DEF r
  <2>6. UNCHANGED <<source, replaced, changes, all_same, wealth>>  BY <1>3 DEF ReadFails
  <2> QED  BY <2>1, <2>5, <2>6 DEF WealthTypes
<1>4. CASE NoData
  <2>1. DaysTypes'
    <3>1. day \in Int /\ day <= today /\ empty_days \in Nat /\ today \in Int
      BY WealthIs DEF DaysTypes, DaysTypeOK
    <3>2. CASE force = 0 /\ empty_days + 1 > EmptyLimit
      BY <1>4, <3>2, FrameTypes DEF NoData
    <3>3. CASE ~(force = 0 /\ empty_days + 1 > EmptyLimit)
      <4>1. /\ day' = day - 1 /\ empty_days' = empty_days + (IF force = 0 THEN 1 ELSE 0)
            /\ UNCHANGED <<today, force, updated, mishaps>>
        BY <1>4, <3>3 DEF NoData
      <4> QED  BY <3>1, <4>1 DEF DaysTypes, DaysTypeOK
    <3> QED  BY <3>2, <3>3
  <2> QED  BY <1>4, <2>1, NewDayTypes DEF NoData, WealthTypes
<1>5. CASE Compared
  <2>1. DaysTypes'  BY <1>5, FrameTypes DEF Compared
  <2> QED  BY <1>5, <2>1, NewDayTypes DEF Compared, WealthTypes
<1>6. ASSUME NEW t \in Tables, SameRow(t) \/ InsertKey(t) \/ UpdateRow(t)
      PROVE DaysTypes' /\ WealthTypes'
  <2>1. DaysTypes'  BY <1>6, FrameTypes DEF SameRow, InsertKey, UpdateRow
  <2>2. CASE SameRow(t)  BY <1>0, <2>1, <2>2 DEF SameRow
  <2>3. CASE InsertKey(t)
    <3>1. wealth' \in [Tables -> [Days -> Pair \cup {NoRow}]]
      <4>1. Zero \in Pair  BY DEF Zero, Pair
      <4>2. CASE wealth' = [wealth EXCEPT ![t][day] = IF @ = NoRow THEN Zero ELSE @]
        BY <4>1, <4>2 DEF WealthTypes
      <4>3. CASE UNCHANGED wealth  BY <4>3 DEF WealthTypes
      <4> QED  BY <2>3, <4>2, <4>3 DEF InsertKey
    <3>2. all_same' = FALSE /\ UNCHANGED <<source, replaced, changes, code, sums, count>>
      BY <2>3 DEF InsertKey, reading
    <3> QED  BY <2>1, <3>1, <3>2 DEF WealthTypes
  <2>4. CASE UpdateRow(t)
    <3>1. wealth' \in [Tables -> [Days -> Pair \cup {NoRow}]]
      <4>1. sums[t] \in Pair  BY DEF WealthTypes
      <4>2. CASE wealth' = [wealth EXCEPT ![t][day] = IF @ = NoRow THEN @ ELSE sums[t]]
        BY <4>1, <4>2 DEF WealthTypes
      <4>3. CASE UNCHANGED wealth  BY <4>3 DEF WealthTypes
      <4> QED  BY <2>4, <4>2, <4>3 DEF UpdateRow
    <3>2. UNCHANGED <<source, replaced, changes, code, sums, count, all_same>>
      BY <2>4 DEF UpdateRow, reading
    <3> QED  BY <2>1, <3>1, <3>2 DEF WealthTypes
  <2> QED  BY <1>6, <2>2, <2>3, <2>4
<1>7. CASE WealthRestart
  <2>1. DaysTypes'  BY <1>7, FrameTypes DEF WealthRestart
  <2>2. replaced' \in [Tables -> [Codes -> [Days -> SUBSET Rows]]]
    BY <1>7 DEF WealthRestart, NoReplaced
  <2> QED  BY <1>7, <2>1, <2>2, NewDayTypes DEF WealthRestart, WealthTypes
<1>8. CASE Expire
  <2>1. DaysTypes'  BY <1>8, FrameTypes DEF Expire
  <2>2. replaced' \in [Tables -> [Codes -> [Days -> SUBSET Rows]]]
    BY <1>8 DEF Expire, NoReplaced
  <2>3. UNCHANGED <<source, changes, code, sums, count, all_same, wealth>>
    BY <1>8 DEF Expire, reading
  <2> QED  BY <2>1, <2>2, <2>3 DEF WealthTypes
<1>9. ASSUME NEW t \in Tables, NEW c \in Codes, NEW d \in Days, Change(t, c, d)
      PROVE DaysTypes' /\ WealthTypes'
  <2>1. DaysTypes'  BY <1>9, FrameTypes DEF Change
  <2>2. PICK r \in Rows : source' = [source EXCEPT ![t][c][d] = r]  BY <1>9 DEF Change
  <2>3. source' \in [Tables -> [Codes -> [Days -> Rows \cup {NoRow}]]]
    BY <2>2 DEF WealthTypes
  <2>4. replaced' \in [Tables -> [Codes -> [Days -> SUBSET Rows]]]
    <3>1. source[t][c][d] \in Rows \cup {NoRow} /\ replaced[t][c][d] \in SUBSET Rows
      BY DEF WealthTypes
    <3>2. CASE t \in Cached /\ source[t][c][d] # NoRow
      <4> DEFINE held == replaced[t][c][d] \cup {source[t][c][d]}
      <4>1. held \in SUBSET Rows  BY <3>1, <3>2
      <4>2. replaced' = [replaced EXCEPT ![t][c][d] = held]  BY <1>9, <3>2 DEF Change
      <4> HIDE DEF held
      <4> QED  BY <4>1, <4>2 DEF WealthTypes
    <3>3. CASE ~(t \in Cached /\ source[t][c][d] # NoRow)
      BY <1>9, <3>3 DEF Change, WealthTypes
    <3> QED  BY <3>2, <3>3
  <2>5. changes' \in 0..MaxChanges /\ UNCHANGED <<code, sums, count, all_same, wealth>>
    BY <1>9, WealthIs DEF Change, WealthTypes, reading
  <2> QED  BY <2>1, <2>3, <2>4, <2>5 DEF WealthTypes
<1> QED
  BY <1>1, <1>2, <1>3, <1>4, <1>5, <1>6, <1>7, <1>8, <1>9 DEF WealthRun, WealthWorld

-----------------------------------------------------------------------------
(* Types of the fittings, as their invariants leave them.                   *)

Fitting_Types ==
  /\ start \in 0..today
  /\ loaded = "interpolator" => row = 0
  /\ loaded = "regression" /\ pc \in {"idle", "query"} => xx = <<>> /\ empty_queue = <<>>
  /\ \A e \in Equations : \A d \in Dates : results[e][d] # NoRow => e \in equations
  /\ loaded \in {"wealth", "output"} => FittingTypeOK /\ equations = {}

LEMMA UpToCount ==
  ASSUME NEW n \in Nat PROVE IsFiniteSet(1..n) /\ Cardinality(1..n) = n
<1>1. 1 \in Int /\ n \in Int /\ n - 1 + 1 = n /\ (1 > n => n = 0)  OBVIOUS
<1>2. Cardinality(1..n) = IF 1 > n THEN 0 ELSE n - 1 + 1  BY <1>1, FS_Interval, Zenon
<1>3. IsFiniteSet(1..n)  BY <1>1, FS_Interval, Zenon
<1> QED  BY <1>1, <1>2, <1>3

(* Days in their order back are no more than there are.                     *)
LEMMA DownIsShort ==
  ASSUME NEW n \in Nat, NEW s \in Seq(Int), Down(s), ToSet(s) \subseteq 1..n
  PROVE Len(s) <= n
<1> DEFINE T == {s[j] : j \in 1..Len(s)}
<1>1. Len(s) \in 0..Len(s) /\ Len(s) \in Nat  OBVIOUS
<1>2. Cardinality(T) = Len(s)  BY <1>1, DownCounts
<1>3. T \subseteq 1..n
  <2>1. \A j \in 1..Len(s) : s[j] \in ToSet(s)  BY DEF ToSet
  <2> QED  BY <2>1
<1>4. IsFiniteSet(1..n) /\ Cardinality(1..n) = n  BY UpToCount
<1> HIDE DEF T
<1>5. Cardinality(T) <= Cardinality(1..n)  BY <1>3, <1>4, FS_Subset
<1> QED  BY <1>2, <1>4, <1>5

LEMMA FittingsAre ==
  ASSUME Fittings_Inv, Fitting_Types PROVE FittingTypeOK
<1>1. CASE loaded \in {"wealth", "output"}  BY <1>1 DEF Fitting_Types
<1>2. CASE loaded = "interpolator"
  <2>1. /\ Types_Inv /\ Window_Inv /\ Days_Inv /\ Statements_Inv /\ row = 0
    BY <1>2 DEF Fittings_Inv, Inv, Through_Inv, Fitting_Types
  <2>2. statistics \subseteq 1..today /\ today \in 1..LastDay /\ LastDay \in Nat
    BY <2>1 DEF Days_Inv
  <2>3. Down(xx) /\ ToSet(xx) \subseteq statistics
    <3>1. CASE pc = "idle"
      <4>1. xx = <<>>  BY <2>1, <3>1 DEF Window_Inv
      <4> QED  BY <4>1 DEF Down, ToSet
    <3>2. CASE pc # "idle"  BY <2>1, <3>2 DEF Window_Inv, Shared
    <3> QED  BY <3>1, <3>2
  <2>4. xx \in Seq(Int) /\ empty_queue \in Seq(Int) /\ known \subseteq statistics
    BY <2>1 DEF Types_Inv
  <2>5. ToSet(xx) \subseteq 1..LastDay
    <3>1. 1..today \subseteq 1..LastDay  BY <2>2
    <3> QED  BY <2>2, <2>3, <3>1
  <2>6. Len(xx) <= LastDay  BY <2>2, <2>3, <2>4, <2>5, DownIsShort
  <2>7. ToSet(empty_queue) \subseteq Int  BY <2>4 DEF ToSet
  <2> QED
    BY <2>1, <2>2, <2>3, <2>4, <2>6, <2>7 DEF FittingTypeOK, Fitting_Types, Statements_Inv
<1>3. CASE loaded = "regression"
  <2>1. /\ RegTypes_Inv /\ Rows_Inv /\ Days_Inv /\ Statements_Inv
    BY <1>3 DEF Fittings_Inv, RegInv, RegTypes_Inv
  <2>2. statistics \subseteq 1..today /\ today \in 1..LastDay /\ LastDay \in Nat
    BY <2>1 DEF Days_Inv
  <2>3. xx \in Seq(Int) /\ empty_queue \in Seq(Int) /\ known \subseteq statistics /\ row \in Nat
    BY <2>1 DEF RegTypes_Inv
  <2>4. Down(xx) /\ ToSet(xx) \subseteq statistics /\ row <= Len(xx)
    <3>1. CASE pc \in {"idle", "query"}
      <4>1. xx = <<>> /\ row = 0
        BY <1>3, <2>1, <3>1 DEF Rows_Inv, Fitting_Types
      <4> QED  BY <4>1 DEF Down, ToSet
    <3>2. CASE pc \notin {"idle", "query"}
      BY <2>1, <2>3, <3>2 DEF Rows_Inv, Remains
    <3> QED  BY <3>1, <3>2
  <2>5. ToSet(xx) \subseteq 1..LastDay
    <3>1. 1..today \subseteq 1..LastDay  BY <2>2
    <3> QED  BY <2>2, <2>4, <3>1
  <2>6. Len(xx) <= LastDay  BY <2>2, <2>3, <2>4, <2>5, DownIsShort
  <2>7. ToSet(empty_queue) \subseteq Int  BY <2>3 DEF ToSet
  <2>8. row \in 0..LastDay  BY <2>2, <2>3, <2>4, <2>6
  <2> QED
    BY <2>1, <2>2, <2>3, <2>4, <2>6, <2>7, <2>8 DEF FittingTypeOK, Fitting_Types, Statements_Inv
<1> QED  BY <1>1, <1>2, <1>3 DEF Fittings_Inv

LEMMA FittingInitTypes == Init => Fitting_Types
<1> SUFFICES ASSUME Init PROVE Fitting_Types  OBVIOUS
<1>1. /\ statistics \in SUBSET (1..FirstDay) /\ today = FirstDay /\ start = 0 /\ known = {}
      /\ xx = <<>> /\ empty_queue = <<>> /\ row = 0 /\ equations = {}
      /\ results = [e \in Equations |-> [d \in Dates |-> NoRow]]
  BY DEF Init, DaysInit, FittingInit
<1>2. ToSet(xx) = {} /\ ToSet(empty_queue) = {} /\ Len(xx) = 0  BY <1>1 DEF ToSet
<1>3. \A e \in Equations : \A d \in Dates : results[e][d] = NoRow  BY <1>1
<1>4. start \in 0..today /\ row \in 0..LastDay  BY <1>1, WealthIs
<1>5. FittingTypeOK  BY <1>1, <1>2, <1>3, <1>4, WealthIs DEF FittingTypeOK
<1> QED  BY <1>1, <1>3, <1>4, <1>5 DEF Fitting_Types

(* What a step of either does to the frame.                                 *)
LEMMA FittingFrame ==
  ASSUME DaysTypes, Interpolator \/ Regression \/ FittingWorld
  PROVE /\ today' \in {today, today + 1} /\ today' <= LastDay /\ force' = force
        /\ mishaps' \in 0..MaxMishaps /\ updated' \in BOOLEAN
<1>0. /\ today \in FirstDay..LastDay /\ mishaps \in 0..MaxMishaps /\ updated \in BOOLEAN
  BY DEF DaysTypes, DaysTypeOK
<1>1. CASE Interpolator
  <2>1. /\ UNCHANGED <<today, force>>
        /\ mishaps' = mishaps \/ (mishaps < MaxMishaps /\ mishaps' = mishaps + 1)
        /\ updated' \in {updated, FALSE}
    BY <1>1
       DEF Interpolator, InterpolatorBegins, InterpolatorEnds, TakeDay, PassDay, PassOver,
           TailFails, TooManyEmpty, FittingCodesFail, CodesFail,
           SkipDay, Solve, Insert, InsertFails, Solved, BeginAt, Ends, Return, DayBefore, Goto,
           FailsAt, daysBack, process
  <2>2. mishaps' \in 0..MaxMishaps /\ today' <= LastDay  BY <1>0, <2>1, WealthIs
  <2> QED  BY <1>0, <2>1, <2>2
<1>2. CASE Regression
  <2>1. /\ UNCHANGED <<today, force>>
        /\ mishaps' = mishaps \/ (mishaps < MaxMishaps /\ mishaps' = mishaps + 1)
        /\ updated' \in {updated, FALSE}
    BY <1>2
       DEF Regression, RegressionBegins, RegressionEnds, Query, QueryFails,
           FittingCodesFail, CodesFail, TooFewDays, NoFit, Fit, FitAt,
           PassLabel, Label, Labelled, Insert, InsertFails, BeginAt, Ends, Return, DayBefore, Goto,
           FailsAt, daysBack, process
  <2>2. mishaps' \in 0..MaxMishaps /\ today' <= LastDay  BY <1>0, <2>1, WealthIs
  <2> QED  BY <1>0, <2>1, <2>2
<1>3. CASE FillDay \/ FittingNextDay
  <2>1. /\ today' = today \/ (today < LastDay /\ today' = today + 1)
        /\ UNCHANGED <<force, mishaps, updated>>
    BY <1>3 DEF FillDay, FittingNextDay, MidNight, daysBack, process
  <2> QED  BY <1>0, <2>1, WealthIs
<1>4. CASE FittingRestart
  <2>1. /\ UNCHANGED <<today, force>> /\ mishaps < MaxMishaps /\ mishaps' = mishaps + 1
        /\ updated' = TRUE
    BY <1>4 DEF FittingRestart, Restart
  <2> QED  BY <1>0, <2>1, WealthIs
<1> QED  BY <1>1, <1>2, <1>3, <1>4 DEF FittingWorld

(* A result is inserted under an equation that is there.                    *)
LEMMA ResultsHaveEquations ==
  ASSUME \A e \in Equations : \A d \in Dates : results[e][d] # NoRow => e \in equations,
         results \in [Equations -> [Dates -> Seq(Int)]],
         Interpolator \/ Regression \/ FittingWorld
  PROVE \A e \in Equations : \A d \in Dates : results'[e][d] # NoRow => e \in equations'
<1>1. CASE Insert \/ InsertFails
  <2>1. \/ UNCHANGED tables
        \/ \E type, date : InsertEquation(type, date)
        \/ \E type, date, value : InsertResult(type, date, day, value)
    BY <1>1 DEF Insert, InsertFails
  <2>2. CASE UNCHANGED tables  BY <2>2 DEF tables
  <2>3. CASE \E type, date : InsertEquation(type, date)  BY <2>3 DEF InsertEquation
  <2>4. ASSUME NEW type, NEW date, NEW value, InsertResult(type, date, day, value)
        PROVE \A e \in Equations : \A d \in Dates : results'[e][d] # NoRow => e \in equations'
    <3>1. equations' = equations  BY <2>4 DEF InsertResult
    <3>2. CASE <<type, date>> \notin equations  BY <2>4, <3>1, <3>2 DEF InsertResult
    <3>3. CASE <<type, date>> \in equations
      <4>1. \A e \in Equations : e # <<type, date>> => results'[e] = results[e]
        BY <2>4, <3>3 DEF InsertResult
      <4> QED  BY <3>1, <3>3, <4>1
    <3> QED  BY <3>2, <3>3
  <2> QED  BY <2>1, <2>2, <2>3, <2>4
<1>2. CASE ~(Insert \/ InsertFails)
  <2>1. UNCHANGED tables
    BY <1>2
       DEF Interpolator, InterpolatorBegins, InterpolatorEnds, TakeDay, PassDay, PassOver,
           TailFails, TooManyEmpty, FittingCodesFail, CodesFail,
           SkipDay, Solve, Solved, Regression, RegressionBegins, RegressionEnds, Query, QueryFails,
           FittingCodesFail, CodesFail, TooFewDays,
           NoFit, Fit, FitAt, PassLabel, Label, Labelled, FittingWorld, FillDay, FittingNextDay,
           FittingRestart, fittingVars
  <2> QED  BY <2>1 DEF tables
<1> QED  BY <1>1, <1>2

LEMMA FittingStepTypes ==
  ASSUME Fittings_Inv, Fittings_Inv', DaysTypes, Fitting_Types, UNCHANGED loaded,
         \/ loaded = "interpolator" /\ Interpolator
         \/ loaded = "regression" /\ Regression
         \/ loaded \in {"interpolator", "regression"} /\ FittingWorld
  PROVE DaysTypes' /\ Fitting_Types'
<1>0. Interpolator \/ Regression \/ FittingWorld  OBVIOUS
<1>1. Days_Inv' /\ day' \in Int /\ day' <= today'
  BY DEF Fittings_Inv, Inv, Types_Inv, Through_Inv, RegInv, RegTypes_Inv
<1>2. /\ today' \in {today, today + 1} /\ today' <= LastDay /\ force' = force
      /\ mishaps' \in 0..MaxMishaps /\ updated' \in BOOLEAN
  BY <1>0, FittingFrame
<1>3. today \in FirstDay..LastDay /\ force \in {0} \cup Forced /\ start \in 0..today
  BY DEF DaysTypes, DaysTypeOK, Fitting_Types
<1>4. today' \in FirstDay..LastDay /\ today <= today'  BY <1>2, <1>3, WealthIs
<1>5. empty_days' \in Nat  BY <1>1 DEF Days_Inv
<1>6. DaysTypes'  BY <1>1, <1>2, <1>3, <1>4, <1>5 DEF DaysTypes, DaysTypeOK
<1>7. start' \in 0..today'
  <2>1. start' \in {start, today} \/ (Fit /\ start' = Taken[1])
    BY <1>0
       DEF Interpolator, InterpolatorBegins, InterpolatorEnds, TakeDay, PassDay, PassOver,
           TailFails, TooManyEmpty, FittingCodesFail, CodesFail,
           SkipDay, Solve, Insert, InsertFails, Solved, Regression, RegressionBegins,
           RegressionEnds, Query, QueryFails,
           FittingCodesFail, CodesFail, TooFewDays, NoFit, Fit, FitAt, PassLabel, Label, Labelled,
           FittingWorld, FillDay, FittingNextDay, FittingRestart, fittingVars, begun, Starts
  <2>2. CASE start' \in {start, today}  BY <1>3, <1>4, <2>2, WealthIs
  <2>3. CASE Fit /\ start' = Taken[1]
    <3>1. day' = start'  BY <2>3 DEF Fit, FitAt
    <3>2. pc = "query"  BY <2>3 DEF Fit, Scanned
    <3>3. loaded = "regression"
      BY <3>2 DEF Fittings_Inv, Inv, Window_Inv
    <3>4. Taken[1] \in Dates  BY <2>3, <3>3, RegDays DEF Fittings_Inv
    <3> QED  BY <1>1, <1>4, <2>3, <3>1, <3>4, WealthIs DEF Dates
  <2> QED  BY <2>1, <2>2, <2>3
<1>8. loaded' = "interpolator" => row' = 0
  <2> SUFFICES ASSUME loaded = "interpolator" PROVE row' = 0  OBVIOUS
  <2>1. row = 0 /\ (Interpolator \/ FittingWorld)  BY DEF Fitting_Types
  <2> QED
    BY <2>1
       DEF Interpolator, InterpolatorBegins, InterpolatorEnds, TakeDay, PassDay, PassOver,
           TailFails, TooManyEmpty, FittingCodesFail, CodesFail,
           SkipDay, Solve, Insert, InsertFails, Solved, FittingWorld, FillDay, FittingNextDay,
           FittingRestart, fittingVars, Ends, Forget
<1>9. loaded' = "regression" /\ pc' \in {"idle", "query"} => xx' = <<>> /\ empty_queue' = <<>>
  <2> SUFFICES ASSUME loaded = "regression", pc' \in {"idle", "query"}
               PROVE xx' = <<>> /\ empty_queue' = <<>>
    OBVIOUS
  <2>1. /\ pc \in {"idle", "query"} => xx = <<>> /\ empty_queue = <<>>
        /\ Regression \/ FittingWorld
        /\ statements # <<>> => pc \in {"label", "labelled"}
    BY DEF Fitting_Types, Fittings_Inv, RegInv, Rows_Inv
  <2>2. \/ xx' = <<>> /\ empty_queue' = <<>>
        \/ UNCHANGED <<xx, empty_queue>> /\ pc \in {"idle", "query"}
    BY <2>1
       DEF Regression, RegressionBegins, RegressionEnds, Query, QueryFails,
           FittingCodesFail, CodesFail, TooFewDays, NoFit, Fit, FitAt,
           PassLabel, Label, Labelled, Insert, InsertFails, FittingWorld, FillDay, FittingNextDay,
           FittingRestart, MidNight, fittingVars, window, Ends, Forget, BeginAt, DayBefore, Goto,
           FailsAt, daysBack, process, Labels, Scanned
  <2> QED  BY <2>1, <2>2
<1>10. results \in [Equations -> [Dates -> Seq(Int)]]
  BY DEF Fittings_Inv, Inv, Types_Inv, RegInv, RegTypes_Inv
<1>11. \A e \in Equations : \A d \in Dates : results'[e][d] # NoRow => e \in equations'
  BY <1>0, <1>10, ResultsHaveEquations DEF Fitting_Types
<1> QED  BY <1>6, <1>7, <1>8, <1>9, <1>11 DEF Fitting_Types

-----------------------------------------------------------------------------
(* Types of the output.                                                     *)

Stamped == [days : Seq(Nat), times : Seq(Nat)]

Output_Types ==
  /\ stage \in {"read", "merge", "end", "aborted"}
  /\ answers \in Seq(Series) /\ Len(answers) <= MaxSeries
  /\ at \in Stamped /\ X \in Seq(Seq(Nat))
  /\ \A c \in DOMAIN X : Len(X[c]) = Len(at.days)
  /\ {next_new, next_old} \subseteq Nat
  /\ stage # "read" => X # <<>>
  /\ X # <<>> => answers # <<>>
  /\ stage = "read" => next_new = 0 /\ next_old = 0
  /\ stage # "read" => next_new <= Len(answer.days) + 1 /\ next_old <= Len(at.days) + 1

Merge_Types ==
  stage = "merge" =>
    /\ next_new >= 1 /\ next_old >= 1 /\ answer.days # <<>>
    /\ tr \in Stamped /\ Xr \in [1..(Len(X) + 1) -> Seq(Nat)]
    /\ \A c \in 1..(Len(X) + 1) : Len(Xr[c]) = Len(tr.days)

LEMMA SeriesAre == Series \subseteq Stamped /\ MaxSeries \in Nat
BY OutputAssumption DEF Stamped

LEMMA AnswerIs ==
  ASSUME answers \in Seq(Series), answers # <<>>
  PROVE /\ answer \in Stamped /\ answer.days \in Seq(Nat) /\ Len(answer.days) \in Nat
<1>1. Len(answers) \in 1..Len(answers) /\ answer = answers[Len(answers)]
  BY DEF answer, Last
<1>2. answer \in Series  BY <1>1
<1> QED  BY <1>2, SeriesAre DEF Stamped

(* The data of a series.                                                    *)
LEMMA DataAre ==
  ASSUME NEW s \in Stamped
  PROVE /\ Data(s) \in Seq(Nat) /\ Len(Data(s)) = Len(s.days)
        /\ Len(s.days) \in Nat
<1>1. s.days \in Seq(Nat) /\ Len(s.days) \in Nat /\ DOMAIN s.days = 1..Len(s.days)
  BY DEF Stamped
<1>2. Data(s) = [n \in 1..Len(s.days) |-> n]  BY <1>1 DEF Data
<1> QED  BY <1>1, <1>2

LEMMA OutputInitTypes == OutputInit => Output_Types /\ Merge_Types
<1> SUFFICES ASSUME OutputInit PROVE Output_Types /\ Merge_Types  OBVIOUS
<1>1. /\ stage = "read" /\ answers = <<>> /\ at = [days |-> <<>>, times |-> <<>>] /\ X = <<>>
      /\ next_new = 0 /\ next_old = 0
  BY DEF OutputInit, NoStamps
<1> QED  BY <1>1, SeriesAre DEF Output_Types, Merge_Types, Stamped

LEMMA GetDataTypes ==
  ASSUME Output_Types, Merge_Types, GetData
  PROVE Output_Types' /\ Merge_Types'
<1>1. PICK s \in Series : GetFirst(s) \/ GetNext(s) \/ GetNothing(s)
  BY DEF GetData
<1>2. stage = "read" /\ Len(answers) < MaxSeries /\ answers \in Seq(Series)
  BY DEF GetData, Output_Types
<1>3. /\ Append(answers, s) \in Seq(Series) /\ Len(Append(answers, s)) <= MaxSeries
      /\ <<s>> \in Seq(Series) /\ Len(<<s>>) <= MaxSeries
      /\ Last(Append(answers, s)) = s
  BY <1>2, SeriesAre DEF Last
<1>4. s \in Stamped  BY SeriesAre
<1>5. CASE GetFirst(s)
  <2>1. /\ at' = s /\ X' = <<Data(s)>> /\ UNCHANGED <<stage, next_new, next_old, tr, Xr>>
        /\ answers' = <<s>>
    BY <1>5 DEF GetFirst, merge
  <2>2. X' \in Seq(Seq(Nat)) /\ \A c \in DOMAIN X' : Len(X'[c]) = Len(at'.days)
    BY <1>4, <2>1, DataAre
  <2> QED  BY <1>2, <1>3, <1>4, <2>1, <2>2 DEF Output_Types, Merge_Types
<1>6. CASE GetNothing(s)
  BY <1>6 DEF GetNothing, outputVars, rows, merge, Output_Types, Merge_Types, answer
<1>7. CASE GetNext(s)
  <2>1. /\ stage' = "merge" /\ next_new' = 1 /\ next_old' = 1
        /\ tr' = [days |-> <<>>, times |-> <<>>] /\ Xr' = [c \in 1..(Len(X) + 1) |-> <<>>]
        /\ UNCHANGED <<at, X>>
        /\ X # <<>> /\ s.days # <<>> /\ answers' = Append(answers, s) /\ answers' # <<>>
    BY <1>2, <1>7, SeriesAre DEF GetNext, rows, NoStamps
  <2>2. tr' \in Stamped /\ Len(tr'.days) = 0  BY <2>1 DEF Stamped
  <2>3. Xr' \in [1..(Len(X') + 1) -> Seq(Nat)]  BY <2>1
  <2>4. \A c \in 1..(Len(X') + 1) : Len(Xr'[c]) = Len(tr'.days)  BY <2>1, <2>2
  <2>5. Len(s.days) \in Nat /\ Len(at.days) \in Nat
    BY <1>4, DataAre DEF Output_Types
  <2>6. answer' = s  BY <1>3, <2>1 DEF answer
  <2>7. answers' \in Seq(Series) /\ Len(answers') <= MaxSeries  BY <1>3, <2>1
  <2>8. Output_Types'
    <3>1. next_new' <= Len(answer'.days) + 1 /\ next_old' <= Len(at'.days) + 1
      BY <2>1, <2>5, <2>6
    <3>2. /\ at' \in Stamped /\ X' \in Seq(Seq(Nat)) /\ X' # <<>>
          /\ \A c \in DOMAIN X' : Len(X'[c]) = Len(at'.days)
      BY <2>1 DEF Output_Types
    <3> QED  BY <2>1, <2>7, <3>1, <3>2 DEF Output_Types
  <2>9. Merge_Types'  BY <2>1, <2>2, <2>3, <2>4, <2>6 DEF Merge_Types
  <2> QED  BY <2>8, <2>9
<1> QED  BY <1>1, <1>5, <1>6, <1>7

(* A row.                                                                   *)
LEMMA MergeStepTypes ==
  ASSUME Output_Types, Merge_Types, stage = "merge", Readable,
         NEW stamps \in Stamped, NEW k \in 1..Len(stamps.days), MergeStep(stamps, k)
  PROVE /\ tr' \in Stamped /\ Xr' \in [1..(Len(X') + 1) -> Seq(Nat)]
        /\ \A c \in 1..(Len(X') + 1) : Len(Xr'[c]) = Len(tr'.days)
        /\ UNCHANGED <<stage, answers, at, X>>
<1>1. UNCHANGED <<stage, answers, at, X>>  BY DEF MergeStep, rows
<1>2. /\ tr \in Stamped /\ Xr \in [1..(Len(X) + 1) -> Seq(Nat)]
      /\ \A c \in 1..(Len(X) + 1) : Len(Xr[c]) = Len(tr.days)
      /\ next_new \in Nat /\ next_new >= 1 /\ next_old \in Nat /\ next_old >= 1
      /\ answer.days # <<>>
  BY DEF Output_Types, Merge_Types
<1>3. tr.days \in Seq(Nat) /\ tr.times \in Seq(Nat)  BY <1>2 DEF Stamped
<1>4. stamps.days[k] \in Nat /\ stamps.times \in Seq(Nat) /\ k \in Nat /\ k >= 1  BY DEF Stamped
<1>5. tr'.days = Append(tr.days, stamps.days[k])  BY DEF MergeStep
<1>6. tr' \in Stamped
  <2> DEFINE times == IF k <= Len(stamps.times) THEN Append(tr.times, stamps.times[k])
                      ELSE IF tr.times # <<>> THEN Append(tr.times, Last(tr.times)) ELSE <<>>
  <2>1. tr' = [days |-> Append(tr.days, stamps.days[k]), times |-> times]  BY DEF MergeStep
  <2>2. times \in Seq(Nat)
    <3>1. CASE k <= Len(stamps.times)
      <4>1. stamps.times[k] \in Nat  BY <1>4, <3>1
      <4> QED  BY <1>3, <3>1, <4>1
    <3>2. CASE ~(k <= Len(stamps.times)) /\ tr.times # <<>>
      <4>1. Last(tr.times) \in Nat  BY <1>3, <3>2 DEF Last
      <4> QED  BY <1>3, <3>2, <4>1
    <3>3. CASE ~(k <= Len(stamps.times)) /\ tr.times = <<>>  BY <3>3
    <3> QED  BY <3>1, <3>2, <3>3
  <2> HIDE DEF times
  <2> QED  BY <1>3, <1>4, <2>1, <2>2 DEF Stamped
<1> DEFINE datum(c) == IF c <= Len(X) THEN Datum(X[c], next_old) ELSE Datum(Data(answer), next_new)
<1>7. Xr' = [c \in 1..(Len(X) + 1) |-> Append(Xr[c], datum(c))]  BY DEF MergeStep
<1>8. ASSUME NEW column \in Seq(Nat), column # <<>>, NEW i \in Nat, i >= 1
      PROVE Datum(column, i) \in Nat
  BY <1>8 DEF Datum, Last
<1>9. \A c \in 1..(Len(X) + 1) : datum(c) \in Nat
  <2> SUFFICES ASSUME NEW c \in 1..(Len(X) + 1) PROVE datum(c) \in Nat  OBVIOUS
  <2>1. X \in Seq(Seq(Nat)) /\ answers \in Seq(Series) /\ answers # <<>>
    BY DEF Output_Types
  <2>2. CASE c <= Len(X)
    <3>1. c \in DOMAIN X /\ X[c] \in Seq(Nat)  BY <2>1, <2>2
    <3>2. X[c] # <<>>  BY <3>1 DEF Readable
    <3> QED  BY <1>2, <1>8, <2>2, <3>1, <3>2
  <2>3. CASE ~(c <= Len(X))
    <3>1. answer \in Stamped /\ answer.days \in Seq(Nat)  BY <2>1, AnswerIs
    <3>2. Data(answer) \in Seq(Nat) /\ Len(Data(answer)) = Len(answer.days)
      BY <3>1, DataAre
    <3>3. Len(answer.days) # 0  BY <1>2, <3>1
    <3>4. Data(answer) # <<>>  BY <3>2, <3>3
    <3> QED  BY <1>2, <1>8, <2>3, <3>2, <3>4
  <2> QED  BY <2>2, <2>3
<1>10. Xr' \in [1..(Len(X') + 1) -> Seq(Nat)]
       /\ \A c \in 1..(Len(X') + 1) : Len(Xr'[c]) = Len(tr'.days)
  <2> HIDE DEF datum
  <2>1. ASSUME NEW c \in 1..(Len(X) + 1), NEW d \in Nat
        PROVE /\ Append(Xr[c], d) \in Seq(Nat)
              /\ Len(Append(Xr[c], d)) = Len(tr.days) + 1
    <3>1. Xr[c] \in Seq(Nat) /\ Len(Xr[c]) = Len(tr.days)  BY <1>2
    <3> QED  BY <3>1
  <2>2. Len(tr'.days) = Len(tr.days) + 1  BY <1>3, <1>4, <1>5
  <2> QED  BY <1>1, <1>7, <1>9, <2>1, <2>2
<1> QED  BY <1>1, <1>6, <1>10

LEMMA MergeTypes ==
  ASSUME Output_Types, Merge_Types, Merge
  PROVE Output_Types' /\ Merge_Types'
<1>1. /\ stage = "merge" /\ Readable /\ X # <<>> /\ answers # <<>> /\ answers \in Seq(Series)
      /\ at \in Stamped /\ next_new \in Nat /\ next_new >= 1 /\ next_old \in Nat /\ next_old >= 1
      /\ next_new <= Len(answer.days) + 1 /\ next_old <= Len(at.days) + 1
  BY DEF Merge, Output_Types, Merge_Types
<1>2. /\ answer \in Stamped /\ Len(answer.days) \in Nat  BY <1>1, AnswerIs
<1>3. Len(at.days) \in Nat  BY <1>1, DataAre
<1>4. \/ OldLeft /\ OldRow /\ next_new' = next_new
      \/ NewLeft /\ NewRow /\ next_old' = next_old
      \/ OldLeft /\ NewLeft /\ OldRow /\ next_new' \in {next_new, next_new + 1}
  BY DEF Merge, MergeOld, MergeNew, MergeUntimed, MergeSame, SameDay
<1>5. /\ tr' \in Stamped /\ Xr' \in [1..(Len(X') + 1) -> Seq(Nat)]
      /\ \A c \in 1..(Len(X') + 1) : Len(Xr'[c]) = Len(tr'.days)
      /\ UNCHANGED <<stage, answers, at, X>>
  <2>1. CASE OldLeft /\ OldRow
    <3>1. next_old \in 1..Len(at.days)  BY <1>1, <1>3, <2>1 DEF OldLeft
    <3> QED  BY <1>1, <2>1, <3>1, MergeStepTypes DEF OldRow
  <2>2. CASE NewLeft /\ NewRow
    <3>1. next_new \in 1..Len(answer.days)  BY <1>1, <1>2, <2>2 DEF NewLeft
    <3> QED  BY <1>1, <1>2, <2>2, <3>1, MergeStepTypes DEF NewRow
  <2> QED  BY <1>4, <2>1, <2>2
<1>6. /\ next_new' \in Nat /\ next_new' >= 1 /\ next_old' \in Nat /\ next_old' >= 1
      /\ next_new' <= Len(answer.days) + 1 /\ next_old' <= Len(at.days) + 1
  <2>1. \/ next_old <= Len(at.days) /\ next_old' = next_old + 1 /\ next_new' = next_new
        \/ next_new <= Len(answer.days) /\ next_new' = next_new + 1 /\ next_old' = next_old
        \/ /\ next_old <= Len(at.days) /\ next_new <= Len(answer.days)
           /\ next_old' = next_old + 1 /\ next_new' \in {next_new, next_new + 1}
    BY <1>4 DEF OldLeft, NewLeft, OldRow, NewRow
  <2>3. CASE next_old <= Len(at.days) /\ next_old' = next_old + 1 /\ next_new' = next_new
    BY <1>1, <1>3, <2>3
  <2>4. CASE next_new <= Len(answer.days) /\ next_new' = next_new + 1 /\ next_old' = next_old
    BY <1>1, <1>2, <2>4
  <2>5. CASE /\ next_old <= Len(at.days) /\ next_new <= Len(answer.days)
             /\ next_old' = next_old + 1 /\ next_new' \in {next_new, next_new + 1}
    BY <1>1, <1>2, <1>3, <2>5
  <2> QED  BY <2>1, <2>3, <2>4, <2>5
<1>7. answer' = answer  BY <1>5 DEF answer
<1>8. Output_Types'  BY <1>1, <1>5, <1>6, <1>7 DEF Output_Types
<1>9. Merge_Types'  BY <1>5, <1>6, <1>7 DEF Merge_Types
<1> QED  BY <1>8, <1>9

LEMMA OutputStepTypes ==
  ASSUME Output_Types, Merge_Types, Output
  PROVE Output_Types' /\ Merge_Types'
<1>1. CASE GetData  BY <1>1, GetDataTypes
<1>2. CASE Merge  BY <1>2, MergeTypes
<1>3. CASE Merged
  <2>1. /\ stage = "merge" /\ stage' = "read" /\ at' = tr /\ X' = Xr
        /\ next_new' = 0 /\ next_old' = 0 /\ answers' = answers
    BY <1>3 DEF Merged
  <2>2. /\ tr \in Stamped /\ Xr \in [1..(Len(X) + 1) -> Seq(Nat)] /\ X \in Seq(Seq(Nat))
        /\ \A c \in 1..(Len(X) + 1) : Len(Xr[c]) = Len(tr.days)
        /\ X # <<>> /\ answers # <<>>
    BY <2>1 DEF Output_Types, Merge_Types
  <2>3. X' \in Seq(Seq(Nat)) /\ DOMAIN X' = 1..(Len(X) + 1)
    <3>1. Len(X) + 1 \in Nat  BY <2>2
    <3>2. X' \in [1..(Len(X) + 1) -> Seq(Nat)]  BY <2>1, <2>2
    <3> QED  BY <3>1, <3>2
  <2>4. X' # <<>>
    <3>1. 1 \in DOMAIN X'  BY <2>2, <2>3
    <3> QED  BY <3>1
  <2>5. \A c \in DOMAIN X' : Len(X'[c]) = Len(at'.days)  BY <2>1, <2>2, <2>3
  <2>6. answers' \in Seq(Series) /\ Len(answers') <= MaxSeries
    BY <2>1 DEF Output_Types
  <2> QED  BY <2>1, <2>2, <2>3, <2>4, <2>5, <2>6 DEF Output_Types, Merge_Types
<1>4. CASE ReadsOutOfBounds \/ ShowTable \/ ShowChart
  <2>1. /\ UNCHANGED <<answers, at, X, next_new, next_old>>
        /\ stage' \in {"end", "aborted"} /\ X # <<>>
    BY <1>4 DEF ReadsOutOfBounds, ShowTable, ShowChart, Shows, rows, merge, Output_Types
  <2>2. stage = "read" => next_new = 0 /\ next_old = 0  BY DEF Output_Types
  <2>3. answers \in Seq(Series) /\ answers # <<>> /\ at \in Stamped
    BY <2>1 DEF Output_Types
  <2>4. Len(answer.days) \in Nat /\ Len(at.days) \in Nat  BY <2>3, AnswerIs, DataAre
  <2>5. answer' = answer  BY <2>1 DEF answer
  <2>6. next_new <= Len(answer.days) + 1 /\ next_old <= Len(at.days) + 1
    BY <2>2, <2>4 DEF Output_Types
  <2> QED  BY <2>1, <2>5, <2>6 DEF Output_Types, Merge_Types
<1> QED  BY <1>1, <1>2, <1>3, <1>4 DEF Output

LEMMA OutputIs == Output_Types => OutputTypeOK
<1> SUFFICES ASSUME Output_Types PROVE OutputTypeOK  OBVIOUS
<1>1. Len(at.days) \in Nat  BY DataAre DEF Output_Types
<1>2. next_old \in 0..(Len(at.days) + 1)  BY <1>1 DEF Output_Types
<1>3. next_new \in 0..(IF stage = "read" THEN 0 ELSE Len(answer.days) + 1)
  <2>1. CASE stage = "read"  BY <2>1 DEF Output_Types
  <2>2. CASE stage # "read"
    <3>1. Len(answer.days) \in Nat  BY <2>2, AnswerIs DEF Output_Types
    <3> QED  BY <2>2, <3>1 DEF Output_Types
  <2> QED  BY <2>1, <2>2
<1> QED  BY <1>2, <1>3 DEF Output_Types, OutputTypeOK

-----------------------------------------------------------------------------
(* Types of all.                                                            *)

NoWealth == \A t \in Tables : \A d \in Days : wealth[t][d] = NoRow

Types_Of_All ==
  /\ DaysTypes /\ WealthTypes /\ Fitting_Types /\ Output_Types /\ Merge_Types
  /\ loaded # "wealth" => NoWealth

(* What is not loaded stays, while days go by.                              *)
LEMMA FittingsStay ==
  ASSUME Fitting_Types, UNCHANGED <<loaded, fittingVars>>,
         loaded \in {"wealth", "output"},
         today \in Int, today' \in Int, today <= today'
  PROVE Fitting_Types'
<1>1. UNCHANGED <<statistics, start, known, xx, empty_queue, row, equations, results>>
  BY DEF fittingVars, begun, window, tables
<1>2. /\ start \in 0..today /\ FittingTypeOK /\ equations = {}
      /\ \A e \in Equations : \A d \in Dates : results[e][d] # NoRow => e \in equations
  BY DEF Fitting_Types
<1>3. 0..today \subseteq 0..today' /\ 1..today \subseteq 1..today'  OBVIOUS
<1>4. FittingTypeOK'  BY <1>1, <1>2, <1>3 DEF FittingTypeOK
<1> QED  BY <1>1, <1>2, <1>3, <1>4 DEF Fitting_Types

LEMMA OutputStays ==
  ASSUME Output_Types, Merge_Types, UNCHANGED outputVars
  PROVE Output_Types' /\ Merge_Types'
<1>1. UNCHANGED <<stage, answers, at, X, next_new, next_old, tr, Xr>>
  BY DEF outputVars, rows, merge
<1>2. answer' = answer  BY <1>1 DEF answer
<1> QED  BY <1>1, <1>2 DEF Output_Types, Merge_Types

LEMMA WealthStays ==
  ASSUME WealthTypes, UNCHANGED wealthVars
  PROVE WealthTypes' /\ (NoWealth => NoWealth')
BY DEF wealthVars, reading, WealthTypes, NoSums, NoWealth

LEMMA TypesInit == Init => Types_Of_All
<1> SUFFICES ASSUME Init PROVE Types_Of_All  OBVIOUS
<1>1. NoWealth  BY DEF Init, WealthInit, NoWealth
<1> QED
  BY <1>1, DaysInitTypes, WealthInitTypes, FittingInitTypes, OutputInitTypes
     DEF Init, Types_Of_All

LEMMA StepKeepsTypes ==
  ASSUME Fittings_Inv, Fittings_Inv', Types_Of_All, [Next]_backEndVars
  PROVE Types_Of_All'
<1>0. /\ DaysTypes /\ WealthTypes /\ Fitting_Types /\ Output_Types /\ Merge_Types
      /\ loaded # "wealth" => NoWealth
  BY DEF Types_Of_All
<1>1. CASE LoadedWealth /\ (WealthRun \/ WealthWorld)
  <2>1. loaded = "wealth" /\ UNCHANGED <<loaded, fittingVars, outputVars>>
    BY <1>1 DEF LoadedWealth, Loaded
  <2>2. DaysTypes' /\ WealthTypes'  BY <1>0, <1>1, WealthStepTypes
  <2>3. today' \in {today, today + 1}
    BY <1>1
       DEF WealthRun, WealthWorld, WealthBegin, WealthCodesFail, CodesFail, WealthEnds,
           ReadCode, ReadFails, NoData, SomeData, Compared, SameRow, InsertKey, UpdateRow, WealthRestart, Expire, TrendsUpdated,
           WealthNextDay, Change, BeginAt, Return, DayBefore, Goto, FailsAt, Restart, MidNight,
           daysBack
  <2>4. today \in Int /\ today' \in Int /\ today <= today'
    BY <1>0, <2>3, WealthIs DEF DaysTypes, DaysTypeOK
  <2>5. Fitting_Types'  BY <1>0, <2>1, <2>4, FittingsStay
  <2>6. Output_Types' /\ Merge_Types'  BY <1>0, <2>1, OutputStays
  <2> QED  BY <2>1, <2>2, <2>5, <2>6 DEF Types_Of_All
<1>2. CASE /\ loaded \in {"interpolator", "regression"}
           /\ UNCHANGED <<loaded, wealthVars, outputVars>>
           /\ \/ loaded = "interpolator" /\ Interpolator
              \/ loaded = "regression" /\ Regression
              \/ FittingWorld
  <2>1. DaysTypes' /\ Fitting_Types'  BY <1>0, <1>2, FittingStepTypes
  <2>2. WealthTypes' /\ NoWealth'  BY <1>0, <1>2, WealthStays
  <2>3. Output_Types' /\ Merge_Types'  BY <1>0, <1>2, OutputStays
  <2> QED  BY <2>1, <2>2, <2>3 DEF Types_Of_All
<1>3. CASE Show
  <2>1. loaded = "output" /\ Output /\ UNCHANGED <<loaded, daysBack, wealthVars, fittingVars>>
    BY <1>3 DEF Show, Loaded
  <2>2. today' = today /\ today \in Int
    BY <1>0, <2>1, WealthIs DEF daysBack, DaysTypes, DaysTypeOK
  <2>3. DaysTypes'  BY <1>0, <2>1, FrameTypes
  <2>4. Fitting_Types'
    <3>1. today <= today' /\ today' \in Int  BY <2>2
    <3> QED  BY <1>0, <2>1, <2>2, <3>1, FittingsStay
  <2>5. WealthTypes' /\ NoWealth'  BY <1>0, <2>1, WealthStays
  <2>6. Output_Types' /\ Merge_Types'  BY <1>0, <2>1, OutputStepTypes
  <2> QED  BY <2>3, <2>4, <2>5, <2>6 DEF Types_Of_All
<1>4. CASE UNCHANGED backEndVars
  <2>1. UNCHANGED <<loaded, daysBack, wealthVars, fittingVars, outputVars>>
    BY <1>4 DEF backEndVars
  <2>2. DaysTypes' /\ WealthTypes' /\ (NoWealth => NoWealth')
    BY <1>0, <2>1, FrameTypes, WealthStays
  <2>3. Output_Types' /\ Merge_Types'  BY <1>0, <2>1, OutputStays
  <2>4. Fitting_Types'
    <3>1. UNCHANGED <<today, pc, statistics, start, known, xx, empty_queue, row, equations, results>>
      BY <2>1 DEF daysBack, process, fittingVars, begun, window, tables
    <3> QED  BY <1>0, <2>1, <3>1 DEF Fitting_Types, FittingTypeOK
  <2> QED  BY <1>0, <2>1, <2>2, <2>3, <2>4 DEF Types_Of_All
<1> QED
  BY <1>1, <1>2, <1>3, <1>4
     DEF Next, Run, World, LoadedWealth, LoadedFitting, Loaded

(* Types of the three plugins and of the output, and what goes with them:   *)
(* the window's days are in the tables and no more than there are, a day  *)
(* without data has no sums, results are under equations that are there,    *)
(* the columns of the rows are as long as their stamps, and the two cursors *)
(* never pass the end of what they go through.                              *)
THEOREM TypeCorrect == Spec => []TypeOK
<1>1. Fittings_Inv /\ Types_Of_All /\ [Next]_backEndVars => (Fittings_Inv /\ Types_Of_All)'
  BY StepKeepsFittings, StepKeepsTypes
<1>2. ASSUME Fittings_Inv, Types_Of_All PROVE TypeOK
  <2>1. DaysTypeOK /\ FittingTypeOK /\ OutputTypeOK
    BY <1>2, FittingsAre, OutputIs DEF Types_Of_All, DaysTypes
  <2>2. WealthTypeOK  BY <1>2 DEF Types_Of_All, WealthTypes, WealthTypeOK, Pair
  <2>3. loaded = "wealth" => equations = {}  BY <1>2 DEF Types_Of_All, Fitting_Types
  <2> QED  BY <1>2, <2>1, <2>2, <2>3 DEF TypeOK, Types_Of_All, NoWealth
<1> QED  BY FittingsInit, TypesInit, <1>1, <1>2, PTL DEF Spec


-----------------------------------------------------------------------------
(* The rows of the output.                                                  *)

InOrder(days) == \A q, r \in DOMAIN days : q < r => days[q] <= days[r]

(* The rows so far end with one of stamps: its k-th.                        *)
RowAppended(stamps, k) ==
  LET R == Len(tr.days)
  IN  /\ tr' \in Stamped /\ Len(tr'.days) = R + 1
      /\ tr'.days[R + 1] = stamps.days[k]
      /\ \A r \in 1..R : tr'.days[r] = tr.days[r]
      /\ \A c \in 1..Len(X) : /\ Xr'[c][R + 1] = Datum(X[c], next_old)
                              /\ \A r \in 1..R : Xr'[c][r] = Xr[c][r]
      /\ Xr'[Len(X) + 1][R + 1] = Datum(Data(answer), next_new)
      /\ \A r \in 1..R : Xr'[Len(X) + 1][r] = Xr[Len(X) + 1][r]

LEMMA AppendIs ==
  ASSUME NEW S, NEW s \in Seq(S), NEW x
  PROVE /\ Append(s, x)[Len(s) + 1] = x
        /\ \A r \in 1..Len(s) : Append(s, x)[r] = s[r]
OBVIOUS

LEMMA RowIsAppended ==
  ASSUME Output_Types, Merge_Types, stage = "merge", Readable,
         NEW stamps \in Stamped, NEW k \in 1..Len(stamps.days), MergeStep(stamps, k)
  PROVE RowAppended(stamps, k)
<1> DEFINE R == Len(tr.days)
<1>1. /\ tr \in Stamped /\ Xr \in [1..(Len(X) + 1) -> Seq(Nat)] /\ X \in Seq(Seq(Nat))
      /\ \A c \in 1..(Len(X) + 1) : Len(Xr[c]) = Len(tr.days)
  BY DEF Merge_Types, Output_Types
<1>2. tr.days \in Seq(Nat) /\ R \in Nat /\ Len(X) \in Nat  BY <1>1 DEF Stamped
<1>3. tr' \in Stamped  BY MergeStepTypes
<1>4. tr'.days = Append(tr.days, stamps.days[k])  BY DEF MergeStep
<1>5. stamps.days[k] \in Nat  BY DEF Stamped
<1>6. /\ Len(tr'.days) = R + 1 /\ tr'.days[R + 1] = stamps.days[k]
      /\ \A r \in 1..R : tr'.days[r] = tr.days[r]
  BY <1>2, <1>4, <1>5
<1> DEFINE datum(c) == IF c <= Len(X) THEN Datum(X[c], next_old) ELSE Datum(Data(answer), next_new)
<1>7. Xr' = [c \in 1..(Len(X) + 1) |-> Append(Xr[c], datum(c))]  BY DEF MergeStep
<1>8. ASSUME NEW c \in 1..(Len(X) + 1)
      PROVE Xr'[c][R + 1] = datum(c) /\ \A r \in 1..R : Xr'[c][r] = Xr[c][r]
  <2>1. Xr'[c] = Append(Xr[c], datum(c))  BY <1>7
  <2>2. Xr[c] \in Seq(Nat) /\ Len(Xr[c]) = R  BY <1>1
  <2>3. \A x : Append(Xr[c], x)[R + 1] = x /\ \A r \in 1..R : Append(Xr[c], x)[r] = Xr[c][r]
    <3> DEFINE column == Xr[c]
    <3>1. column \in Seq(Nat) /\ Len(column) = R  BY <2>2
    <3>2. ASSUME NEW x
          PROVE /\ Append(column, x)[Len(column) + 1] = x
                /\ \A r \in 1..Len(column) : Append(column, x)[r] = column[r]
      <4> HIDE DEF column
      <4> QED  BY <3>1, AppendIs
    <3> QED  BY <3>1, <3>2
  <2> HIDE DEF datum
  <2> QED  BY <2>1, <2>3
<1>9. Len(X) + 1 \in 1..(Len(X) + 1) /\ ~(Len(X) + 1 <= Len(X)) /\ 1..Len(X) \subseteq 1..(Len(X) + 1)
  BY <1>2
<1>10. \A c \in 1..Len(X) : datum(c) = Datum(X[c], next_old)  BY <1>2
<1>11. datum(Len(X) + 1) = Datum(Data(answer), next_new)  BY <1>9
<1> HIDE DEF datum
<1> QED  BY <1>3, <1>6, <1>8, <1>9, <1>10, <1>11 DEF RowAppended

(* What the loop goes through.                                              *)
LEMMA LoopTypes ==
  ASSUME Output_Types, Merge_Types, stage = "merge"
  PROVE /\ at \in Stamped /\ answer \in Stamped /\ tr \in Stamped
        /\ answer \in Series
        /\ next_old \in Nat /\ next_new \in Nat /\ 1 <= next_old /\ 1 <= next_new
        /\ next_old <= Len(at.days) + 1 /\ next_new <= Len(answer.days) + 1
        /\ Len(answer.days) # 0
        /\ X \in Seq(Seq(Nat)) /\ \A c \in 1..Len(X) : X[c] \in Seq(Nat) /\ Len(X[c]) = Len(at.days)
<1>1. /\ at \in Stamped /\ tr \in Stamped /\ answers \in Seq(Series) /\ answers # <<>>
      /\ X \in Seq(Seq(Nat)) /\ next_old \in Nat /\ next_new \in Nat
      /\ next_old >= 1 /\ next_new >= 1 /\ answer.days # <<>>
      /\ next_old <= Len(at.days) + 1 /\ next_new <= Len(answer.days) + 1
      /\ \A c \in DOMAIN X : Len(X[c]) = Len(at.days)
  BY DEF Output_Types, Merge_Types
<1>2. answer \in Series
  <2>1. Len(answers) \in 1..Len(answers) /\ answer = answers[Len(answers)]
    BY <1>1 DEF answer, Last
  <2> QED  BY <1>1, <2>1
<1>3. answer \in Stamped  BY <1>2, SeriesAre
<1>4. answer.days \in Seq(Nat)  BY <1>3 DEF Stamped
<1>5. Len(answer.days) # 0  BY <1>1, <1>4
<1>6. \A c \in 1..Len(X) : X[c] \in Seq(Nat) /\ Len(X[c]) = Len(at.days)  BY <1>1
<1> QED  BY <1>1, <1>2, <1>3, <1>5, <1>6

LEMMA StampedDays ==
  ASSUME NEW s \in Stamped
  PROVE /\ Len(s.days) \in Nat /\ DOMAIN s.days = 1..Len(s.days)
        /\ \A k \in 1..Len(s.days) : s.days[k] \in Nat
        /\ Len(s.times) \in Nat /\ DOMAIN s.times = 1..Len(s.times)
        /\ \A k \in 1..Len(s.times) : s.times[k] \in Nat
<1>1. s.days \in Seq(Nat) /\ s.times \in Seq(Nat)  BY DEF Stamped
<1>2. /\ Len(s.days) \in Nat /\ DOMAIN s.days = 1..Len(s.days)
      /\ \A k \in 1..Len(s.days) : s.days[k] \in Nat
  BY <1>1
<1>3. /\ Len(s.times) \in Nat /\ DOMAIN s.times = 1..Len(s.times)
      /\ \A k \in 1..Len(s.times) : s.times[k] \in Nat
  BY <1>1
<1> QED  BY <1>2, <1>3

LEMMA SeriesOrder ==
  ASSUME NEW s \in Series
  PROVE InOrder(s.days) /\ (s.times # <<>> => Len(s.times) = Len(s.days))
BY OutputAssumption DEF InOrder

(* A turn of the loop takes a row, or a datum that is not after it.         *)
OldOrBoth ==
  /\ next_old <= Len(at.days) /\ RowAppended(at, next_old) /\ next_old' = next_old + 1
  /\ next_new <= Len(answer.days) => at.days[next_old] <= answer.days[next_new]
  /\ \/ next_new' = next_new
     \/ /\ next_new <= Len(answer.days) /\ at.days[next_old] = answer.days[next_new]
        /\ next_new' = next_new + 1
NewAlone ==
  /\ next_new <= Len(answer.days) /\ RowAppended(answer, next_new) /\ next_new' = next_new + 1
  /\ next_old <= Len(at.days) => answer.days[next_new] <= at.days[next_old]
  /\ next_old' = next_old

LEMMA TurnOfLoop ==
  ASSUME Output_Types, Merge_Types, Merge
  PROVE /\ stage = "merge" /\ UNCHANGED <<stage, answers, at, X>> /\ answer' = answer
        /\ OldOrBoth \/ NewAlone
<1>1. stage = "merge" /\ Readable  BY DEF Merge
<1>2. /\ at \in Stamped /\ answer \in Stamped
      /\ next_old \in Nat /\ next_new \in Nat /\ 1 <= next_old /\ 1 <= next_new
  BY <1>1, LoopTypes
<1>3. ASSUME OldLeft, OldRow
      PROVE /\ RowAppended(at, next_old) /\ next_old' = next_old + 1 /\ UNCHANGED <<stage, answers, at, X>>
            /\ at.days[next_old] \in Nat
  <2>1. next_old \in 1..Len(at.days)  BY <1>2, <1>3, StampedDays DEF OldLeft
  <2> QED  BY <1>1, <1>2, <1>3, <2>1, RowIsAppended, StampedDays DEF OldRow, MergeStep, rows
<1>4. ASSUME NewLeft, NewRow
      PROVE /\ RowAppended(answer, next_new) /\ next_new' = next_new + 1 /\ UNCHANGED <<stage, answers, at, X>>
            /\ answer.days[next_new] \in Nat
  <2>1. next_new \in 1..Len(answer.days)  BY <1>2, <1>4, StampedDays DEF NewLeft
  <2> QED  BY <1>1, <1>2, <1>4, <2>1, RowIsAppended, StampedDays DEF NewRow, MergeStep, rows
<1>5. CASE MergeOld
  <2>1. /\ OldLeft /\ OldRow /\ next_new' = next_new
        /\ NewLeft => at.days[next_old] < answer.days[next_new] \/ at.days[next_old] = answer.days[next_new]
    BY <1>5 DEF MergeOld, SameDay
  <2>2. NewLeft => answer.days[next_new] \in Nat
    BY <1>2, StampedDays DEF NewLeft
  <2>3. NewLeft => at.days[next_old] <= answer.days[next_new]  BY <1>3, <2>1, <2>2
  <2>4. OldOrBoth  BY <1>3, <2>1, <2>3 DEF OldOrBoth, NewLeft, OldLeft
  <2> QED  BY <1>1, <1>3, <2>1, <2>4 DEF answer
<1>6. CASE MergeNew
  <2>1. /\ NewLeft /\ NewRow /\ next_old' = next_old
        /\ OldLeft => answer.days[next_new] < at.days[next_old] \/ at.days[next_old] = answer.days[next_new]
    BY <1>6 DEF MergeNew, SameDay
  <2>2. OldLeft => at.days[next_old] \in Nat
    BY <1>2, StampedDays DEF OldLeft
  <2>3. OldLeft => answer.days[next_new] <= at.days[next_old]  BY <1>4, <2>1, <2>2
  <2>4. NewAlone  BY <1>4, <2>1, <2>3 DEF NewAlone, NewLeft, OldLeft
  <2> QED  BY <1>1, <1>4, <2>1, <2>4 DEF answer
<1>7. CASE MergeUntimed \/ MergeSame
  <2>1. /\ OldLeft /\ NewLeft /\ OldRow /\ at.days[next_old] = answer.days[next_new]
        /\ next_new' = next_new \/ next_new' = next_new + 1
    BY <1>7 DEF MergeUntimed, MergeSame, SameDay
  <2>2. at.days[next_old] <= answer.days[next_new]  BY <1>3, <2>1
  <2>3. OldOrBoth  BY <1>3, <2>1, <2>2 DEF OldOrBoth, NewLeft, OldLeft
  <2> QED  BY <1>1, <1>3, <2>1, <2>3 DEF answer
<1> QED  BY <1>5, <1>6, <1>7 DEF Merge

LEMMA InOrderFrom ==
  ASSUME NEW s \in Stamped, InOrder(s.days),
         NEW k \in 1..Len(s.days), NEW l \in 1..Len(s.days), k <= l
  PROVE s.days[k] <= s.days[l]
<1>1. k \in Int /\ l \in Int /\ s.days[k] \in Nat  BY StampedDays
<1>2. CASE k < l  BY <1>2, StampedDays DEF InOrder
<1>3. CASE k = l  BY <1>1, <1>3
<1> QED  BY <1>1, <1>2, <1>3

-----------------------------------------------------------------------------
(* The days are in order, and no datum is lost.                             *)

(* The days so far are in order and none is after what is left.             *)
MergeInOrder ==
  /\ InOrder(tr.days)
  /\ \A r \in DOMAIN tr.days :
       /\ \A k \in DOMAIN at.days : k >= next_old => tr.days[r] <= at.days[k]
       /\ \A k \in DOMAIN answer.days : k >= next_new => tr.days[r] <= answer.days[k]

LEMMA TurnInOrder ==
  ASSUME Output_Types, Merge_Types, Merge, InOrder(at.days), MergeInOrder
  PROVE MergeInOrder'
<1> DEFINE R == Len(tr.days)
           O == at.days
           D == answer.days
<1>1. /\ stage = "merge" /\ UNCHANGED <<stage, answers, at, X>> /\ answer' = answer
      /\ OldOrBoth \/ NewAlone
  BY TurnOfLoop
<1>2. at \in Stamped /\ answer \in Stamped /\ tr \in Stamped  BY <1>1, LoopTypes
<1>3. /\ R \in Nat /\ DOMAIN tr.days = 1..R /\ \A r \in 1..R : tr.days[r] \in Nat
  BY <1>2, StampedDays
<1>4. /\ Len(O) \in Nat /\ DOMAIN O = 1..Len(O) /\ \A k \in 1..Len(O) : O[k] \in Nat
  BY <1>2, StampedDays
<1>5. /\ Len(D) \in Nat /\ DOMAIN D = 1..Len(D) /\ \A k \in 1..Len(D) : D[k] \in Nat
  BY <1>2, StampedDays
<1>6. next_old \in Nat /\ next_new \in Nat /\ 1 <= next_old /\ 1 <= next_new
  BY <1>1, LoopTypes
<1>7. InOrder(D)  BY <1>1, LoopTypes, SeriesOrder
<1>8. PICK last \in Nat :
       /\ tr' \in Stamped /\ Len(tr'.days) = R + 1 /\ tr'.days[R + 1] = last
       /\ \A r \in 1..R : tr'.days[r] = tr.days[r]
       /\ \A r \in 1..R : tr.days[r] <= last
       /\ \A k \in 1..Len(O) : k >= next_old => last <= O[k]
       /\ \A k \in 1..Len(D) : k >= next_new => last <= D[k]
       /\ next_old' \in Nat /\ next_old' >= next_old /\ next_new' \in Nat /\ next_new' >= next_new
  <2>1. CASE OldOrBoth
    <3>1. next_old \in 1..Len(O)  BY <1>4, <1>6, <2>1 DEF OldOrBoth
    <3>2. O[next_old] \in Nat  BY <1>4, <3>1
    <3>3. /\ tr' \in Stamped /\ Len(tr'.days) = R + 1 /\ tr'.days[R + 1] = O[next_old]
          /\ \A r \in 1..R : tr'.days[r] = tr.days[r]
      BY <2>1 DEF OldOrBoth, RowAppended
    <3>4. \A r \in 1..R : tr.days[r] <= O[next_old]
      BY <1>3, <1>4, <1>6, <3>1 DEF MergeInOrder
    <3>5. \A k \in 1..Len(O) : k >= next_old => O[next_old] <= O[k]
      BY <1>2, <1>4, <1>6, <3>1, InOrderFrom
    <3>6. \A k \in 1..Len(D) : k >= next_new => O[next_old] <= D[k]
      <4> SUFFICES ASSUME NEW k \in 1..Len(D), k >= next_new PROVE O[next_old] <= D[k]
        OBVIOUS
      <4>1. next_new \in 1..Len(D)  BY <1>5, <1>6
      <4>2. O[next_old] <= D[next_new]  BY <1>5, <2>1, <4>1 DEF OldOrBoth
      <4>3. D[next_new] <= D[k]  BY <1>5, <1>6, <1>7, <4>1 DEF InOrder
      <4> QED  BY <1>5, <3>2, <4>1, <4>2, <4>3
    <3>7. /\ next_old' \in Nat /\ next_old' >= next_old /\ next_new' \in Nat /\ next_new' >= next_new
      BY <1>6, <2>1 DEF OldOrBoth
    <3> QED  BY <3>2, <3>3, <3>4, <3>5, <3>6, <3>7
  <2>2. CASE NewAlone
    <3>1. next_new \in 1..Len(D)  BY <1>5, <1>6, <2>2 DEF NewAlone
    <3>2. D[next_new] \in Nat  BY <1>5, <3>1
    <3>3. /\ tr' \in Stamped /\ Len(tr'.days) = R + 1 /\ tr'.days[R + 1] = D[next_new]
          /\ \A r \in 1..R : tr'.days[r] = tr.days[r]
      BY <2>2 DEF NewAlone, RowAppended
    <3>4. \A r \in 1..R : tr.days[r] <= D[next_new]
      <4>1. next_new >= next_new  BY <1>6
      <4> QED  BY <1>3, <1>5, <3>1, <4>1 DEF MergeInOrder
    <3>5. \A k \in 1..Len(D) : k >= next_new => D[next_new] <= D[k]
      BY <1>2, <1>5, <1>6, <1>7, <3>1, InOrderFrom
    <3>6. \A k \in 1..Len(O) : k >= next_old => D[next_new] <= O[k]
      <4> SUFFICES ASSUME NEW k \in 1..Len(O), k >= next_old PROVE D[next_new] <= O[k]
        OBVIOUS
      <4>1. next_old \in 1..Len(O)  BY <1>4, <1>6
      <4>2. D[next_new] <= O[next_old]  BY <1>4, <2>2, <4>1 DEF NewAlone
      <4>3. O[next_old] <= O[k]  BY <1>4, <1>6, <4>1 DEF InOrder
      <4> QED  BY <1>4, <3>2, <4>1, <4>2, <4>3
    <3>7. /\ next_old' \in Nat /\ next_old' >= next_old /\ next_new' \in Nat /\ next_new' >= next_new
      BY <1>6, <2>2 DEF NewAlone
    <3> QED  BY <3>2, <3>3, <3>4, <3>5, <3>6, <3>7
  <2> QED  BY <1>1, <2>1, <2>2
<1>9. DOMAIN tr'.days = 1..(R + 1)  BY <1>8, StampedDays
<1>10. \A r \in 1..(R + 1) : tr'.days[r] \in Nat /\ tr'.days[r] <= last
  <2>1. \A r \in 1..R : tr'.days[r] \in Nat /\ tr'.days[r] <= last  BY <1>3, <1>8
  <2>2. \A r \in 1..(R + 1) : r \in 1..R \/ r = R + 1  BY <1>3
  <2> QED  BY <1>8, <2>1, <2>2
<1>11. InOrder(tr'.days)
  <2> SUFFICES ASSUME NEW q \in 1..(R + 1), NEW r \in 1..(R + 1), q < r
               PROVE tr'.days[q] <= tr'.days[r]
    BY <1>9 DEF InOrder
  <2>1. CASE r = R + 1  BY <1>8, <1>10, <2>1
  <2>2. CASE r # R + 1
    <3>1. q \in 1..R /\ r \in 1..R  BY <1>3, <2>2
    <3> QED  BY <1>3, <1>8, <3>1 DEF MergeInOrder, InOrder
  <2> QED  BY <2>1, <2>2
<1>12. ASSUME NEW r \in 1..(R + 1), NEW k \in 1..Len(O), k >= next_old'
       PROVE tr'.days[r] <= O[k]
  <2>1. k >= next_old /\ O[k] \in Nat  BY <1>4, <1>6, <1>8, <1>12
  <2>2. last <= O[k] /\ last \in Nat  BY <1>8, <2>1
  <2>3. tr'.days[r] \in Nat /\ tr'.days[r] <= last  BY <1>10
  <2>4. \A x, y, z \in Nat : x <= y /\ y <= z => x <= z  OBVIOUS
  <2> QED  BY <2>1, <2>2, <2>3, <2>4
<1>13. ASSUME NEW r \in 1..(R + 1), NEW k \in 1..Len(D), k >= next_new'
       PROVE tr'.days[r] <= D[k]
  <2>1. k >= next_new /\ D[k] \in Nat  BY <1>5, <1>6, <1>8, <1>13
  <2>2. last <= D[k] /\ last \in Nat  BY <1>8, <2>1
  <2>3. tr'.days[r] \in Nat /\ tr'.days[r] <= last  BY <1>10
  <2>4. \A x, y, z \in Nat : x <= y /\ y <= z => x <= z  OBVIOUS
  <2> QED  BY <2>1, <2>2, <2>3, <2>4
<1> HIDE DEF R
<1> QED  BY <1>1, <1>4, <1>5, <1>9, <1>11, <1>12, <1>13 DEF MergeInOrder


(* The data of a row: a used up column repeats its last.                    *)
LEMMA DatumIs ==
  ASSUME Output_Types, Merge_Types, stage = "merge"
  PROVE /\ \A c \in 1..Len(X) :
             Datum(X[c], next_old) = IF next_old <= Len(at.days) THEN X[c][next_old] ELSE X[c][Len(at.days)]
        /\ Datum(Data(answer), next_new) = IF next_new <= Len(answer.days) THEN next_new ELSE Len(answer.days)
<1>1. /\ answer \in Stamped /\ Len(answer.days) # 0
      /\ next_new \in Nat /\ 1 <= next_new
      /\ \A c \in 1..Len(X) : X[c] \in Seq(Nat) /\ Len(X[c]) = Len(at.days)
  BY LoopTypes
<1>2. \A c \in 1..Len(X) :
        Datum(X[c], next_old) = IF next_old <= Len(at.days) THEN X[c][next_old] ELSE X[c][Len(at.days)]
  BY <1>1 DEF Datum, Last
<1>3. Len(Data(answer)) = Len(answer.days)  BY <1>1, DataAre
<1>4. \A n \in 1..Len(answer.days) : Data(answer)[n] = n  BY <1>1, StampedDays DEF Data
<1>5. CASE next_new <= Len(answer.days)
  <2>1. next_new \in 1..Len(answer.days)  BY <1>1, <1>5, StampedDays
  <2>2. Data(answer)[next_new] = next_new  BY <1>4, <2>1
  <2>3. Datum(Data(answer), next_new) = next_new
    <3>1. next_new <= Len(Data(answer))  BY <1>3, <1>5
    <3> QED  BY <2>2, <3>1 DEF Datum
  <2> QED  BY <1>2, <1>5, <2>3
<1>6. CASE ~(next_new <= Len(answer.days))
  <2>1. Len(answer.days) \in 1..Len(answer.days)  BY <1>1, StampedDays
  <2>2. Data(answer)[Len(answer.days)] = Len(answer.days)  BY <1>4, <2>1
  <2>3. Datum(Data(answer), next_new) = Len(answer.days)
    <3>1. ~(next_new <= Len(Data(answer)))  BY <1>3, <1>6
    <3> QED  BY <1>3, <2>2, <3>1 DEF Datum, Last
  <2> QED  BY <1>2, <1>6, <2>3
<1> QED  BY <1>2, <1>5, <1>6

(* What was taken has a row.                                                *)
NothingLost ==
  /\ \A p \in DOMAIN at.days : p < next_old =>
       \E r \in 1..Len(tr.days) :
         tr.days[r] = at.days[p] /\ \A c \in 1..Len(X) : Xr[c][r] = X[c][p]
  /\ \A n \in DOMAIN answer.days : n < next_new =>
       \E r \in 1..Len(tr.days) : tr.days[r] = answer.days[n] /\ Xr[Len(X) + 1][r] = n

LEMMA TurnLosesNothing ==
  ASSUME Output_Types, Merge_Types, Merge, NothingLost
  PROVE NothingLost'
<1> DEFINE R == Len(tr.days)
           O == at.days
           D == answer.days
<1>1. /\ stage = "merge" /\ UNCHANGED <<stage, answers, at, X>> /\ answer' = answer
      /\ OldOrBoth \/ NewAlone
  BY TurnOfLoop
<1>2. at \in Stamped /\ answer \in Stamped /\ tr \in Stamped  BY <1>1, LoopTypes
<1>3. R \in Nat /\ R + 1 \in 1..(R + 1) /\ 1..R \subseteq 1..(R + 1)  BY <1>2, StampedDays
<1>4. /\ Len(O) \in Nat /\ DOMAIN O = 1..Len(O) /\ Len(D) \in Nat /\ DOMAIN D = 1..Len(D)
  BY <1>2, StampedDays
<1>5. next_old \in Nat /\ next_new \in Nat /\ 1 <= next_old /\ 1 <= next_new
  BY <1>1, LoopTypes
<1>6. PICK stamps, k : RowAppended(stamps, k)  BY <1>1 DEF OldOrBoth, NewAlone
<1>7. /\ Len(tr'.days) = R + 1
      /\ \A r \in 1..R : tr'.days[r] = tr.days[r]
      /\ \A c \in 1..Len(X) : \A r \in 1..R : Xr'[c][r] = Xr[c][r]
      /\ \A r \in 1..R : Xr'[Len(X) + 1][r] = Xr[Len(X) + 1][r]
      /\ \A c \in 1..Len(X) : Xr'[c][R + 1] = Datum(X[c], next_old)
      /\ Xr'[Len(X) + 1][R + 1] = Datum(Data(answer), next_new)
  BY <1>6 DEF RowAppended
<1>8. /\ next_old' = next_old \/ next_old' = next_old + 1
      /\ next_new' = next_new \/ next_new' = next_new + 1
      /\ next_old' # next_old =>
           next_old \in 1..Len(O) /\ tr'.days[R + 1] = O[next_old]
      /\ next_new' # next_new =>
           next_new \in 1..Len(D) /\ tr'.days[R + 1] = D[next_new]
  <2>1. CASE OldOrBoth
    <3>1. next_old \in 1..Len(O)  BY <1>4, <1>5, <2>1 DEF OldOrBoth
    <3>2. tr'.days[R + 1] = O[next_old]  BY <2>1 DEF OldOrBoth, RowAppended
    <3> QED  BY <1>4, <1>5, <2>1, <3>1, <3>2 DEF OldOrBoth
  <2>2. CASE NewAlone
    <3>1. next_new \in 1..Len(D)  BY <1>4, <1>5, <2>2 DEF NewAlone
    <3>2. tr'.days[R + 1] = D[next_new]  BY <2>2 DEF NewAlone, RowAppended
    <3> QED  BY <1>4, <1>5, <2>2, <3>1, <3>2 DEF NewAlone
  <2> QED  BY <1>1, <2>1, <2>2
<1>9. ASSUME NEW p \in 1..Len(O), p < next_old'
      PROVE \E r \in 1..(R + 1) : tr'.days[r] = O[p] /\ \A c \in 1..Len(X) : Xr'[c][r] = X[c][p]
  <2>1. CASE p < next_old
    <3>1. PICK r \in 1..R : tr.days[r] = O[p] /\ \A c \in 1..Len(X) : Xr[c][r] = X[c][p]
      BY <1>4, <2>1 DEF NothingLost
    <3>2. r \in 1..(R + 1) /\ tr'.days[r] = O[p]  BY <1>3, <1>7, <3>1
    <3>3. \A c \in 1..Len(X) : Xr'[c][r] = X[c][p]  BY <1>7, <3>1
    <3> QED  BY <3>2, <3>3
  <2>2. CASE ~(p < next_old)
    <3>1. p = next_old /\ next_old' # next_old  BY <1>5, <1>8, <1>9, <2>2
    <3>2. next_old <= Len(O)  BY <3>1
    <3>3. \A c \in 1..Len(X) : Datum(X[c], next_old) = X[c][next_old]  BY <1>1, <3>2, DatumIs
    <3>4. tr'.days[R + 1] = O[p]  BY <1>8, <3>1
    <3>5. \A c \in 1..Len(X) : Xr'[c][R + 1] = X[c][p]  BY <1>7, <3>1, <3>3
    <3> QED  BY <1>3, <3>4, <3>5
  <2> QED  BY <2>1, <2>2
<1>10. ASSUME NEW n \in 1..Len(D), n < next_new'
       PROVE \E r \in 1..(R + 1) : tr'.days[r] = D[n] /\ Xr'[Len(X) + 1][r] = n
  <2>1. CASE n < next_new
    <3>1. PICK r \in 1..R : tr.days[r] = D[n] /\ Xr[Len(X) + 1][r] = n
      BY <1>4, <2>1 DEF NothingLost
    <3> QED  BY <1>3, <1>7, <3>1
  <2>2. CASE ~(n < next_new)
    <3>1. n = next_new /\ next_new' # next_new  BY <1>5, <1>8, <1>10, <2>2
    <3>2. next_new <= Len(D)  BY <3>1
    <3>3. Datum(Data(answer), next_new) = next_new  BY <1>1, <3>2, DatumIs
    <3> QED  BY <1>3, <1>7, <1>8, <3>1, <3>3
  <2> QED  BY <2>1, <2>2
<1>11. Len(tr'.days) = R + 1 /\ UNCHANGED <<at, X>> /\ answer' = answer  BY <1>1, <1>7
<1> HIDE DEF R
<1>12. \A p \in DOMAIN at'.days : p < next_old' =>
         \E r \in 1..Len(tr'.days) :
           tr'.days[r] = at'.days[p] /\ \A c \in 1..Len(X') : Xr'[c][r] = X'[c][p]
  <2>1. \A p \in DOMAIN O : p < next_old' =>
          \E r \in 1..Len(tr'.days) :
            tr'.days[r] = O[p] /\ \A c \in 1..Len(X) : Xr'[c][r] = X[c][p]
    BY <1>4, <1>9, <1>11
  <2>2. at' = at /\ X' = X  BY <1>11
  <2> QED  BY <2>1, <2>2
<1>13. \A n \in DOMAIN answer'.days : n < next_new' =>
         \E r \in 1..Len(tr'.days) : tr'.days[r] = answer'.days[n] /\ Xr'[Len(X') + 1][r] = n
  BY <1>4, <1>10, <1>11
<1> QED  BY <1>12, <1>13 DEF NothingLost

(* Each datum of the series has a row of its day.                           *)
EachHasARow(stamps, cols, list) ==
  \A c \in DOMAIN cols : \A n \in DOMAIN list[c].days :
    \E r \in DOMAIN stamps.days : stamps.days[r] = list[c].days[n] /\ cols[c][r] = n

(* When all is taken the rows have the data of one more series.             *)
LEMMA MergedLosesNothing ==
  ASSUME Output_Types, Merge_Types, NothingLost, stage = "merge",
         ~OldLeft, ~NewLeft, NEW list, EachHasARow(at, X, list),
         NEW longer, longer[Len(X) + 1] = answer, \A c \in 1..Len(X) : longer[c] = list[c]
  PROVE EachHasARow(tr, Xr, longer)
<1>1. /\ at \in Stamped /\ answer \in Stamped /\ tr \in Stamped
      /\ Xr \in [1..(Len(X) + 1) -> Seq(Nat)] /\ X \in Seq(Seq(Nat)) /\ Len(X) \in Nat
      /\ next_old \in Nat /\ next_new \in Nat
  BY LoopTypes DEF Merge_Types
<1>2. /\ DOMAIN tr.days = 1..Len(tr.days) /\ DOMAIN X = 1..Len(X) /\ DOMAIN Xr = 1..(Len(X) + 1)
      /\ DOMAIN at.days = 1..Len(at.days) /\ DOMAIN answer.days = 1..Len(answer.days)
      /\ Len(at.days) \in Nat /\ Len(answer.days) \in Nat
  BY <1>1, StampedDays
<1>3. (\A p \in DOMAIN at.days : p < next_old) /\ (\A n \in DOMAIN answer.days : n < next_new)
  BY <1>1, <1>2 DEF OldLeft, NewLeft
<1> SUFFICES ASSUME NEW c \in 1..(Len(X) + 1), NEW n \in DOMAIN longer[c].days
             PROVE \E r \in DOMAIN tr.days : tr.days[r] = longer[c].days[n] /\ Xr[c][r] = n
  BY <1>2, Zenon DEF EachHasARow
<1>4. CASE c = Len(X) + 1  BY <1>2, <1>3, <1>4 DEF NothingLost
<1>5. CASE c \in 1..Len(X)
  <2>1. PICK p \in DOMAIN at.days : at.days[p] = list[c].days[n] /\ X[c][p] = n
    BY <1>2, <1>5 DEF EachHasARow
  <2>2. PICK r \in 1..Len(tr.days) : tr.days[r] = at.days[p] /\ \A d \in 1..Len(X) : Xr[d][r] = X[d][p]
    BY <1>3, <2>1 DEF NothingLost
  <2> QED  BY <1>2, <1>5, <2>1, <2>2
<1>6. c = Len(X) + 1 \/ c \in 1..Len(X)  BY <1>1
<1> QED  BY <1>4, <1>5, <1>6


-----------------------------------------------------------------------------
(* Stamps are in one order.                                                 *)

Moments == Nat \X Nat

LEMMA BeforeIsOrder ==
  ASSUME NEW p \in Moments, NEW q \in Moments
  PROVE /\ ~Before(p, p)
        /\ Before(p, q) => ~Before(q, p) /\ p # q
        /\ Before(p, q) \/ Before(q, p) \/ p = q
        /\ \A r \in Moments : Before(p, q) /\ Before(q, r) => Before(p, r)
<1>1. \A x \in Moments : x = <<x[1], x[2]>> /\ x[1] \in Nat /\ x[2] \in Nat
  BY DEF Moments
<1>2. p[1] \in Nat /\ p[2] \in Nat /\ q[1] \in Nat /\ q[2] \in Nat
  BY <1>1
<1>3. ~Before(p, p)  BY <1>2 DEF Before
<1>4. Before(p, q) => ~Before(q, p)  BY <1>2 DEF Before
<1>5. p[1] = q[1] /\ p[2] = q[2] => p = q  BY <1>1
<1>6. Before(p, q) \/ Before(q, p) \/ p = q  BY <1>2, <1>5 DEF Before
<1>7. \A r \in Moments : Before(p, q) /\ Before(q, r) => Before(p, r)
  <2> TAKE r \in Moments
  <2>1. r[1] \in Nat /\ r[2] \in Nat  BY <1>1
  <2> QED  BY <1>2, <2>1 DEF Before
<1> QED  BY <1>3, <1>4, <1>6, <1>7

(* A series of which all data have a time, or none.                         *)
OfKind(s, timed) == IF timed THEN Len(s.times) = Len(s.days) ELSE s.times = <<>>

LEMMA StampIs ==
  ASSUME NEW s \in Stamped, NEW timed \in BOOLEAN, OfKind(s, timed), NEW n \in 1..Len(s.days)
  PROVE /\ Stamp(s, n) = <<s.days[n], IF timed THEN s.times[n] ELSE 0>>
        /\ Stamp(s, n) \in Moments
<1>1. /\ Len(s.days) \in Nat /\ s.days[n] \in Nat /\ s.times \in Seq(Nat)
      /\ \A k \in 1..Len(s.times) : s.times[k] \in Nat
  BY StampedDays DEF Stamped
<1>2. CASE timed
  <2>1. Len(s.times) = Len(s.days)  BY <1>2 DEF OfKind
  <2>2. s.times # <<>>  BY <1>1, <2>1
  <2>3. s.times[n] \in Nat  BY <1>1, <2>1
  <2> QED  BY <1>1, <1>2, <2>2, <2>3 DEF Stamp, HasTimes, Moments
<1>3. CASE ~timed
  <2>1. s.times = <<>>  BY <1>3 DEF OfKind
  <2> QED  BY <1>1, <1>3, <2>1 DEF Stamp, HasTimes, Moments
<1> QED  BY <1>2, <1>3

LEMMA SeriesKind ==
  ASSUME NEW s \in Series, NEW timed \in BOOLEAN, HasTimes(s) = timed
  PROVE OfKind(s, timed)
BY SeriesOrder DEF OfKind, HasTimes

(* A row more, in time.                                                     *)
OneMore(t, t2, stamp) ==
  /\ Len(t2.days) = Len(t.days) + 1
  /\ \A r \in 1..Len(t.days) : Stamp(t2, r) = Stamp(t, r)
  /\ Stamp(t2, Len(t.days) + 1) = stamp

LEMMA KindAppended ==
  ASSUME tr \in Stamped, NEW stamps \in Stamped, NEW k \in 1..Len(stamps.days), MergeStep(stamps, k),
         tr' \in Stamped, NEW timed \in BOOLEAN, OfKind(tr, timed), OfKind(stamps, timed)
  PROVE OfKind(tr', timed) /\ OneMore(tr, tr', Stamp(stamps, k))
<1> DEFINE R == Len(tr.days)
<1>1. tr.days \in Seq(Nat) /\ tr.times \in Seq(Nat) /\ R \in Nat  BY DEF Stamped
<1>2. stamps.days[k] \in Nat /\ Len(stamps.days) \in Nat  BY StampedDays
<1>3. /\ tr'.days = Append(tr.days, stamps.days[k])
      /\ tr'.times = IF k <= Len(stamps.times) THEN Append(tr.times, stamps.times[k])
                     ELSE IF tr.times # <<>> THEN Append(tr.times, Last(tr.times)) ELSE <<>>
  BY DEF MergeStep
<1>4. /\ Len(tr'.days) = R + 1 /\ tr'.days[R + 1] = stamps.days[k]
      /\ \A r \in 1..R : tr'.days[r] = tr.days[r]
  BY <1>1, <1>2, <1>3
<1>5. CASE timed
  <2>1. Len(stamps.times) = Len(stamps.days) /\ Len(tr.times) = R  BY <1>5 DEF OfKind
  <2>2. stamps.times[k] \in Nat  BY <2>1, StampedDays
  <2>3. tr'.times = Append(tr.times, stamps.times[k])  BY <1>2, <1>3, <2>1
  <2>4. /\ Len(tr'.times) = R + 1 /\ tr'.times[R + 1] = stamps.times[k]
        /\ \A r \in 1..R : tr'.times[r] = tr.times[r]
    BY <1>1, <2>1, <2>2, <2>3
  <2>5. OfKind(tr', timed)  BY <1>4, <1>5, <2>4 DEF OfKind
  <2>6. \A r \in 1..R : Stamp(tr', r) = Stamp(tr, r)
    <3> SUFFICES ASSUME NEW r \in 1..R PROVE Stamp(tr', r) = Stamp(tr, r)  OBVIOUS
    <3>1. r \in 1..Len(tr'.days)  BY <1>1, <1>4
    <3>2. Stamp(tr', r) = <<tr'.days[r], tr'.times[r]>>  BY <1>5, <2>5, <3>1, StampIs
    <3>3. Stamp(tr, r) = <<tr.days[r], tr.times[r]>>  BY <1>5, StampIs
    <3> QED  BY <1>4, <2>4, <3>2, <3>3
  <2>7. Stamp(tr', R + 1) = Stamp(stamps, k)
    <3>1. R + 1 \in 1..Len(tr'.days)  BY <1>1, <1>4
    <3>2. Stamp(tr', R + 1) = <<tr'.days[R + 1], tr'.times[R + 1]>>  BY <1>5, <2>5, <3>1, StampIs
    <3>3. Stamp(stamps, k) = <<stamps.days[k], stamps.times[k]>>  BY <1>5, StampIs
    <3> QED  BY <1>4, <2>4, <3>2, <3>3
  <2> QED  BY <1>4, <2>5, <2>6, <2>7 DEF OneMore
<1>6. CASE ~timed
  <2>1. stamps.times = <<>> /\ tr.times = <<>>  BY <1>6 DEF OfKind
  <2>2. tr'.times = <<>>
    <3>1. Len(stamps.times) = 0  BY <2>1
    <3>2. ~(k <= Len(stamps.times))  BY <1>2, <3>1
    <3> QED  BY <1>3, <2>1, <3>2
  <2>3. OfKind(tr', timed)  BY <1>6, <2>2 DEF OfKind
  <2>4. \A r \in 1..R : Stamp(tr', r) = Stamp(tr, r)
    BY <1>4, <2>1, <2>2 DEF Stamp, HasTimes
  <2>5. Stamp(tr', R + 1) = Stamp(stamps, k)
    BY <1>4, <2>1, <2>2 DEF Stamp, HasTimes
  <2> QED  BY <1>4, <2>3, <2>4, <2>5 DEF OneMore
<1> QED  BY <1>5, <1>6

(* When all have times or none has, a turn takes what is first.             *)
OldFirst ==
  /\ next_old <= Len(at.days) /\ OneMore(tr, tr', Stamp(at, next_old))
  /\ next_new <= Len(answer.days) => Before(Stamp(at, next_old), Stamp(answer, next_new))
  /\ next_old' = next_old + 1 /\ next_new' = next_new
NewFirst ==
  /\ next_new <= Len(answer.days) /\ OneMore(tr, tr', Stamp(answer, next_new))
  /\ next_old <= Len(at.days) => Before(Stamp(answer, next_new), Stamp(at, next_old))
  /\ next_new' = next_new + 1 /\ next_old' = next_old
BothAtOnce ==
  /\ next_old <= Len(at.days) /\ OneMore(tr, tr', Stamp(at, next_old))
  /\ next_new <= Len(answer.days) /\ Stamp(at, next_old) = Stamp(answer, next_new)
  /\ next_old' = next_old + 1 /\ next_new' = next_new + 1

LEMMA TurnOfKind ==
  ASSUME Output_Types, Merge_Types, Merge, NEW timed \in BOOLEAN,
         OfKind(at, timed), OfKind(answer, timed), OfKind(tr, timed)
  PROVE OfKind(tr', timed) /\ (OldFirst \/ NewFirst \/ BothAtOnce)
<1>1. stage = "merge"  BY DEF Merge
<1>2. /\ at \in Stamped /\ answer \in Stamped /\ tr \in Stamped
      /\ next_old \in Nat /\ next_new \in Nat /\ 1 <= next_old /\ 1 <= next_new
  BY <1>1, LoopTypes
<1>3. Len(at.days) \in Nat /\ Len(answer.days) \in Nat  BY <1>2, StampedDays
<1>4. tr' \in Stamped
  BY TurnOfLoop DEF OldOrBoth, NewAlone, RowAppended
<1>5. ASSUME OldLeft
      PROVE /\ next_old \in 1..Len(at.days) /\ at.days[next_old] \in Nat
            /\ Stamp(at, next_old) = <<at.days[next_old], IF timed THEN at.times[next_old] ELSE 0>>
            /\ OldHasTime <=> timed
            /\ OldRow => OfKind(tr', timed) /\ OneMore(tr, tr', Stamp(at, next_old))
  <2>1. next_old \in 1..Len(at.days)  BY <1>2, <1>3, <1>5 DEF OldLeft
  <2>2. at.days[next_old] \in Nat  BY <1>2, <2>1, StampedDays
  <2>3. Stamp(at, next_old) = <<at.days[next_old], IF timed THEN at.times[next_old] ELSE 0>>
    BY <1>2, <2>1, StampIs
  <2>4. OldHasTime <=> timed
    <3>1. CASE timed  BY <2>1, <3>1 DEF OfKind, OldHasTime
    <3>2. CASE ~timed
      <4>1. Len(at.times) = 0  BY <3>2 DEF OfKind
      <4> QED  BY <1>2, <3>2, <4>1 DEF OldHasTime
    <3> QED  BY <3>1, <3>2
  <2>5. OldRow => OfKind(tr', timed) /\ OneMore(tr, tr', Stamp(at, next_old))
    BY <1>2, <1>4, <2>1, KindAppended DEF OldRow
  <2> QED  BY <2>1, <2>2, <2>3, <2>4, <2>5
<1>6. ASSUME NewLeft
      PROVE /\ next_new \in 1..Len(answer.days) /\ answer.days[next_new] \in Nat
            /\ Stamp(answer, next_new) = <<answer.days[next_new], IF timed THEN answer.times[next_new] ELSE 0>>
            /\ NewHasTime <=> timed
            /\ NewRow => OfKind(tr', timed) /\ OneMore(tr, tr', Stamp(answer, next_new))
  <2>1. next_new \in 1..Len(answer.days)  BY <1>2, <1>3, <1>6 DEF NewLeft
  <2>2. answer.days[next_new] \in Nat  BY <1>2, <2>1, StampedDays
  <2>3. Stamp(answer, next_new) = <<answer.days[next_new], IF timed THEN answer.times[next_new] ELSE 0>>
    BY <1>2, <2>1, StampIs
  <2>4. NewHasTime <=> timed
    <3>1. CASE timed  BY <2>1, <3>1 DEF OfKind, NewHasTime
    <3>2. CASE ~timed
      <4>1. Len(answer.times) = 0  BY <3>2 DEF OfKind
      <4> QED  BY <1>2, <3>2, <4>1 DEF NewHasTime
    <3> QED  BY <3>1, <3>2
  <2>5. NewRow => OfKind(tr', timed) /\ OneMore(tr, tr', Stamp(answer, next_new))
    BY <1>2, <1>4, <2>1, KindAppended DEF NewRow
  <2> QED  BY <2>1, <2>2, <2>3, <2>4, <2>5
<1>7. CASE MergeOld
  <2>1. OldLeft /\ OldRow /\ next_new' = next_new /\ next_old' = next_old + 1
    BY <1>7 DEF MergeOld, OldRow
  <2>2. NewLeft => Before(Stamp(at, next_old), Stamp(answer, next_new))
    <3> SUFFICES ASSUME NewLeft PROVE Before(Stamp(at, next_old), Stamp(answer, next_new))
      OBVIOUS
    <3>1. \/ at.days[next_old] < answer.days[next_new]
          \/ /\ at.days[next_old] = answer.days[next_new]
             /\ timed /\ at.times[next_old] < answer.times[next_new]
      BY <1>6, <1>7 DEF MergeOld, SameDay
    <3> QED  BY <1>5, <1>6, <2>1, <3>1 DEF Before
  <2> QED  BY <1>5, <2>1, <2>2 DEF OldFirst, NewLeft, OldLeft
<1>8. CASE MergeNew
  <2>1. NewLeft /\ NewRow /\ next_old' = next_old /\ next_new' = next_new + 1
    BY <1>8 DEF MergeNew, NewRow
  <2>2. OldLeft => Before(Stamp(answer, next_new), Stamp(at, next_old))
    <3> SUFFICES ASSUME OldLeft PROVE Before(Stamp(answer, next_new), Stamp(at, next_old))
      OBVIOUS
    <3>1. \/ answer.days[next_new] < at.days[next_old]
          \/ /\ at.days[next_old] = answer.days[next_new]
             /\ timed /\ answer.times[next_new] < at.times[next_old]
      BY <1>5, <1>6, <1>8 DEF MergeNew, SameDay
    <3> QED  BY <1>5, <1>6, <2>1, <3>1 DEF Before
  <2> QED  BY <1>6, <2>1, <2>2 DEF NewFirst, NewLeft, OldLeft
<1>9. CASE MergeUntimed \/ MergeSame
  <2>1. /\ OldLeft /\ NewLeft /\ OldRow /\ next_old' = next_old + 1
        /\ at.days[next_old] = answer.days[next_new]
    BY <1>9 DEF MergeUntimed, MergeSame, SameDay, OldRow
  <2>2. next_new' = next_new + 1 /\ (timed => at.times[next_old] = answer.times[next_new])
    <3>1. CASE MergeSame  BY <3>1 DEF MergeSame
    <3>2. CASE MergeUntimed
      <4>1. ~timed  BY <1>6, <2>1, <3>2 DEF MergeUntimed
      <4>2. Len(at.times) = 0  BY <4>1 DEF OfKind
      <4>3. next_old' > Len(at.times)  BY <1>2, <2>1, <4>2
      <4> QED  BY <3>2, <4>1, <4>3 DEF MergeUntimed
    <3> QED  BY <1>9, <3>1, <3>2
  <2>3. Stamp(at, next_old) = Stamp(answer, next_new)
    <3>1. CASE timed  BY <1>5, <1>6, <2>1, <2>2, <3>1
    <3>2. CASE ~timed  BY <1>5, <1>6, <2>1, <3>2
    <3> QED  BY <3>1, <3>2
  <2> QED  BY <1>5, <2>1, <2>2, <2>3 DEF BothAtOnce, NewLeft, OldLeft
<1> QED  BY <1>7, <1>8, <1>9 DEF Merge


(* All stamps of t are before those of s from the k-th.                     *)
ComesFirst(t, s, k) ==
  \A r \in DOMAIN t.days : \A n \in DOMAIN s.days : n >= k => Before(Stamp(t, r), Stamp(s, n))

(* The stamps of s before the k-th.                                         *)
StampsUpTo(s, k) == {Stamp(s, n) : n \in {m \in DOMAIN s.days : m < k}}

LEMMA AppendAfter ==
  ASSUME NEW timed \in BOOLEAN, NEW t \in Stamped, OfKind(t, timed),
         NEW u \in Stamped, OfKind(u, timed), NEW stamp \in Moments, OneMore(t, u, stamp),
         Ordered(t), \A r \in DOMAIN t.days : Before(Stamp(t, r), stamp)
  PROVE /\ Ordered(u) /\ Stamps(u) = Stamps(t) \cup {stamp}
        /\ DOMAIN u.days = DOMAIN t.days \cup {Len(t.days) + 1}
<1> DEFINE R == Len(t.days)
<1>1. R \in Nat /\ DOMAIN t.days = 1..R /\ DOMAIN u.days = 1..(R + 1)
  BY StampedDays DEF OneMore
<1>2. DOMAIN u.days = DOMAIN t.days \cup {R + 1}  BY <1>1
<1>3. \A r \in 1..R : Stamp(u, r) = Stamp(t, r)  BY DEF OneMore
<1>4. Stamp(u, R + 1) = stamp  BY DEF OneMore
<1>5. Stamps(u) = Stamps(t) \cup {stamp}
  BY <1>1, <1>2, <1>3, <1>4 DEF Stamps
<1>6. Ordered(u)
  <2> SUFFICES ASSUME NEW m \in 1..(R + 1), NEW n \in 1..(R + 1), m < n
               PROVE Before(Stamp(u, m), Stamp(u, n))
    BY <1>1 DEF Ordered
  <2>1. m \in 1..R  BY <1>1
  <2>2. CASE n = R + 1  BY <1>1, <1>3, <1>4, <2>1, <2>2
  <2>3. CASE n # R + 1
    <3>1. n \in 1..R  BY <1>1, <2>3
    <3>2. Before(Stamp(t, m), Stamp(t, n))  BY <1>1, <2>1, <3>1 DEF Ordered
    <3> QED  BY <1>3, <2>1, <3>1, <3>2
  <2> QED  BY <2>2, <2>3
<1> QED  BY <1>2, <1>5, <1>6

LEMMA FirstOfMore ==
  ASSUME NEW timed \in BOOLEAN, NEW t \in Stamped, NEW u \in Stamped, NEW stamp, OneMore(t, u, stamp),
         NEW s \in Stamped, NEW k \in Nat, NEW l \in Nat, k <= l, ComesFirst(t, s, k),
         \A n \in DOMAIN s.days : n >= l => Before(stamp, Stamp(s, n))
  PROVE ComesFirst(u, s, l)
<1> DEFINE R == Len(t.days)
<1>1. R \in Nat /\ DOMAIN t.days = 1..R /\ DOMAIN u.days = 1..(R + 1)
  BY StampedDays DEF OneMore
<1>2. DOMAIN s.days \subseteq Nat  BY StampedDays
<1> SUFFICES ASSUME NEW r \in 1..(R + 1), NEW n \in DOMAIN s.days, n >= l
             PROVE Before(Stamp(u, r), Stamp(s, n))
  BY <1>1 DEF ComesFirst
<1>3. CASE r = R + 1  BY <1>3 DEF OneMore
<1>4. CASE r # R + 1
  <2>1. r \in 1..R /\ n >= k  BY <1>1, <1>2, <1>4
  <2>2. Before(Stamp(t, r), Stamp(s, n))  BY <1>1, <2>1 DEF ComesFirst
  <2> QED  BY <2>1, <2>2 DEF OneMore
<1> QED  BY <1>3, <1>4

(* A cursor moves on, or stays.                                             *)
LEMMA StampsUpToNext ==
  ASSUME NEW s \in Stamped, NEW k \in 1..Len(s.days)
  PROVE StampsUpTo(s, k + 1) = StampsUpTo(s, k) \cup {Stamp(s, k)}
<1>1. DOMAIN s.days = 1..Len(s.days) /\ Len(s.days) \in Nat  BY StampedDays
<1>2. {m \in DOMAIN s.days : m < k + 1} = {m \in DOMAIN s.days : m < k} \cup {k}  BY <1>1
<1> QED  BY <1>2 DEF StampsUpTo

(* A set of natural numbers that is not empty has a smallest one: their     *)
(* intervals are ordered by inclusion, which is well founded.               *)
LEMMA Smallest ==
  ASSUME NEW S, S \subseteq Nat, S # {}
  PROVE \E m \in S : \A k \in S : m <= k
<1> DEFINE R == StrictSubsetOrdering(Nat)
           T == {0..k : k \in S}
<1>1. T \subseteq FiniteSubsetsOf(Nat)
  <2>1. \A k \in S : IsFiniteSet(0..k) /\ 0..k \in SUBSET Nat  BY FS_Interval
  <2> QED  BY <2>1 DEF FiniteSubsetsOf
<1>2. T # {}  OBVIOUS
<1> HIDE DEF T
<1>3. PICK t \in T : \A u \in T : ~ (<<u, t>> \in R)
  BY <1>1, <1>2, FS_StrictSubsetOrderingWellFounded, WFMin
<1>4. PICK m \in S : t = 0..m  BY DEF T
<1>5. ASSUME NEW k \in S, k < m PROVE FALSE
  <2>1. 0..k \in T /\ 0..k \subseteq 0..m /\ 0..k # 0..m  BY <1>5 DEF T
  <2>2. <<0..k, t>> \in R  BY <2>1, <1>4 DEF StrictSubsetOrdering
  <2> QED  BY <2>1, <2>2, <1>3
<1> QED  BY <1>5

LEMMA MinIs ==
  ASSUME NEW S \in SUBSET Nat, NEW k \in S, \A l \in S : k <= l
  PROVE Min(S) = k
<1>1. \A x \in S : (\A y \in S : x <= y) => x = k
  <2> SUFFICES ASSUME NEW x \in S, \A y \in S : x <= y PROVE x = k  OBVIOUS
  <2>1. x <= k /\ k <= x /\ x \in Nat /\ k \in Nat  OBVIOUS
  <2> QED  BY <2>1
<1> QED  BY <1>1 DEF Min

(* The next datum is found by all that is before it.                        *)
LEMMA NextIs ==
  ASSUME NEW s \in Stamped, NEW k \in Nat, 1 <= k, k <= Len(s.days) + 1, NEW stamp,
         \A n \in DOMAIN s.days : n < k => Before(Stamp(s, n), stamp),
         k <= Len(s.days) => ~Before(Stamp(s, k), stamp)
  PROVE NextDatum(s, stamp) = IF k <= Len(s.days) THEN k ELSE Len(s.days)
<1> DEFINE from == {n \in DOMAIN s.days : ~Before(Stamp(s, n), stamp)}
<1>1. DOMAIN s.days = 1..Len(s.days) /\ Len(s.days) \in Nat  BY StampedDays
<1>2. NextDatum(s, stamp) = IF from = {} THEN Len(s.days) ELSE Min(from)
  BY DEF NextDatum
<1>3. CASE k <= Len(s.days)
  <2>1. k \in from  BY <1>1, <1>3
  <2>2. \A l \in from : k <= l  BY <1>1
  <2>3. from \in SUBSET Nat  BY <1>1
  <2>4. Min(from) = k  BY <2>1, <2>2, <2>3, MinIs
  <2> HIDE DEF from
  <2> QED  BY <1>2, <1>3, <2>1, <2>4
<1>4. CASE ~(k <= Len(s.days))
  <2>1. \A n \in DOMAIN s.days : n < k  BY <1>1, <1>4
  <2>2. from = {}  BY <2>1
  <2> HIDE DEF from
  <2> QED  BY <1>2, <1>4, <2>2
<1> QED  BY <1>3, <1>4

(* The next of a series that is all in the rows.                            *)
LEMMA NextOfNext ==
  ASSUME NEW timed \in BOOLEAN, NEW s \in Stamped, OfKind(s, timed), Ordered(s), Len(s.days) # 0,
         NEW a \in Stamped, OfKind(a, timed), Ordered(a), Len(a.days) # 0,
         Stamps(s) \subseteq Stamps(a), NEW stamp \in Moments
  PROVE /\ NextDatum(a, stamp) \in 1..Len(a.days)
        /\ NextDatum(s, Stamp(a, NextDatum(a, stamp))) = NextDatum(s, stamp)
<1> DEFINE from(x, p) == {n \in DOMAIN x.days : ~Before(Stamp(x, n), p)}
           k == NextDatum(a, stamp)
<1>1. /\ DOMAIN s.days = 1..Len(s.days) /\ Len(s.days) \in Nat
      /\ DOMAIN a.days = 1..Len(a.days) /\ Len(a.days) \in Nat
  BY StampedDays
<1>2. /\ \A n \in 1..Len(s.days) : Stamp(s, n) \in Moments
      /\ \A n \in 1..Len(a.days) : Stamp(a, n) \in Moments
  BY StampIs
<1>3. \A n \in 1..Len(s.days) : \E m \in 1..Len(a.days) : Stamp(s, n) = Stamp(a, m)
  BY <1>1 DEF Stamps
<1>4. CASE from(a, stamp) # {}
  <2>1. PICK m \in from(a, stamp) : \A l \in from(a, stamp) : m <= l
    <3>1. from(a, stamp) \subseteq Nat  BY <1>1
    <3> HIDE DEF from
    <3> QED  BY <1>4, <3>1, Smallest
  <2>2. m \in 1..Len(a.days) /\ ~Before(Stamp(a, m), stamp)  BY <1>1, <2>1
  <2>3. k = m
    <3>1. from(a, stamp) \in SUBSET Nat  BY <1>1
    <3>2. Min(from(a, stamp)) = m  BY <2>1, <3>1, MinIs
    <3> QED  BY <1>4, <3>2 DEF NextDatum
  <2>4. \A l \in 1..Len(a.days) : l < m => Before(Stamp(a, l), stamp)
    BY <1>1, <2>1, <2>2
  <2>5. from(s, Stamp(a, m)) = from(s, stamp)
    <3> SUFFICES ASSUME NEW n \in 1..Len(s.days)
                 PROVE Before(Stamp(s, n), Stamp(a, m)) <=> Before(Stamp(s, n), stamp)
      BY <1>1
    <3>1. PICK l \in 1..Len(a.days) : Stamp(s, n) = Stamp(a, l)  BY <1>3
    <3>2. l \in Int /\ m \in Int  BY <1>1, <2>2
    <3>3. CASE l < m
      <4>1. Before(Stamp(a, l), Stamp(a, m))  BY <1>1, <2>2, <3>3 DEF Ordered
      <4>2. Before(Stamp(a, l), stamp)  BY <2>4, <3>3
      <4> QED  BY <3>1, <4>1, <4>2
    <3>4. CASE l = m
      <4>1. ~Before(Stamp(a, m), Stamp(a, m))  BY <1>2, <2>2, BeforeIsOrder
      <4> QED  BY <2>2, <3>1, <3>4, <4>1
    <3>5. CASE m < l
      <4>1. Before(Stamp(a, m), Stamp(a, l))  BY <1>1, <2>2, <3>5 DEF Ordered
      <4>2. ~Before(Stamp(a, l), Stamp(a, m))  BY <1>2, <2>2, <4>1, BeforeIsOrder
      <4>3. ~Before(Stamp(a, l), stamp)
        BY <1>2, <2>2, <4>1, BeforeIsOrder
      <4> QED  BY <3>1, <4>2, <4>3
    <3> QED  BY <3>2, <3>3, <3>4, <3>5
  <2>6. NextDatum(s, Stamp(a, m)) = NextDatum(s, stamp)  BY <2>5 DEF NextDatum
  <2> HIDE DEF k
  <2> QED  BY <2>2, <2>3, <2>6 DEF k
<1>5. CASE from(a, stamp) = {}
  <2>1. k = Len(a.days)  BY <1>5 DEF NextDatum
  <2>2. k \in 1..Len(a.days)  BY <1>1, <2>1
  <2>3. \A n \in 1..Len(s.days) : Before(Stamp(s, n), stamp)  BY <1>1, <1>3, <1>5
  <2>4. NextDatum(s, stamp) = Len(s.days)
    <3>1. from(s, stamp) = {}  BY <1>1, <2>3
    <3> QED  BY <3>1 DEF NextDatum
  <2>5. ASSUME NEW n \in 1..Len(s.days), n < Len(s.days)
        PROVE Before(Stamp(s, n), Stamp(a, Len(a.days)))
    <3>1. Len(s.days) \in 1..Len(s.days) /\ Len(a.days) \in 1..Len(a.days)  BY <1>1
    <3>2. PICK l \in 1..Len(a.days) : Stamp(s, Len(s.days)) = Stamp(a, l)  BY <1>3, <3>1
    <3>3. Before(Stamp(s, n), Stamp(a, l))
      BY <1>1, <2>5, <3>1, <3>2 DEF Ordered
    <3>4. CASE l = Len(a.days)  BY <3>3, <3>4
    <3>5. CASE l < Len(a.days)
      <4>1. Before(Stamp(a, l), Stamp(a, Len(a.days)))  BY <1>1, <3>1, <3>5 DEF Ordered
      <4> QED  BY <1>2, <3>1, <3>3, <4>1, BeforeIsOrder
    <3> QED  BY <1>1, <3>4, <3>5
  <2>6. NextDatum(s, Stamp(a, Len(a.days))) = Len(s.days)
    <3>1. CASE Before(Stamp(s, Len(s.days)), Stamp(a, Len(a.days)))
      <4>1. \A n \in 1..Len(s.days) : n < Len(s.days) \/ n = Len(s.days)  BY <1>1
      <4>2. from(s, Stamp(a, Len(a.days))) = {}  BY <1>1, <2>5, <3>1, <4>1
      <4> QED  BY <4>2 DEF NextDatum
    <3>2. CASE ~Before(Stamp(s, Len(s.days)), Stamp(a, Len(a.days)))
      <4>1. 1 <= Len(s.days) /\ Len(s.days) <= Len(s.days) + 1 /\ Len(s.days) <= Len(s.days)  BY <1>1
      <4>2. \A n \in DOMAIN s.days : n < Len(s.days) => Before(Stamp(s, n), Stamp(a, Len(a.days)))
        BY <1>1, <2>5
      <4> QED  BY <1>1, <3>2, <4>1, <4>2, NextIs
    <3> QED  BY <3>1, <3>2
  <2> HIDE DEF k
  <2> QED  BY <2>1, <2>2, <2>4, <2>6 DEF k
<1> QED  BY <1>4, <1>5


(* The rows so far: the stamps that were taken, in order and before those   *)
(* that are left, each with the next data.                                  *)
StampsMerged ==
  /\ Ordered(tr)
  /\ ComesFirst(tr, at, next_old) /\ ComesFirst(tr, answer, next_new)
  /\ Stamps(tr) = StampsUpTo(at, next_old) \cup StampsUpTo(answer, next_new)

NextData ==
  \A r \in DOMAIN tr.days :
    /\ \A c \in 1..Len(X) : Xr[c][r] = X[c][NextDatum(at, Stamp(tr, r))]
    /\ Xr[Len(X) + 1][r] = NextDatum(answer, Stamp(tr, r))

(* The stamp of a turn is before all that is left, but for itself.          *)
LEMMA StampOfTurn ==
  ASSUME Output_Types, Merge_Types, Merge, NEW timed \in BOOLEAN,
         OfKind(at, timed), OfKind(answer, timed), OfKind(tr, timed),
         Ordered(at), Ordered(answer), StampsMerged
  PROVE \E stamp \in Moments :
          /\ OneMore(tr, tr', stamp)
          /\ \A r \in DOMAIN tr.days : Before(Stamp(tr, r), stamp)
          /\ \A n \in DOMAIN at.days : n >= next_old' => Before(stamp, Stamp(at, n))
          /\ \A n \in DOMAIN answer.days : n >= next_new' => Before(stamp, Stamp(answer, n))
          /\ \/ next_old' = next_old
             \/ next_old \in DOMAIN at.days /\ Stamp(at, next_old) = stamp /\ next_old' = next_old + 1
          /\ \/ next_new' = next_new
             \/ next_new \in DOMAIN answer.days /\ Stamp(answer, next_new) = stamp /\ next_new' = next_new + 1
          /\ next_old' # next_old \/ next_new' # next_new
<1>1. stage = "merge"  BY DEF Merge
<1>2. /\ at \in Stamped /\ answer \in Stamped /\ tr \in Stamped
      /\ next_old \in Nat /\ next_new \in Nat /\ 1 <= next_old /\ 1 <= next_new
  BY <1>1, LoopTypes
<1>3. /\ Len(at.days) \in Nat /\ DOMAIN at.days = 1..Len(at.days)
      /\ Len(answer.days) \in Nat /\ DOMAIN answer.days = 1..Len(answer.days)
  BY <1>2, StampedDays
<1>4. /\ \A n \in DOMAIN at.days : Stamp(at, n) \in Moments
      /\ \A n \in DOMAIN answer.days : Stamp(answer, n) \in Moments
  BY <1>2, <1>3, StampIs
<1>5. /\ \A k, n \in DOMAIN at.days : k < n => Before(Stamp(at, k), Stamp(at, n))
      /\ \A k, n \in DOMAIN answer.days : k < n => Before(Stamp(answer, k), Stamp(answer, n))
  BY DEF Ordered
<1>6. /\ \A r \in DOMAIN tr.days : \A n \in DOMAIN at.days :
           n >= next_old => Before(Stamp(tr, r), Stamp(at, n))
      /\ \A r \in DOMAIN tr.days : \A n \in DOMAIN answer.days :
           n >= next_new => Before(Stamp(tr, r), Stamp(answer, n))
  BY DEF StampsMerged, ComesFirst
<1>7. OldFirst \/ NewFirst \/ BothAtOnce  BY TurnOfKind
<1>8. ASSUME next_old \in DOMAIN at.days
      PROVE /\ \A r \in DOMAIN tr.days : Before(Stamp(tr, r), Stamp(at, next_old))
            /\ \A n \in DOMAIN at.days : n >= next_old + 1 => Before(Stamp(at, next_old), Stamp(at, n))
            /\ Stamp(at, next_old) \in Moments
  <2>1. next_old >= next_old  BY <1>2
  <2>2. \A n \in DOMAIN at.days : n >= next_old + 1 => next_old < n  BY <1>2, <1>3
  <2> QED  BY <1>4, <1>5, <1>6, <1>8, <2>1, <2>2
<1>9. ASSUME next_new \in DOMAIN answer.days
      PROVE /\ \A r \in DOMAIN tr.days : Before(Stamp(tr, r), Stamp(answer, next_new))
            /\ \A n \in DOMAIN answer.days :
                 n >= next_new + 1 => Before(Stamp(answer, next_new), Stamp(answer, n))
            /\ Stamp(answer, next_new) \in Moments
  <2>1. next_new >= next_new  BY <1>2
  <2>2. \A n \in DOMAIN answer.days : n >= next_new + 1 => next_new < n  BY <1>2, <1>3
  <2> QED  BY <1>4, <1>5, <1>6, <1>9, <2>1, <2>2
<1>10. CASE OldFirst
  <2>1. /\ next_old \in DOMAIN at.days /\ OneMore(tr, tr', Stamp(at, next_old))
        /\ next_old' = next_old + 1 /\ next_new' = next_new /\ next_old' # next_old
    BY <1>2, <1>3, <1>10 DEF OldFirst
  <2>2. ASSUME NEW n \in DOMAIN answer.days, n >= next_new
        PROVE Before(Stamp(at, next_old), Stamp(answer, n))
    <3>1. next_new \in DOMAIN answer.days /\ next_new <= Len(answer.days)  BY <1>2, <1>3, <2>2
    <3>2. Before(Stamp(at, next_old), Stamp(answer, next_new))  BY <1>10, <3>1 DEF OldFirst
    <3>3. CASE n = next_new  BY <3>2, <3>3
    <3>4. CASE next_new < n
      BY <1>4, <1>5, <2>1, <3>1, <3>2, <3>4, BeforeIsOrder
    <3> QED  BY <1>2, <1>3, <2>2, <3>3, <3>4
  <2> QED  BY <1>8, <2>1, <2>2
<1>11. CASE NewFirst
  <2>1. /\ next_new \in DOMAIN answer.days /\ OneMore(tr, tr', Stamp(answer, next_new))
        /\ next_new' = next_new + 1 /\ next_old' = next_old /\ next_new' # next_new
    BY <1>2, <1>3, <1>11 DEF NewFirst
  <2>2. ASSUME NEW n \in DOMAIN at.days, n >= next_old
        PROVE Before(Stamp(answer, next_new), Stamp(at, n))
    <3>1. next_old \in DOMAIN at.days /\ next_old <= Len(at.days)  BY <1>2, <1>3, <2>2
    <3>2. Before(Stamp(answer, next_new), Stamp(at, next_old))  BY <1>11, <3>1 DEF NewFirst
    <3>3. CASE n = next_old  BY <3>2, <3>3
    <3>4. CASE next_old < n
      BY <1>4, <1>5, <2>1, <3>1, <3>2, <3>4, BeforeIsOrder
    <3> QED  BY <1>2, <1>3, <2>2, <3>3, <3>4
  <2> QED  BY <1>9, <2>1, <2>2
<1>12. CASE BothAtOnce
  <2>1. /\ next_old \in DOMAIN at.days /\ OneMore(tr, tr', Stamp(at, next_old))
        /\ next_new \in DOMAIN answer.days /\ Stamp(at, next_old) = Stamp(answer, next_new)
        /\ next_new' = next_new + 1 /\ next_old' = next_old + 1 /\ next_new' # next_new
    BY <1>2, <1>3, <1>12 DEF BothAtOnce
  <2> QED  BY <1>8, <1>9, <2>1
<1> QED  BY <1>7, <1>10, <1>11, <1>12

LEMMA TurnMergesStamps ==
  ASSUME Output_Types, Merge_Types, Merge, NEW timed \in BOOLEAN,
         OfKind(at, timed), OfKind(answer, timed), OfKind(tr, timed),
         Ordered(at), Ordered(answer), StampsMerged, NextData, Len(at.days) # 0
  PROVE OfKind(tr', timed) /\ StampsMerged' /\ NextData'
<1> DEFINE R == Len(tr.days)
<1>1. /\ stage = "merge" /\ UNCHANGED <<stage, answers, at, X>> /\ answer' = answer
      /\ OldOrBoth \/ NewAlone
  BY TurnOfLoop
<1>2. /\ at \in Stamped /\ answer \in Stamped /\ tr \in Stamped
      /\ next_old \in Nat /\ next_new \in Nat /\ 1 <= next_old /\ 1 <= next_new
      /\ next_old <= Len(at.days) + 1 /\ next_new <= Len(answer.days) + 1
  BY <1>1, LoopTypes
<1>3. /\ tr' \in Stamped /\ OfKind(tr', timed)
  BY <1>1, TurnOfKind DEF OldOrBoth, NewAlone, RowAppended
<1>4. PICK stamp \in Moments :
        /\ OneMore(tr, tr', stamp)
        /\ \A r \in DOMAIN tr.days : Before(Stamp(tr, r), stamp)
        /\ \A n \in DOMAIN at.days : n >= next_old' => Before(stamp, Stamp(at, n))
        /\ \A n \in DOMAIN answer.days : n >= next_new' => Before(stamp, Stamp(answer, n))
        /\ \/ next_old' = next_old
           \/ next_old \in DOMAIN at.days /\ Stamp(at, next_old) = stamp /\ next_old' = next_old + 1
        /\ \/ next_new' = next_new
           \/ next_new \in DOMAIN answer.days /\ Stamp(answer, next_new) = stamp /\ next_new' = next_new + 1
        /\ next_old' # next_old \/ next_new' # next_new
  BY StampOfTurn
<1>5. Ordered(tr) /\ ComesFirst(tr, at, next_old) /\ ComesFirst(tr, answer, next_new)
  BY DEF StampsMerged
<1>6. /\ Ordered(tr') /\ Stamps(tr') = Stamps(tr) \cup {stamp}
      /\ DOMAIN tr'.days = DOMAIN tr.days \cup {R + 1}
  BY <1>2, <1>3, <1>4, <1>5, AppendAfter
<1>7. /\ next_old' \in Nat /\ next_new' \in Nat /\ next_old <= next_old' /\ next_new <= next_new'
  BY <1>2, <1>4
<1>8. ComesFirst(tr', at, next_old')
  BY <1>2, <1>3, <1>4, <1>5, <1>7, FirstOfMore
<1>9. ComesFirst(tr', answer, next_new')
  BY <1>2, <1>3, <1>4, <1>5, <1>7, FirstOfMore
<1>10. Stamps(tr') = StampsUpTo(at, next_old') \cup StampsUpTo(answer, next_new')
  <2>1. /\ DOMAIN at.days = 1..Len(at.days) /\ DOMAIN answer.days = 1..Len(answer.days)
    BY <1>2, StampedDays
  <2>2. \/ next_old' = next_old
        \/ StampsUpTo(at, next_old') = StampsUpTo(at, next_old) \cup {stamp}
    BY <1>2, <1>4, <2>1, StampsUpToNext
  <2>3. \/ next_new' = next_new
        \/ StampsUpTo(answer, next_new') = StampsUpTo(answer, next_new) \cup {stamp}
    BY <1>2, <1>4, <2>1, StampsUpToNext
  <2>4. Stamps(tr) = StampsUpTo(at, next_old) \cup StampsUpTo(answer, next_new)
    BY DEF StampsMerged
  <2>5. next_old' # next_old \/ next_new' # next_new  BY <1>4
  <2> QED  BY <1>6, <2>2, <2>3, <2>4, <2>5
<1>11. StampsMerged'  BY <1>1, <1>6, <1>8, <1>9, <1>10 DEF StampsMerged
<1>12. ASSUME NEW s \in Stamped, NEW k \in Nat, NEW l \in Nat, 1 <= k, k <= Len(s.days) + 1,
              StampsUpTo(s, k) \subseteq Stamps(tr), OfKind(s, timed),
              \A n \in DOMAIN s.days : n >= l => Before(stamp, Stamp(s, n)),
              \/ l = k
              \/ k \in DOMAIN s.days /\ Stamp(s, k) = stamp /\ l = k + 1
       PROVE NextDatum(s, stamp) = IF k <= Len(s.days) THEN k ELSE Len(s.days)
  <2>1. DOMAIN s.days = 1..Len(s.days) /\ Len(s.days) \in Nat  BY StampedDays
  <2>2. \A n \in DOMAIN s.days : n < k => Before(Stamp(s, n), stamp)
    <3> SUFFICES ASSUME NEW n \in DOMAIN s.days, n < k PROVE Before(Stamp(s, n), stamp)
      OBVIOUS
    <3>1. Stamp(s, n) \in Stamps(tr)  BY <1>12 DEF StampsUpTo
    <3>2. PICK r \in DOMAIN tr.days : Stamp(s, n) = Stamp(tr, r)  BY <3>1 DEF Stamps
    <3> QED  BY <1>4, <3>2
  <2>3. k <= Len(s.days) => ~Before(Stamp(s, k), stamp)
    <3> SUFFICES ASSUME k <= Len(s.days) PROVE ~Before(Stamp(s, k), stamp)  OBVIOUS
    <3>1. k \in DOMAIN s.days /\ k >= k  BY <1>12, <2>1
    <3>2. Stamp(s, k) \in Moments  BY <1>12, <2>1, <3>1, StampIs
    <3>3. CASE l = k  BY <1>12, <3>1, <3>2, <3>3, BeforeIsOrder
    <3>4. CASE Stamp(s, k) = stamp  BY <3>2, <3>4, BeforeIsOrder
    <3> QED  BY <1>12, <3>3, <3>4
  <2> QED  BY <1>12, <2>2, <2>3, NextIs
<1>13. StampsUpTo(at, next_old) \subseteq Stamps(tr) /\ StampsUpTo(answer, next_new) \subseteq Stamps(tr)
  BY DEF StampsMerged
<1>14. NextDatum(at, stamp) = IF next_old <= Len(at.days) THEN next_old ELSE Len(at.days)
  BY <1>2, <1>4, <1>7, <1>12, <1>13
<1>15. NextDatum(answer, stamp) = IF next_new <= Len(answer.days) THEN next_new ELSE Len(answer.days)
  BY <1>2, <1>4, <1>7, <1>12, <1>13
<1>16. PICK stamps, k : RowAppended(stamps, k)  BY <1>1 DEF OldOrBoth, NewAlone
<1>17. /\ \A c \in 1..Len(X) : \A r \in 1..R : Xr'[c][r] = Xr[c][r]
       /\ \A r \in 1..R : Xr'[Len(X) + 1][r] = Xr[Len(X) + 1][r]
       /\ \A c \in 1..Len(X) : Xr'[c][R + 1] = Datum(X[c], next_old)
       /\ Xr'[Len(X) + 1][R + 1] = Datum(Data(answer), next_new)
  BY <1>16 DEF RowAppended
<1>18. /\ \A c \in 1..Len(X) : Xr'[c][R + 1] = X[c][NextDatum(at, stamp)]
       /\ Xr'[Len(X) + 1][R + 1] = NextDatum(answer, stamp)
  BY <1>1, <1>14, <1>15, <1>17, DatumIs
<1>19. DOMAIN tr.days = 1..R  BY <1>2, StampedDays
<1>20. Stamp(tr', R + 1) = stamp /\ \A r \in 1..R : Stamp(tr', r) = Stamp(tr, r)
  BY <1>4 DEF OneMore
<1>21. \A r \in DOMAIN tr'.days :
         /\ \A c \in 1..Len(X) : Xr'[c][r] = X[c][NextDatum(at, Stamp(tr', r))]
         /\ Xr'[Len(X) + 1][r] = NextDatum(answer, Stamp(tr', r))
  <2> SUFFICES ASSUME NEW r \in DOMAIN tr'.days
               PROVE /\ \A c \in 1..Len(X) : Xr'[c][r] = X[c][NextDatum(at, Stamp(tr', r))]
                     /\ Xr'[Len(X) + 1][r] = NextDatum(answer, Stamp(tr', r))
    OBVIOUS
  <2>1. CASE r = R + 1  BY <1>18, <1>20, <2>1
  <2>2. CASE r \in 1..R
    <3>1. /\ \A c \in 1..Len(X) : Xr[c][r] = X[c][NextDatum(at, Stamp(tr, r))]
          /\ Xr[Len(X) + 1][r] = NextDatum(answer, Stamp(tr, r))
      BY <1>19, <2>2 DEF NextData
    <3> QED  BY <1>17, <1>20, <2>2, <3>1
  <2> QED  BY <1>6, <1>19, <2>1, <2>2
<1>22. at' = at /\ X' = X /\ answer' = answer  BY <1>1
<1>23. NextData'  BY <1>21, <1>22 DEF NextData
<1> QED  BY <1>3, <1>11, <1>23


-----------------------------------------------------------------------------
(* A series without times beside one with times.                            *)

LEMMA OrderedWithoutTimes ==
  ASSUME NEW s \in Stamped, Ordered(s), s.times = <<>>,
         NEW m \in 1..Len(s.days), NEW n \in 1..Len(s.days)
  PROVE /\ m < n => s.days[m] < s.days[n]
        /\ s.days[m] = s.days[n] => m = n
<1>1. \A k \in 1..Len(s.days) : Stamp(s, k) = <<s.days[k], 0>>  BY DEF Stamp, HasTimes
<1>2. DOMAIN s.days = 1..Len(s.days) /\ Len(s.days) \in Nat
      /\ \A k \in 1..Len(s.days) : s.days[k] \in Nat
  BY StampedDays
<1>3. ASSUME NEW k \in 1..Len(s.days), NEW l \in 1..Len(s.days), k < l
      PROVE s.days[k] < s.days[l]
  <2>1. Before(<<s.days[k], 0>>, <<s.days[l], 0>>)  BY <1>1, <1>2, <1>3 DEF Ordered
  <2> QED  BY <2>1 DEF Before
<1>4. m < n \/ m = n \/ n < m  BY <1>2
<1>5. s.days[m] \in Nat /\ s.days[n] \in Nat  BY <1>2
<1> QED  BY <1>3, <1>4, <1>5

(* The rows have no time, the datum that is merged has.                     *)
OldUntimed ==
  /\ Ordered(at) /\ at.times = <<>> /\ HasTimes(answer)
  /\ Len(X) = 1 /\ \A n \in DOMAIN at.days : X[1][n] = n
OldInAll ==
  /\ \A r \in DOMAIN tr.days : \A n \in DOMAIN at.days : tr.days[r] = at.days[n] => Xr[1][r] = n
  /\ \A m \in DOMAIN at.days : \A k \in DOMAIN answer.days :
       m < next_old /\ k >= next_new => at.days[m] < answer.days[k]

(* And the other way round.                                                 *)
NewUntimed == Ordered(answer) /\ ~HasTimes(answer) /\ Len(at.times) = Len(at.days)
NewInAll ==
  /\ \A r \in DOMAIN tr.days : \A n \in DOMAIN answer.days :
       tr.days[r] = answer.days[n] => Xr[Len(X) + 1][r] = n
  /\ \A m \in DOMAIN answer.days : \A k \in DOMAIN at.days :
       m < next_new /\ k >= next_old => answer.days[m] < at.days[k]

LEMMA TurnOldInAll ==
  ASSUME Output_Types, Merge_Types, Merge, InOrder(at.days), OldUntimed, OldInAll
  PROVE OldInAll'
<1> DEFINE R == Len(tr.days)
           O == at.days
           D == answer.days
<1>1. /\ stage = "merge" /\ UNCHANGED <<stage, answers, at, X>> /\ answer' = answer
      /\ OldOrBoth \/ NewAlone
  BY TurnOfLoop
<1>2. /\ at \in Stamped /\ answer \in Stamped /\ tr \in Stamped /\ answer \in Series
      /\ next_old \in Nat /\ next_new \in Nat /\ 1 <= next_old /\ 1 <= next_new
  BY <1>1, LoopTypes
<1>3. /\ Len(O) \in Nat /\ DOMAIN O = 1..Len(O) /\ \A k \in 1..Len(O) : O[k] \in Nat
      /\ Len(D) \in Nat /\ DOMAIN D = 1..Len(D) /\ \A k \in 1..Len(D) : D[k] \in Nat
      /\ R \in Nat /\ DOMAIN tr.days = 1..R
  BY <1>2, StampedDays
<1>4. InOrder(D) /\ Len(answer.times) = Len(D)
  BY <1>2, SeriesOrder DEF OldUntimed, HasTimes
<1>5. ~OldHasTime /\ (next_new <= Len(D) => NewHasTime)
  <2>1. Len(at.times) = 0  BY DEF OldUntimed
  <2> QED  BY <1>2, <1>4, <2>1 DEF OldHasTime, NewHasTime
<1>6. \A m \in 1..Len(O) : \A k \in 1..Len(D) : m < next_old /\ k >= next_new => O[m] < D[k]
  BY <1>3 DEF OldInAll
<1>7. PICK day1, stamps, k1 :
        /\ RowAppended(stamps, k1) /\ day1 = stamps.days[k1] /\ day1 \in Nat
        /\ \A n \in 1..Len(O) : day1 = O[n] => n = next_old
        /\ next_new' \in Nat /\ next_new' >= next_new
        /\ \/ next_old' = next_old
           \/ /\ next_old' = next_old + 1
              /\ \A k \in 1..Len(D) : k >= next_new => O[next_old] < D[k]
  <2>1. CASE OldOrBoth
    <3>1. next_old \in 1..Len(O)  BY <1>2, <1>3, <2>1 DEF OldOrBoth
    <3>2. \A n \in 1..Len(O) : O[next_old] = O[n] => n = next_old
      BY <1>2, <3>1, OrderedWithoutTimes DEF OldUntimed
    <3>3. next_new <= Len(D) => O[next_old] < D[next_new]
      <4> SUFFICES ASSUME next_new <= Len(D), ~(O[next_old] < D[next_new]) PROVE FALSE
        OBVIOUS
      <4>1. next_new \in 1..Len(D) /\ OldLeft /\ NewLeft
        BY <1>2, <1>3, <3>1 DEF OldLeft, NewLeft
      <4>2. ~MergeOld  BY <1>5, <4>1 DEF MergeOld
      <4>3. ~MergeUntimed /\ ~MergeSame  BY <1>5 DEF MergeUntimed, MergeSame
      <4>4. ~MergeNew
        <5>1. next_old' = next_old + 1  BY <2>1 DEF OldOrBoth
        <5> QED  BY <1>2, <5>1 DEF MergeNew
      <4> QED  BY <4>2, <4>3, <4>4 DEF Merge
    <3>4. \A k \in 1..Len(D) : k >= next_new => O[next_old] < D[k]
      <4> SUFFICES ASSUME NEW k \in 1..Len(D), k >= next_new PROVE O[next_old] < D[k]
        OBVIOUS
      <4>1. next_new \in 1..Len(D) /\ next_new <= Len(D)  BY <1>2, <1>3
      <4>2. D[next_new] <= D[k]  BY <1>2, <1>4, <4>1, InOrderFrom
      <4>3. D[next_new] \in Nat /\ D[k] \in Nat /\ O[next_old] \in Nat  BY <1>3, <3>1, <4>1
      <4> QED  BY <3>3, <4>1, <4>2, <4>3
    <3>5. next_new' \in Nat /\ next_new' >= next_new /\ next_old' = next_old + 1
      BY <1>2, <2>1 DEF OldOrBoth
    <3>6. RowAppended(at, next_old) /\ O[next_old] \in Nat  BY <1>3, <2>1, <3>1 DEF OldOrBoth
    <3> QED  BY <3>2, <3>4, <3>5, <3>6
  <2>2. CASE NewAlone
    <3>1. next_new \in 1..Len(D)  BY <1>2, <1>3, <2>2 DEF NewAlone
    <3>2. \A n \in 1..Len(O) : D[next_new] = O[n] => n = next_old
      <4> SUFFICES ASSUME NEW n \in 1..Len(O), D[next_new] = O[n] PROVE n = next_old  OBVIOUS
      <4>1. D[next_new] \in Nat /\ O[n] \in Nat /\ next_new >= next_new  BY <1>2, <1>3, <3>1
      <4>2. ~(n < next_old)  BY <1>6, <3>1, <4>1
      <4>3. next_old \in 1..Len(O) /\ next_old <= n  BY <1>2, <1>3, <4>2
      <4>4. D[next_new] <= O[next_old]  BY <2>2, <4>3 DEF NewAlone
      <4>5. O[next_old] <= O[n]  BY <1>2, <4>3, InOrderFrom
      <4>6. O[next_old] = O[n]  BY <1>3, <4>1, <4>3, <4>4, <4>5
      <4> QED  BY <1>2, <4>3, <4>6, OrderedWithoutTimes DEF OldUntimed
    <3>3. /\ next_new' \in Nat /\ next_new' >= next_new /\ next_old' = next_old
          /\ RowAppended(answer, next_new) /\ D[next_new] \in Nat
      BY <1>2, <1>3, <2>2, <3>1 DEF NewAlone
    <3> QED  BY <3>2, <3>3
  <2> QED  BY <1>1, <2>1, <2>2
<1>8. /\ DOMAIN tr'.days = 1..(R + 1) /\ tr'.days[R + 1] = day1
      /\ \A r \in 1..R : tr'.days[r] = tr.days[r]
  BY <1>7, StampedDays DEF RowAppended
<1>9. Len(X) = 1 /\ 1 \in 1..Len(X)  BY DEF OldUntimed
<1>10. Xr'[1][R + 1] = Datum(X[1], next_old) /\ \A r \in 1..R : Xr'[1][r] = Xr[1][r]
  BY <1>7, <1>9 DEF RowAppended
<1>11. next_old \in 1..Len(O) => Xr'[1][R + 1] = next_old
  <2> SUFFICES ASSUME next_old \in 1..Len(O) PROVE Xr'[1][R + 1] = next_old  OBVIOUS
  <2>1. next_old <= Len(O)  BY <1>3
  <2>2. Datum(X[1], next_old) = X[1][next_old]  BY <1>1, <1>9, <2>1, DatumIs
  <2>3. X[1][next_old] = next_old  BY <1>3 DEF OldUntimed
  <2> QED  BY <1>10, <2>2, <2>3
<1>12. ASSUME NEW r \in 1..(R + 1), NEW n \in 1..Len(O), tr'.days[r] = O[n]
       PROVE Xr'[1][r] = n
  <2>1. CASE r = R + 1  BY <1>7, <1>8, <1>11, <1>12, <2>1
  <2>2. CASE r \in 1..R
    <3>1. tr.days[r] = O[n]  BY <1>8, <1>12, <2>2
    <3>2. Xr[1][r] = n  BY <1>3, <2>2, <3>1 DEF OldInAll
    <3> QED  BY <1>10, <2>2, <3>2
  <2> QED  BY <1>3, <2>1, <2>2
<1>13. ASSUME NEW m \in 1..Len(O), NEW k \in 1..Len(D), m < next_old', k >= next_new'
       PROVE O[m] < D[k]
  <2>1. k >= next_new  BY <1>2, <1>3, <1>7, <1>13
  <2>2. CASE m < next_old  BY <1>6, <2>1, <2>2
  <2>3. CASE ~(m < next_old)
    <3>1. m = next_old /\ next_old' = next_old + 1 /\ next_old' # next_old
      BY <1>2, <1>3, <1>7, <1>13, <2>3
    <3> QED  BY <1>7, <2>1, <3>1
  <2> QED  BY <2>2, <2>3
<1>14. at' = at /\ answer' = answer  BY <1>1
<1>15. \A r \in DOMAIN tr'.days : \A n \in DOMAIN at.days : tr'.days[r] = at.days[n] => Xr'[1][r] = n
  BY <1>3, <1>8, <1>12
<1>16. \A m \in DOMAIN at.days : \A k \in DOMAIN answer.days :
         m < next_old' /\ k >= next_new' => at.days[m] < answer.days[k]
  BY <1>3, <1>13
<1> QED  BY <1>14, <1>15, <1>16 DEF OldInAll

LEMMA TurnNewInAll ==
  ASSUME Output_Types, Merge_Types, Merge, InOrder(at.days), NewUntimed, NewInAll
  PROVE NewInAll'
<1> DEFINE R == Len(tr.days)
           O == at.days
           D == answer.days
<1>1. /\ stage = "merge" /\ UNCHANGED <<stage, answers, at, X>> /\ answer' = answer
      /\ OldOrBoth \/ NewAlone
  BY TurnOfLoop
<1>2. /\ at \in Stamped /\ answer \in Stamped /\ tr \in Stamped /\ answer \in Series
      /\ next_old \in Nat /\ next_new \in Nat /\ 1 <= next_old /\ 1 <= next_new
  BY <1>1, LoopTypes
<1>3. /\ Len(O) \in Nat /\ DOMAIN O = 1..Len(O) /\ \A k \in 1..Len(O) : O[k] \in Nat
      /\ Len(D) \in Nat /\ DOMAIN D = 1..Len(D) /\ \A k \in 1..Len(D) : D[k] \in Nat
      /\ R \in Nat /\ DOMAIN tr.days = 1..R
  BY <1>2, StampedDays
<1>4. InOrder(D)  BY <1>2, SeriesOrder
<1>5. ~NewHasTime
  <2>1. Len(answer.times) = 0  BY DEF NewUntimed, HasTimes
  <2> QED  BY <1>2, <2>1 DEF NewHasTime
<1>6. \A m \in 1..Len(D) : \A k \in 1..Len(O) : m < next_new /\ k >= next_old => D[m] < O[k]
  BY <1>3 DEF NewInAll
<1>7. answer.times = <<>> /\ Ordered(answer)  BY DEF NewUntimed, HasTimes
<1>8. PICK day1, stamps, k1 :
        /\ RowAppended(stamps, k1) /\ day1 = stamps.days[k1] /\ day1 \in Nat
        /\ \A n \in 1..Len(D) : day1 = D[n] => n = next_new
        /\ next_old' \in Nat /\ next_old' >= next_old
        /\ \/ next_new' = next_new
           \/ /\ next_new' = next_new + 1
              /\ \A k \in 1..Len(O) : k >= next_old' => D[next_new] < O[k]
  <2>1. CASE OldOrBoth
    <3>1. next_old \in 1..Len(O)  BY <1>2, <1>3, <2>1 DEF OldOrBoth
    <3>2. \A n \in 1..Len(D) : O[next_old] = D[n] => n = next_new
      <4> SUFFICES ASSUME NEW n \in 1..Len(D), O[next_old] = D[n] PROVE n = next_new  OBVIOUS
      <4>1. D[n] \in Nat /\ O[next_old] \in Nat /\ next_old >= next_old  BY <1>2, <1>3, <3>1
      <4>2. ~(n < next_new)  BY <1>6, <3>1, <4>1
      <4>3. next_new \in 1..Len(D) /\ next_new <= Len(D) /\ next_new <= n  BY <1>2, <1>3, <4>2
      <4>4. O[next_old] <= D[next_new]  BY <2>1, <4>3 DEF OldOrBoth
      <4>5. D[next_new] <= D[n]  BY <1>2, <1>4, <4>3, InOrderFrom
      <4>6. D[next_new] = D[n]  BY <1>3, <4>1, <4>3, <4>4, <4>5
      <4> QED  BY <1>2, <1>7, <4>3, <4>6, OrderedWithoutTimes
    <3>3. next_old' \in Nat /\ next_old' >= next_old /\ next_old' = next_old + 1
      BY <1>2, <2>1 DEF OldOrBoth
    <3>4. next_new' # next_new => \A k \in 1..Len(O) : ~(k >= next_old')
      <4> SUFFICES ASSUME next_new' # next_new PROVE \A k \in 1..Len(O) : ~(k >= next_old')
        OBVIOUS
      <4>1. ~MergeOld /\ ~MergeSame  BY <1>5 DEF MergeOld, MergeSame
      <4>2. ~MergeNew  BY <1>2, <3>3 DEF MergeNew
      <4>3. MergeUntimed  BY <4>1, <4>2 DEF Merge
      <4>4. next_old' > Len(at.times)  BY <4>3 DEF MergeUntimed
      <4>5. next_old' > Len(O)  BY <4>4 DEF NewUntimed
      <4> QED  BY <1>3, <3>3, <4>5
    <3>5. next_new' = next_new \/ next_new' = next_new + 1  BY <2>1 DEF OldOrBoth
    <3>6. RowAppended(at, next_old) /\ O[next_old] \in Nat  BY <1>3, <2>1, <3>1 DEF OldOrBoth
    <3> QED  BY <3>2, <3>3, <3>4, <3>5, <3>6
  <2>2. CASE NewAlone
    <3>1. next_new \in 1..Len(D)  BY <1>2, <1>3, <2>2 DEF NewAlone
    <3>2. \A n \in 1..Len(D) : D[next_new] = D[n] => n = next_new
      BY <1>2, <1>7, <3>1, OrderedWithoutTimes
    <3>3. next_old <= Len(O) => D[next_new] < O[next_old]
      <4> SUFFICES ASSUME next_old <= Len(O), ~(D[next_new] < O[next_old]) PROVE FALSE
        OBVIOUS
      <4>1. next_old \in 1..Len(O) /\ OldLeft /\ NewLeft
        BY <1>2, <1>3, <3>1 DEF OldLeft, NewLeft
      <4>2. next_old' = next_old /\ next_old + 1 # next_old  BY <1>2, <2>2 DEF NewAlone
      <4>3. ~MergeNew  BY <1>5, <4>1 DEF MergeNew
      <4>4. ~MergeOld /\ ~MergeUntimed /\ ~MergeSame
        BY <4>2 DEF MergeOld, MergeUntimed, MergeSame, OldRow
      <4> QED  BY <4>3, <4>4 DEF Merge
    <3>4. \A k \in 1..Len(O) : k >= next_old => D[next_new] < O[k]
      <4> SUFFICES ASSUME NEW k \in 1..Len(O), k >= next_old PROVE D[next_new] < O[k]
        OBVIOUS
      <4>1. next_old \in 1..Len(O) /\ next_old <= Len(O)  BY <1>2, <1>3
      <4>2. O[next_old] <= O[k]  BY <1>2, <4>1, InOrderFrom
      <4>3. O[next_old] \in Nat /\ O[k] \in Nat /\ D[next_new] \in Nat  BY <1>3, <3>1, <4>1
      <4> QED  BY <3>3, <4>1, <4>2, <4>3
    <3>5. /\ next_new' = next_new + 1 /\ next_old' = next_old /\ next_old' \in Nat /\ next_old' >= next_old
          /\ RowAppended(answer, next_new) /\ D[next_new] \in Nat
      BY <1>2, <1>3, <2>2, <3>1 DEF NewAlone
    <3> QED  BY <3>2, <3>4, <3>5
  <2> QED  BY <1>1, <2>1, <2>2
<1>9. /\ DOMAIN tr'.days = 1..(R + 1) /\ tr'.days[R + 1] = day1
      /\ \A r \in 1..R : tr'.days[r] = tr.days[r]
      /\ Xr'[Len(X) + 1][R + 1] = Datum(Data(answer), next_new)
      /\ \A r \in 1..R : Xr'[Len(X) + 1][r] = Xr[Len(X) + 1][r]
  BY <1>8, StampedDays DEF RowAppended
<1>10. next_new \in 1..Len(D) => Xr'[Len(X) + 1][R + 1] = next_new
  <2> SUFFICES ASSUME next_new \in 1..Len(D) PROVE Xr'[Len(X) + 1][R + 1] = next_new  OBVIOUS
  <2>1. next_new <= Len(D)  BY <1>3
  <2>2. Datum(Data(answer), next_new) = next_new  BY <1>1, <2>1, DatumIs
  <2> QED  BY <1>9, <2>2
<1>11. ASSUME NEW r \in 1..(R + 1), NEW n \in 1..Len(D), tr'.days[r] = D[n]
       PROVE Xr'[Len(X) + 1][r] = n
  <2>1. CASE r = R + 1  BY <1>8, <1>9, <1>10, <1>11, <2>1
  <2>2. CASE r \in 1..R
    <3>1. tr.days[r] = D[n]  BY <1>9, <1>11, <2>2
    <3>2. Xr[Len(X) + 1][r] = n  BY <1>3, <2>2, <3>1 DEF NewInAll
    <3> QED  BY <1>9, <2>2, <3>2
  <2>3. r = R + 1 \/ r \in 1..R  BY <1>3
  <2> QED  BY <2>1, <2>2, <2>3
<1>12. ASSUME NEW m \in 1..Len(D), NEW k \in 1..Len(O), m < next_new', k >= next_old'
       PROVE D[m] < O[k]
  <2>1. k >= next_old  BY <1>2, <1>3, <1>8, <1>12
  <2>2. CASE m < next_new  BY <1>6, <2>1, <2>2
  <2>3. CASE ~(m < next_new)
    <3>1. m = next_new /\ next_new' = next_new + 1 /\ next_new' # next_new
      BY <1>2, <1>3, <1>8, <1>12, <2>3
    <3> QED  BY <1>8, <1>12, <3>1
  <2> QED  BY <2>2, <2>3
<1>13. at' = at /\ answer' = answer /\ X' = X  BY <1>1
<1>14. \A r \in DOMAIN tr'.days : \A n \in DOMAIN answer.days :
         tr'.days[r] = answer.days[n] => Xr'[Len(X) + 1][r] = n
  BY <1>3, <1>9, <1>11
<1>15. \A m \in DOMAIN answer.days : \A k \in DOMAIN at.days :
         m < next_new' /\ k >= next_old' => answer.days[m] < at.days[k]
  BY <1>3, <1>12
<1> QED  BY <1>13, <1>14, <1>15 DEF NewInAll


-----------------------------------------------------------------------------
(* What RowsOfAll says, of any rows.                                        *)

AllOrdered(cols, list, timed) ==
  \A c \in DOMAIN cols : Ordered(list[c]) /\ HasTimes(list[c]) = timed

(* The rows are the stamps of all series, with the next datum of each.      *)
RowsOfStamps(stamps, cols, list) ==
  /\ Ordered(stamps) /\ Stamps(stamps) = UNION {Stamps(list[c]) : c \in DOMAIN cols}
  /\ \A c \in DOMAIN cols : \A r \in DOMAIN stamps.days :
       cols[c][r] = NextDatum(list[c], Stamp(stamps, r))

InAllRows(stamps, cols, list, c) ==
  Ordered(list[c]) /\ ~HasTimes(list[c]) /\ HasTimes(list[3 - c]) =>
    \A r \in DOMAIN stamps.days : \A n \in DOMAIN list[c].days :
      stamps.days[r] = list[c].days[n] => cols[c][r] = n

RowsAre(stamps, cols, list) ==
  /\ InOrder(stamps.days)
  /\ EachHasARow(stamps, cols, list)
  /\ \A timed \in BOOLEAN :
       (\A c \in DOMAIN cols : HasTimes(list[c]) = timed) => OfKind(stamps, timed)
  /\ \A timed \in BOOLEAN : AllOrdered(cols, list, timed) => RowsOfStamps(stamps, cols, list)
  /\ Len(cols) = 2 => InAllRows(stamps, cols, list, 1) /\ InAllRows(stamps, cols, list, 2)
  /\ stamps.days # <<>> => \A c \in DOMAIN cols : list[c].days # <<>>

(* Of one series.                                                           *)
LEMMA RowsOfOne ==
  ASSUME NEW s \in Series
  PROVE RowsAre(s, <<Data(s)>>, <<s>>)
<1> DEFINE cols == <<Data(s)>>
           list == <<s>>
<1>1. s \in Stamped /\ InOrder(s.days)  BY SeriesAre, SeriesOrder
<1>2. /\ DOMAIN cols = {1} /\ Len(cols) = 1 /\ cols[1] = Data(s) /\ list[1] = s
  OBVIOUS
<1>3. /\ Len(s.days) \in Nat /\ DOMAIN s.days = 1..Len(s.days)
      /\ \A n \in DOMAIN s.days : Data(s)[n] = n
  BY <1>1, StampedDays DEF Data
<1> HIDE DEF cols, list
<1>4. EachHasARow(s, cols, list)  BY <1>2, <1>3 DEF EachHasARow
<1>5. ASSUME NEW timed \in BOOLEAN, \A c \in DOMAIN cols : HasTimes(list[c]) = timed
      PROVE OfKind(s, timed)
  BY <1>2, <1>5, SeriesKind
<1>6. ASSUME NEW timed \in BOOLEAN, AllOrdered(cols, list, timed)
      PROVE RowsOfStamps(s, cols, list)
  <2>1. Ordered(s) /\ HasTimes(s) = timed  BY <1>2, <1>6 DEF AllOrdered
  <2>2. OfKind(s, timed)  BY <2>1, SeriesKind
  <2>3. Stamps(s) = UNION {Stamps(list[c]) : c \in DOMAIN cols}  BY <1>2
  <2>4. ASSUME NEW r \in DOMAIN s.days PROVE NextDatum(s, Stamp(s, r)) = r
    <3>1. r \in Nat /\ 1 <= r /\ r <= Len(s.days)  BY <1>3
    <3>2. r <= Len(s.days) + 1  BY <1>3, <3>1
    <3>3. Stamp(s, r) \in Moments  BY <1>1, <1>3, <2>2, StampIs
    <3>4. ~Before(Stamp(s, r), Stamp(s, r))  BY <3>3, BeforeIsOrder
    <3>5. \A n \in DOMAIN s.days : n < r => Before(Stamp(s, n), Stamp(s, r))
      BY <2>1 DEF Ordered
    <3> QED  BY <1>1, <3>1, <3>2, <3>4, <3>5, NextIs
  <2> QED  BY <1>2, <1>3, <2>1, <2>3, <2>4 DEF RowsOfStamps
<1>7. s.days # <<>> => \A c \in DOMAIN cols : list[c].days # <<>>  BY <1>2
<1>8. RowsAre(s, cols, list)  BY <1>1, <1>2, <1>4, <1>5, <1>6, <1>7 DEF RowsAre
<1> QED  BY <1>8 DEF cols, list

(* The series after the columns' do not matter.                             *)
LEMMA RowsOfThese ==
  ASSUME NEW stamps, NEW cols, NEW list, RowsAre(stamps, cols, list), NEW longer,
         \A c \in DOMAIN cols : longer[c] = list[c], Len(cols) = 2 => DOMAIN cols = 1..2
  PROVE RowsAre(stamps, cols, longer)
<1>1. EachHasARow(stamps, cols, longer)  BY DEF RowsAre, EachHasARow
<1>2. ASSUME NEW timed \in BOOLEAN, \A c \in DOMAIN cols : HasTimes(longer[c]) = timed
      PROVE OfKind(stamps, timed)
  BY <1>2 DEF RowsAre
<1>3. ASSUME NEW timed \in BOOLEAN, AllOrdered(cols, longer, timed)
      PROVE RowsOfStamps(stamps, cols, longer)
  <2>1. AllOrdered(cols, list, timed)  BY <1>3 DEF AllOrdered
  <2>2. RowsOfStamps(stamps, cols, list)  BY <2>1 DEF RowsAre
  <2>3. {Stamps(longer[c]) : c \in DOMAIN cols} = {Stamps(list[c]) : c \in DOMAIN cols}  OBVIOUS
  <2> QED  BY <2>2, <2>3 DEF RowsOfStamps
<1>4. ASSUME Len(cols) = 2
      PROVE InAllRows(stamps, cols, longer, 1) /\ InAllRows(stamps, cols, longer, 2)
  <2>1. longer[1] = list[1] /\ longer[2] = list[2] /\ 3 - 1 = 2 /\ 3 - 2 = 1  BY <1>4
  <2> QED  BY <1>4, <2>1 DEF RowsAre, InAllRows
<1>5. stamps.days # <<>> => \A c \in DOMAIN cols : longer[c].days # <<>>  BY DEF RowsAre
<1> QED  BY <1>1, <1>2, <1>3, <1>4, <1>5 DEF RowsAre

-----------------------------------------------------------------------------
(* The invariant.                                                           *)

MixedTimes == \E c, d \in DOMAIN X : HasTimes(answers[c]) # HasTimes(answers[d])

RowsShown_Inv ==
  /\ Len(X) <= Len(answers)
  /\ stage = "read" => Len(answers) = Len(X)
  /\ stage = "merge" => Len(answers) = Len(X) + 1
  /\ RowsAre(at, X, answers)
  /\ Len(X) = 1 => at = answers[1] /\ \A n \in DOMAIN at.days : X[1][n] = n
  /\ stage = "aborted" => answers[1].days = <<>> \/ MixedTimes

OfKinds ==
  \A timed \in BOOLEAN : OfKind(at, timed) /\ OfKind(answer, timed) =>
    /\ OfKind(tr, timed)
    /\ Ordered(at) /\ Ordered(answer) => StampsMerged /\ NextData

(* In the loop, whatever the series are like.                               *)
Merge_Inv ==
  stage = "merge" =>
    /\ MergeInOrder /\ NothingLost /\ OfKinds
    /\ (OldUntimed => OldInAll) /\ (NewUntimed => NewInAll)
    /\ Len(tr.days) # 0 => Len(at.days) # 0

LEMMA ShownAre ==
  ASSUME Output_Types, RowsShown_Inv
  PROVE /\ Len(answers) \in Nat /\ DOMAIN answers = 1..Len(answers)
        /\ \A c \in 1..Len(answers) : answers[c] \in Series
        /\ Len(X) \in Nat /\ DOMAIN X = 1..Len(X)
        /\ stage = "merge" => answer = answers[Len(X) + 1] /\ answer \in Series
<1>1. answers \in Seq(Series) /\ X \in Seq(Seq(Nat))
  BY DEF Output_Types
<1>2. /\ Len(answers) \in Nat /\ DOMAIN answers = 1..Len(answers)
      /\ \A c \in 1..Len(answers) : answers[c] \in Series
      /\ Len(X) \in Nat /\ DOMAIN X = 1..Len(X)
  BY <1>1
<1>3. ASSUME stage = "merge" PROVE answer = answers[Len(X) + 1] /\ answer \in Series
  <2>1. Len(answers) = Len(X) + 1  BY <1>3 DEF RowsShown_Inv
  <2>2. answer = answers[Len(X) + 1]  BY <1>2, <2>1 DEF answer, Last
  <2>3. Len(X) + 1 \in 1..Len(answers)  BY <1>2, <2>1
  <2> QED  BY <1>2, <2>2, <2>3
<1> QED  BY <1>2, <1>3

(* When all is taken, the rows are of all series.                           *)
LEMMA MergedRows ==
  ASSUME Output_Types, Merge_Types, RowsShown_Inv, Merge_Inv, stage = "merge", ~OldLeft, ~NewLeft
  PROVE RowsAre(tr, Xr, answers)
<1> DEFINE K1 == Len(X) + 1
<1>1. /\ Len(answers) = K1 /\ Len(X) \in Nat /\ DOMAIN X = 1..Len(X)
      /\ answer = answers[K1] /\ answer \in Series
      /\ \A c \in 1..K1 : answers[c] \in Series
  BY ShownAre DEF RowsShown_Inv
<1>2. /\ at \in Stamped /\ answer \in Stamped /\ tr \in Stamped
      /\ next_old \in Nat /\ next_new \in Nat /\ 1 <= next_old /\ 1 <= next_new
      /\ next_old <= Len(at.days) + 1 /\ next_new <= Len(answer.days) + 1
      /\ Len(answer.days) # 0
  BY LoopTypes
<1>3. /\ Len(at.days) \in Nat /\ DOMAIN at.days = 1..Len(at.days)
      /\ Len(answer.days) \in Nat /\ DOMAIN answer.days = 1..Len(answer.days)
      /\ Len(tr.days) \in Nat /\ DOMAIN tr.days = 1..Len(tr.days)
  BY <1>2, StampedDays
<1>4. Xr \in [1..K1 -> Seq(Nat)]  BY DEF Merge_Types
<1>5. DOMAIN Xr = 1..K1 /\ Len(Xr) = K1
  <2>1. K1 \in Nat  BY <1>1
  <2> QED  BY <1>4, <2>1
<1>6. RowsAre(at, X, answers)  BY DEF RowsShown_Inv
<1>7. /\ MergeInOrder /\ NothingLost /\ OfKinds
      /\ (OldUntimed => OldInAll) /\ (NewUntimed => NewInAll)
      /\ Len(tr.days) # 0 => Len(at.days) # 0
  BY DEF Merge_Inv
<1>8. (\A n \in DOMAIN at.days : n < next_old) /\ (\A n \in DOMAIN answer.days : n < next_new)
  BY <1>2, <1>3 DEF OldLeft, NewLeft
<1>9. Len(tr.days) # 0 /\ Len(at.days) # 0
  <2>1. 1 \in DOMAIN answer.days /\ 1 < next_new  BY <1>2, <1>3, <1>8
  <2>2. \E r \in 1..Len(tr.days) : tr.days[r] = answer.days[1]  BY <1>7, <2>1 DEF NothingLost
  <2> QED  BY <1>3, <1>7, <2>2
<1>10. 1..K1 = 1..Len(X) \cup {K1} /\ K1 \in 1..K1 /\ 1..Len(X) \subseteq 1..K1  BY <1>1
<1> HIDE DEF K1
<1>11. InOrder(tr.days)  BY <1>7 DEF MergeInOrder
<1>12. EachHasARow(tr, Xr, answers)
  BY <1>1, <1>6, <1>7, MergedLosesNothing DEF RowsAre, K1
<1>13. ASSUME NEW timed \in BOOLEAN, \A c \in DOMAIN Xr : HasTimes(answers[c]) = timed
       PROVE OfKind(tr, timed) /\ OfKind(at, timed) /\ OfKind(answer, timed)
  <2>1. HasTimes(answer) = timed /\ \A c \in DOMAIN X : HasTimes(answers[c]) = timed
    BY <1>1, <1>5, <1>10, <1>13
  <2>2. OfKind(answer, timed)  BY <1>1, <2>1, SeriesKind
  <2>3. OfKind(at, timed)  BY <1>6, <2>1 DEF RowsAre
  <2> QED  BY <1>7, <2>2, <2>3 DEF OfKinds
<1>14. tr.days # <<>> => \A c \in DOMAIN Xr : answers[c].days # <<>>
  <2>1. at.days # <<>> /\ answer.days # <<>>  BY <1>2, <1>9
  <2>2. \A c \in DOMAIN X : answers[c].days # <<>>  BY <1>6, <2>1 DEF RowsAre
  <2> QED  BY <1>1, <1>5, <1>10, <2>1, <2>2
<1>15. ASSUME NEW timed \in BOOLEAN, AllOrdered(Xr, answers, timed)
       PROVE RowsOfStamps(tr, Xr, answers)
  <2>1. \A c \in 1..K1 : Ordered(answers[c]) /\ HasTimes(answers[c]) = timed
    BY <1>5, <1>15 DEF AllOrdered
  <2>2. OfKind(tr, timed) /\ OfKind(at, timed) /\ OfKind(answer, timed)  BY <1>5, <1>13, <2>1
  <2>3. AllOrdered(X, answers, timed)  BY <1>1, <1>10, <2>1 DEF AllOrdered
  <2>4. /\ Ordered(at) /\ Stamps(at) = UNION {Stamps(answers[c]) : c \in 1..Len(X)}
        /\ \A c \in 1..Len(X) : \A r \in DOMAIN at.days : X[c][r] = NextDatum(answers[c], Stamp(at, r))
    BY <1>1, <1>6, <2>3 DEF RowsAre, RowsOfStamps
  <2>5. Ordered(answer)  BY <1>1, <1>10, <2>1
  <2>6. StampsMerged /\ NextData  BY <1>7, <2>2, <2>4, <2>5 DEF OfKinds
  <2>7. Stamps(tr) = Stamps(at) \cup Stamps(answer)
    <3>1. {m \in DOMAIN at.days : m < next_old} = DOMAIN at.days
          /\ {m \in DOMAIN answer.days : m < next_new} = DOMAIN answer.days
      BY <1>8
    <3>2. StampsUpTo(at, next_old) = Stamps(at) /\ StampsUpTo(answer, next_new) = Stamps(answer)
      BY <3>1 DEF StampsUpTo, Stamps
    <3> QED  BY <2>6, <3>2 DEF StampsMerged
  <2>8. Stamps(tr) = UNION {Stamps(answers[c]) : c \in DOMAIN Xr}
    <3>1. {Stamps(answers[c]) : c \in DOMAIN Xr}
          = {Stamps(answers[c]) : c \in 1..Len(X)} \cup {Stamps(answer)}
      BY <1>1, <1>5, <1>10
    <3> QED  BY <2>4, <2>7, <3>1
  <2>9. ASSUME NEW c \in DOMAIN Xr, NEW r \in DOMAIN tr.days
        PROVE Xr[c][r] = NextDatum(answers[c], Stamp(tr, r))
    <3>1. CASE c = K1
      <4>1. Xr[Len(X) + 1][r] = NextDatum(answer, Stamp(tr, r))  BY <2>6 DEF NextData
      <4> QED  BY <1>1, <3>1, <4>1 DEF K1
    <3>2. CASE c \in 1..Len(X)
      <4>1. Xr[c][r] = X[c][NextDatum(at, Stamp(tr, r))]  BY <2>6, <3>2 DEF NextData
      <4>2. answers[c] \in Series /\ answers[c] \in Stamped  BY <1>1, <1>10, <3>2, SeriesAre
      <4>3. OfKind(answers[c], timed) /\ Ordered(answers[c])
        BY <1>10, <2>1, <3>2, <4>2, SeriesKind
      <4>4. Len(answers[c].days) # 0
        <5>1. answers[c].days # <<>>  BY <1>5, <1>9, <1>10, <1>14, <3>2
        <5> QED  BY <4>2, <5>1 DEF Stamped
      <4>5. Stamps(answers[c]) \subseteq Stamps(at)  BY <2>4, <3>2
      <4>6. Stamp(tr, r) \in Moments  BY <1>2, <1>3, <2>2, StampIs
      <4>7. /\ NextDatum(at, Stamp(tr, r)) \in 1..Len(at.days)
            /\ NextDatum(answers[c], Stamp(at, NextDatum(at, Stamp(tr, r))))
               = NextDatum(answers[c], Stamp(tr, r))
        <5> DEFINE s == answers[c]
                   stamp == Stamp(tr, r)
        <5>1. /\ s \in Stamped /\ OfKind(s, timed) /\ Ordered(s) /\ Len(s.days) # 0
              /\ Stamps(s) \subseteq Stamps(at) /\ stamp \in Moments
          BY <4>2, <4>3, <4>4, <4>5, <4>6
        <5>2. at \in Stamped /\ OfKind(at, timed) /\ Ordered(at) /\ Len(at.days) # 0
          BY <1>2, <1>9, <2>2, <2>4
        <5> HIDE DEF s, stamp
        <5>3. /\ NextDatum(at, stamp) \in 1..Len(at.days)
              /\ NextDatum(s, Stamp(at, NextDatum(at, stamp))) = NextDatum(s, stamp)
          BY <5>1, <5>2, NextOfNext
        <5> QED  BY <5>3 DEF s, stamp
      <4>8. X[c][NextDatum(at, Stamp(tr, r))]
            = NextDatum(answers[c], Stamp(at, NextDatum(at, Stamp(tr, r))))
        BY <1>3, <2>4, <3>2, <4>7
      <4> QED  BY <4>1, <4>7, <4>8
    <3> QED  BY <1>5, <1>10, <3>1, <3>2
  <2> QED  BY <2>6, <2>8, <2>9 DEF RowsOfStamps, StampsMerged
<1>16. ASSUME Len(Xr) = 2
       PROVE InAllRows(tr, Xr, answers, 1) /\ InAllRows(tr, Xr, answers, 2)
  <2>1. Len(X) = 1 /\ K1 = 2
    <3>1. K1 = 2 /\ Len(X) \in Nat  BY <1>1, <1>5, <1>16
    <3>2. Len(X) + 1 = 2  BY <3>1 DEF K1
    <3>3. \A x \in Nat : x + 1 = 2 => x = 1  OBVIOUS
    <3> QED  BY <3>1, <3>2, <3>3
  <2>2. /\ at = answers[1] /\ answer = answers[2] /\ answers[1] \in Series
        /\ \A n \in DOMAIN at.days : X[1][n] = n
    BY <1>1, <2>1 DEF RowsShown_Inv
  <2>3. 3 - 1 = 2 /\ 3 - 2 = 1 /\ Len(X) + 1 = 2  BY <2>1
  <2>4. InAllRows(tr, Xr, answers, 1)
    <3> SUFFICES ASSUME Ordered(at), ~HasTimes(at), HasTimes(answer)
                 PROVE \A r \in DOMAIN tr.days : \A n \in DOMAIN at.days :
                         tr.days[r] = at.days[n] => Xr[1][r] = n
      BY <2>2, <2>3 DEF InAllRows
    <3>1. OldUntimed  BY <2>1, <2>2 DEF OldUntimed, HasTimes
    <3> QED  BY <1>7, <3>1 DEF OldInAll
  <2>5. InAllRows(tr, Xr, answers, 2)
    <3> SUFFICES ASSUME Ordered(answer), ~HasTimes(answer), HasTimes(at)
                 PROVE \A r \in DOMAIN tr.days : \A n \in DOMAIN answer.days :
                         tr.days[r] = answer.days[n] => Xr[2][r] = n
      BY <2>2, <2>3 DEF InAllRows
    <3>1. Len(at.times) = Len(at.days)  BY <2>2, SeriesOrder DEF HasTimes
    <3>2. NewUntimed  BY <3>1 DEF NewUntimed
    <3> QED  BY <1>7, <2>3, <3>2 DEF NewInAll
  <2> QED  BY <2>4, <2>5
<1> QED  BY <1>11, <1>12, <1>13, <1>14, <1>15, <1>16 DEF RowsAre


-----------------------------------------------------------------------------
(* The steps.                                                               *)

LEMMA RowsInit == OutputInit => RowsShown_Inv /\ Merge_Inv
<1> SUFFICES ASSUME OutputInit PROVE RowsShown_Inv /\ Merge_Inv  OBVIOUS
<1>1. stage = "read" /\ answers = <<>> /\ at = NoStamps /\ X = <<>>  BY DEF OutputInit
<1>2. /\ Len(X) = 0 /\ Len(answers) = 0 /\ DOMAIN X = {}
      /\ at.days = <<>> /\ at.times = <<>> /\ DOMAIN at.days = {}
      /\ Len(at.days) = 0 /\ Len(at.times) = 0
  BY <1>1 DEF NoStamps
<1>3. InOrder(at.days) /\ EachHasARow(at, X, answers)  BY <1>2 DEF InOrder, EachHasARow
<1>4. \A timed \in BOOLEAN : OfKind(at, timed)  BY <1>2 DEF OfKind
<1>5. RowsOfStamps(at, X, answers)
  BY <1>2 DEF RowsOfStamps, Ordered, Stamps
<1>6. RowsAre(at, X, answers)  BY <1>2, <1>3, <1>4, <1>5 DEF RowsAre
<1> QED  BY <1>1, <1>2, <1>6 DEF RowsShown_Inv, Merge_Inv

LEMMA GetDataRows ==
  ASSUME Output_Types, Merge_Types, RowsShown_Inv, Merge_Inv, GetData
  PROVE RowsShown_Inv' /\ Merge_Inv'
<1>1. PICK s \in Series : GetFirst(s) \/ GetNext(s) \/ GetNothing(s)
  BY DEF GetData
<1>2. /\ stage = "read" /\ Len(answers) = Len(X) /\ Len(X) \in Nat /\ DOMAIN X = 1..Len(X)
      /\ answers \in Seq(Series)
  BY ShownAre DEF GetData, RowsShown_Inv, Output_Types
<1>3. s \in Stamped  BY SeriesAre
<1>4. CASE GetFirst(s)
  <2>1. answers' = <<s>> /\ at' = s /\ X' = <<Data(s)>> /\ stage' = "read"
    BY <1>2, <1>4 DEF GetFirst
  <2>2. Len(X') = 1 /\ Len(answers') = 1 /\ answers'[1] = s /\ X'[1] = Data(s)  BY <2>1
  <2>3. RowsAre(s, <<Data(s)>>, <<s>>)  BY RowsOfOne
  <2>4. RowsAre(at', X', answers')  BY <2>1, <2>3
  <2>5. \A n \in DOMAIN at'.days : X'[1][n] = n  BY <1>3, <2>1, <2>2, StampedDays DEF Data
  <2> QED  BY <2>1, <2>2, <2>4, <2>5 DEF RowsShown_Inv, Merge_Inv
<1>5. CASE GetNext(s)
  <2>1. /\ answers' = Append(answers, s) /\ stage' = "merge" /\ next_new' = 1 /\ next_old' = 1
        /\ tr' = NoStamps /\ at' = at /\ X' = X
    BY <1>5 DEF GetNext, rows
  <2>2. /\ Len(answers') = Len(X) + 1 /\ \A c \in 1..Len(X) : answers'[c] = answers[c]
    BY <1>2, <2>1
  <2>3. RowsAre(at, X, answers)  BY DEF RowsShown_Inv
  <2>4. RowsAre(at, X, answers')  BY <1>2, <2>2, <2>3, RowsOfThese
  <2>5. Len(X) = 1 => at = answers'[1] /\ \A n \in DOMAIN at.days : X[1][n] = n
    BY <1>2, <2>2 DEF RowsShown_Inv
  <2>6. RowsShown_Inv'
    <3>1. Len(X) <= Len(answers')  BY <1>2, <2>2
    <3>2. RowsAre(at', X', answers')  BY <2>1, <2>4
    <3> QED  BY <2>1, <2>2, <2>5, <3>1, <3>2 DEF RowsShown_Inv
  <2>7. /\ tr'.days = <<>> /\ tr'.times = <<>> /\ Len(tr'.days) = 0 /\ Len(tr'.times) = 0
        /\ DOMAIN tr'.days = {}
    BY <2>1 DEF NoStamps
  <2>8. Last(Append(answers, s)) = s  BY <1>2 DEF Last
  <2>9. answer' = s  BY <2>1, <2>8 DEF answer
  <2>10. at \in Stamped  BY DEF Output_Types
  <2>11. /\ \A n \in DOMAIN at.days : n \in Nat /\ ~(n < 1)
         /\ \A n \in DOMAIN s.days : n \in Nat /\ ~(n < 1)
    BY <1>3, <2>10, StampedDays
  <2>12. MergeInOrder'  BY <2>7 DEF MergeInOrder, InOrder
  <2>13. NothingLost'  BY <2>1, <2>9, <2>11 DEF NothingLost
  <2>14. OfKinds'
    <3>1. StampsUpTo(at, 1) = {} /\ StampsUpTo(s, 1) = {}  BY <2>11 DEF StampsUpTo
    <3>2. Stamps(tr') = {} /\ Ordered(tr')  BY <2>7 DEF Stamps, Ordered
    <3>3. ComesFirst(tr', at, 1) /\ ComesFirst(tr', s, 1)  BY <2>7 DEF ComesFirst
    <3>4. StampsMerged'  BY <2>1, <2>9, <3>1, <3>2, <3>3 DEF StampsMerged
    <3>5. NextData'  BY <2>7 DEF NextData
    <3>6. \A timed \in BOOLEAN : OfKind(tr', timed)  BY <2>7 DEF OfKind
    <3> QED  BY <3>4, <3>5, <3>6 DEF OfKinds
  <2>15. OldInAll'  BY <2>1, <2>7, <2>11 DEF OldInAll
  <2>16. NewInAll'  BY <2>1, <2>7, <2>9, <2>11 DEF NewInAll
  <2> QED  BY <2>6, <2>7, <2>12, <2>13, <2>14, <2>15, <2>16 DEF Merge_Inv
<1>6. CASE GetNothing(s)
  <2>1. UNCHANGED <<stage, answers, at, X>>
    BY <1>6 DEF GetNothing, outputVars, rows
  <2> QED  BY <1>2, <2>1 DEF RowsShown_Inv, Merge_Inv, MixedTimes
<1> QED  BY <1>1, <1>4, <1>5, <1>6

LEMMA MergeRows ==
  ASSUME Output_Types, Merge_Types, RowsShown_Inv, Merge_Inv, Merge
  PROVE RowsShown_Inv' /\ Merge_Inv'
<1>1. /\ stage = "merge" /\ UNCHANGED <<stage, answers, at, X>> /\ answer' = answer
  BY TurnOfLoop
<1>2. RowsShown_Inv'  BY <1>1 DEF RowsShown_Inv, MixedTimes
<1>3. /\ MergeInOrder /\ NothingLost /\ OfKinds
      /\ (OldUntimed => OldInAll) /\ (NewUntimed => NewInAll)
  BY <1>1 DEF Merge_Inv
<1>4. InOrder(at.days)  BY DEF RowsShown_Inv, RowsAre
<1>5. Len(at.days) # 0
  <2>1. X # <<>> /\ X \in Seq(Seq(Nat)) /\ \A c \in DOMAIN X : Len(X[c]) = Len(at.days)
    BY <1>1 DEF Output_Types
  <2>2. 1 \in DOMAIN X  BY <2>1
  <2>3. X[1] # <<>> /\ X[1] \in Seq(Nat)  BY <2>1, <2>2 DEF Merge, Readable
  <2>4. Len(X[1]) # 0  BY <2>3
  <2> QED  BY <2>1, <2>2, <2>4
<1>6. MergeInOrder'  BY <1>3, <1>4, TurnInOrder
<1>7. NothingLost'  BY <1>3, TurnLosesNothing
<1>8. OfKinds'
  <2>1. ASSUME NEW timed \in BOOLEAN, OfKind(at, timed), OfKind(answer, timed)
        PROVE /\ OfKind(tr', timed)
              /\ Ordered(at) /\ Ordered(answer) => StampsMerged' /\ NextData'
    <3>1. /\ OfKind(tr, timed)
          /\ Ordered(at) /\ Ordered(answer) => StampsMerged /\ NextData
      BY <1>3, <2>1 DEF OfKinds
    <3>2. OfKind(tr', timed)  BY <2>1, <3>1, TurnOfKind
    <3>3. ASSUME Ordered(at), Ordered(answer) PROVE StampsMerged' /\ NextData'
      BY <1>5, <2>1, <3>1, <3>3, TurnMergesStamps
    <3> QED  BY <3>2, <3>3
  <2> QED  BY <1>1, <2>1 DEF OfKinds
<1>9. OldUntimed' => OldInAll'
  <2>1. OldUntimed' => OldUntimed  BY <1>1 DEF OldUntimed
  <2> QED  BY <1>3, <1>4, <2>1, TurnOldInAll
<1>10. NewUntimed' => NewInAll'
  <2>1. NewUntimed' => NewUntimed  BY <1>1 DEF NewUntimed
  <2> QED  BY <1>3, <1>4, <2>1, TurnNewInAll
<1>11. Len(tr'.days) # 0 => Len(at'.days) # 0  BY <1>1, <1>5
<1>12. Merge_Inv'  BY <1>6, <1>7, <1>8, <1>9, <1>10, <1>11 DEF Merge_Inv
<1> QED  BY <1>2, <1>12

LEMMA MergedIsRows ==
  ASSUME Output_Types, Merge_Types, RowsShown_Inv, Merge_Inv, Merged
  PROVE RowsShown_Inv' /\ Merge_Inv'
<1>1. /\ stage = "merge" /\ ~OldLeft /\ ~NewLeft
      /\ stage' = "read" /\ at' = tr /\ X' = Xr /\ answers' = answers
  BY DEF Merged
<1>2. RowsAre(tr, Xr, answers)  BY <1>1, MergedRows
<1>3. Len(answers) = Len(X) + 1 /\ Len(X) \in Nat  BY <1>1, ShownAre DEF RowsShown_Inv
<1>4. Len(Xr) = Len(X) + 1
  <2>1. Xr \in [1..(Len(X) + 1) -> Seq(Nat)]  BY <1>1 DEF Merge_Types
  <2>2. Len(X) + 1 \in Nat  BY <1>3
  <2> QED  BY <2>1, <2>2
<1>5. Len(Xr) # 1
  <2>1. X # <<>> /\ X \in Seq(Seq(Nat))  BY <1>1 DEF Output_Types
  <2>2. Len(X) # 0  BY <2>1
  <2> QED  BY <1>3, <1>4, <2>2
<1>6. RowsAre(at', X', answers')  BY <1>1, <1>2
<1>7. Len(X') = Len(answers') /\ Len(X') # 1 /\ Len(X') <= Len(answers')
  BY <1>1, <1>3, <1>4, <1>5
<1> QED  BY <1>1, <1>6, <1>7 DEF RowsShown_Inv, Merge_Inv

(* What was shown stays, and it aborts for one of two reasons.              *)
LEMMA EndsRows ==
  ASSUME Output_Types, Merge_Types, RowsShown_Inv, Merge_Inv,
         ReadsOutOfBounds \/ ShowTable \/ ShowChart
  PROVE RowsShown_Inv' /\ Merge_Inv'
<1>1. /\ UNCHANGED <<answers, at, X>> /\ stage' \in {"end", "aborted"} /\ X # <<>>
  BY DEF ReadsOutOfBounds, ShowTable, ShowChart, Shows, rows, Output_Types
<1>2. /\ Len(X) \in Nat /\ DOMAIN X = 1..Len(X) /\ X \in Seq(Seq(Nat))
      /\ at \in Stamped /\ \A c \in DOMAIN X : Len(X[c]) = Len(at.days)
  BY ShownAre DEF Output_Types
<1>3. 1 \in DOMAIN X  BY <1>1, <1>2
<1>4. RowsAre(at, X, answers)  BY DEF RowsShown_Inv
<1>5. Len(at.days) \in Nat /\ DOMAIN at.days = 1..Len(at.days)  BY <1>2, StampedDays
<1>6. answers[1] \in Stamped
  <2>1. 1 \in 1..Len(answers)
    <3>1. Len(X) <= Len(answers) /\ Len(answers) \in Nat  BY ShownAre DEF RowsShown_Inv
    <3> QED  BY <1>2, <1>3, <3>1
  <2> QED  BY <2>1, ShownAre, SeriesAre
<1>7. stage' = "aborted" => answers[1].days = <<>> \/ MixedTimes
  <2> SUFFICES ASSUME stage' = "aborted", answers[1].days # <<>>, ~MixedTimes PROVE FALSE
    OBVIOUS
  <2>1. Len(at.days) # 0
    <3>1. 1 \in DOMAIN answers[1].days  BY <1>6 DEF Stamped
    <3>2. \E r \in DOMAIN at.days : at.days[r] = answers[1].days[1]
      BY <1>3, <1>4, <3>1 DEF RowsAre, EachHasARow
    <3> QED  BY <1>5, <3>2
  <2>2. CASE ReadsOutOfBounds
    <3>1. PICK c \in DOMAIN X : X[c] = <<>>  BY <2>2 DEF ReadsOutOfBounds, Readable
    <3>2. Len(X[c]) = 0  BY <3>1
    <3> QED  BY <1>2, <2>1, <3>1, <3>2
  <2>3. CASE ShowTable  BY <2>3 DEF ShowTable
  <2>4. CASE ShowChart
    <3>1. Len(at.times) \in 1..(Len(at.days) - 1)  BY <2>4 DEF ShowChart
    <3>2. PICK timed \in BOOLEAN : HasTimes(answers[1]) = timed  BY DEF HasTimes
    <3>3. \A c \in DOMAIN X : HasTimes(answers[c]) = timed  BY <1>3, <3>2 DEF MixedTimes
    <3>4. OfKind(at, timed)  BY <1>4, <3>3 DEF RowsAre
    <3>5. CASE timed
      <4>1. Len(at.times) = Len(at.days)  BY <3>4, <3>5 DEF OfKind
      <4> QED  BY <1>5, <3>1, <4>1
    <3>6. CASE ~timed
      <4>1. Len(at.times) = 0  BY <3>4, <3>6 DEF OfKind
      <4> QED  BY <3>1, <4>1
    <3> QED  BY <3>5, <3>6
  <2> QED  BY <2>2, <2>3, <2>4
<1>8. RowsShown_Inv'  BY <1>1, <1>7 DEF RowsShown_Inv, MixedTimes
<1> QED  BY <1>1, <1>8 DEF Merge_Inv

LEMMA StepKeepsRows ==
  ASSUME Output_Types, Merge_Types, RowsShown_Inv, Merge_Inv, Output
  PROVE RowsShown_Inv' /\ Merge_Inv'
BY GetDataRows, MergeRows, MergedIsRows, EndsRows DEF Output

LEMMA RowsStay ==
  ASSUME RowsShown_Inv, Merge_Inv, UNCHANGED outputVars
  PROVE RowsShown_Inv' /\ Merge_Inv'
<1>1. UNCHANGED <<stage, answers, at, X, next_new, next_old, tr, Xr>>
  BY DEF outputVars, rows, merge
<1>2. answer' = answer  BY <1>1 DEF answer
<1>3. RowsShown_Inv'  BY <1>1 DEF RowsShown_Inv, MixedTimes
<1>4. Merge_Inv'
  BY <1>1, <1>2 DEF Merge_Inv, MergeInOrder, NothingLost, OfKinds, StampsMerged, NextData,
                    OldUntimed, OldInAll, NewUntimed, NewInAll
<1> QED  BY <1>3, <1>4

LEMMA RowsAreOfAll ==
  ASSUME Output_Types, RowsShown_Inv
  PROVE RowsOfAll
<1>1. /\ Len(answers) \in Nat /\ Len(X) \in Nat /\ DOMAIN X = 1..Len(X) /\ Len(X) <= Len(answers)
      /\ answers \in Seq(Series)
  BY ShownAre DEF RowsShown_Inv, Output_Types
<1>2. /\ DOMAIN Shown = 1..Len(X) /\ Len(Shown) = Len(X)
      /\ \A c \in 1..Len(X) : Shown[c] = answers[c]
  BY <1>1 DEF Shown
<1>3. ToSet(Shown) = {answers[c] : c \in 1..Len(X)}  BY <1>2 DEF ToSet
<1>4. RowsAre(at, X, answers)  BY DEF RowsShown_Inv
<1>5. \A q, r \in DOMAIN at.days : q < r => at.days[q] <= at.days[r]
  BY <1>4 DEF RowsAre, InOrder
<1>6. \A c \in DOMAIN X : \A n \in DOMAIN Shown[c].days :
        \E r \in DOMAIN at.days : at.days[r] = Shown[c].days[n] /\ X[c][r] = n
  BY <1>1, <1>2, <1>4 DEF RowsAre, EachHasARow
<1>7. ASSUME OfOneKind(Shown)
      PROVE /\ Ordered(at) /\ Stamps(at) = UNION {Stamps(s) : s \in ToSet(Shown)}
            /\ \A c \in DOMAIN X : \A r \in DOMAIN at.days : X[c][r] = NextDatum(Shown[c], Stamp(at, r))
  <2>1. \A c, d \in 1..Len(X) : Ordered(answers[c]) /\ HasTimes(answers[c]) = HasTimes(answers[d])
    BY <1>3, <1>7 DEF OfOneKind
  <2>2. PICK timed \in BOOLEAN : AllOrdered(X, answers, timed)
    <3>1. CASE Len(X) = 0
      <4>1. DOMAIN X = {}  BY <1>1, <3>1
      <4>2. AllOrdered(X, answers, TRUE)  BY <4>1 DEF AllOrdered
      <4> QED  BY <4>2
    <3>2. CASE Len(X) # 0
      <4>1. 1 \in 1..Len(X)  BY <1>1, <3>2
      <4>2. PICK timed \in BOOLEAN : HasTimes(answers[1]) = timed  BY DEF HasTimes
      <4>3. AllOrdered(X, answers, timed)  BY <1>1, <2>1, <4>1, <4>2 DEF AllOrdered
      <4> QED  BY <4>3
    <3> QED  BY <3>1, <3>2
  <2>3. RowsOfStamps(at, X, answers)  BY <1>4, <2>2 DEF RowsAre
  <2>4. UNION {Stamps(s) : s \in ToSet(Shown)} = UNION {Stamps(answers[c]) : c \in DOMAIN X}
    BY <1>1, <1>3
  <2> QED  BY <1>1, <1>2, <2>3, <2>4 DEF RowsOfStamps
<1>8. ASSUME Len(Shown) = 2, NEW c \in 1..2,
             Ordered(Shown[c]) /\ ~HasTimes(Shown[c]) /\ HasTimes(Shown[3 - c])
      PROVE \A r \in DOMAIN at.days, n \in DOMAIN Shown[c].days :
              at.days[r] = Shown[c].days[n] => X[c][r] = n
  <2>1. Len(X) = 2 /\ 3 - c \in 1..Len(X) /\ c \in 1..Len(X)  BY <1>2, <1>8
  <2>2. Shown[c] = answers[c] /\ Shown[3 - c] = answers[3 - c]  BY <1>2, <2>1
  <2>3. InAllRows(at, X, answers, c)  BY <1>4, <2>1 DEF RowsAre
  <2> QED  BY <1>8, <2>2, <2>3 DEF InAllRows
<1>9. stage = "aborted" =>
        answers[1].days = <<>> \/ \E p, q \in ToSet(Shown) : HasTimes(p) # HasTimes(q)
  BY <1>1, <1>3 DEF RowsShown_Inv, MixedTimes
<1> QED  BY <1>5, <1>6, <1>7, <1>8, <1>9 DEF RowsOfAll

(* However many series the output merges, with times or without and with    *)
(* several data of a day, none of their data is lost or comes under another *)
(* day, and the days are in order.  Series of one kind are merged into      *)
(* their stamps, once each, with the next datum of each series; of one with *)
(* times and one without, the datum of a day is in all rows of the day; and *)
(* nothing is read out of bounds but in the two cases that RowsOfAll names. *)
THEOREM RowsOfAllSeries == Spec => []RowsOfAll
<1>1. Init => Types_Of_All /\ RowsShown_Inv /\ Merge_Inv
  BY TypesInit, RowsInit DEF Init
<1>2. ASSUME Fittings_Inv, Fittings_Inv', Types_Of_All, RowsShown_Inv, Merge_Inv, [Next]_backEndVars
      PROVE (Types_Of_All /\ RowsShown_Inv /\ Merge_Inv)'
  <2>1. Types_Of_All'  BY <1>2, StepKeepsTypes
  <2>2. Output_Types /\ Merge_Types  BY <1>2 DEF Types_Of_All
  <2>3. UNCHANGED outputVars \/ Output
    BY <1>2 DEF Next, Run, World, Show, LoadedWealth, LoadedFitting, Loaded, backEndVars
  <2> QED  BY <1>2, <2>1, <2>2, <2>3, StepKeepsRows, RowsStay
<1>3. Types_Of_All /\ RowsShown_Inv => RowsOfAll  BY RowsAreOfAll DEF Types_Of_All
<1>4. Fittings_Inv /\ [Next]_backEndVars => Fittings_Inv'  BY StepKeepsFittings
<1> QED  BY FittingsInit, <1>1, <1>2, <1>3, <1>4, PTL DEF Spec
=============================================================================
