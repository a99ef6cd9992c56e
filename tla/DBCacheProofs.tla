--------------------------- MODULE DBCacheProofs ---------------------------
(***************************************************************************)
(* Proofs about the cache for any row, any plugins and any bounds: it      *)
(* lies by at most the lifetime of its entries.                            *)
(***************************************************************************)
EXTENDS DBCache, TLAPS

USE DBCacheAssumption DEF DBCacheAssumption

(* The bounds are naturals.                                                 *)
LEMMA Bounds ==
  /\ MaxChanges \in Nat /\ MaxFailures \in Nat /\ MaxCrashes \in Nat
  /\ Ttl \in Nat \ {0} /\ MaxHold \in Nat /\ TooOld \in Nat
  BY DEF TooOld

(* Changing the row gives its values age 0 and no other value another age.  *)
LEMMA SetRowAges ==
  ASSUME TypeOK, NEW r \in Row, SetRow(r)
  PROVE  /\ db' = r /\ db' \in Row
         /\ age' \in [Column -> [Value \cup {Zero} -> 0..TooOld]]
         /\ \A c \in Column : age'[c][r[c]] = 0
         /\ \A c \in Column, v \in Value \cup {Zero} : age'[c][v] <= age[c][v]
<1> USE DEF TypeOK, SetRow
<1>1. db' = r /\ db' \in Row
  OBVIOUS
<1>2. \A c \in Column : r[c] \in Value \cup {Zero}
  BY DEF Row
<1>3. 0 \in 0..TooOld
  BY Bounds
<1>4. \A c \in Column : age[c] \in [Value \cup {Zero} -> 0..TooOld]
  OBVIOUS
<1>5. \A c \in Column :
        /\ age'[c] = [age[c] EXCEPT ![r[c]] = 0]
        /\ age'[c] \in [Value \cup {Zero} -> 0..TooOld]
  BY <1>2, <1>3, <1>4
<1>6. age' \in [Column -> [Value \cup {Zero} -> 0..TooOld]]
  BY <1>5
<1>7. \A c \in Column : age'[c][r[c]] = 0
  BY <1>2, <1>4, <1>5
<1>8. ASSUME NEW c \in Column, NEW v \in Value \cup {Zero}
      PROVE  age'[c][v] <= age[c][v]
  <2>1. age[c][v] \in 0..TooOld
    BY <1>4
  <2>. QED
    BY <1>2, <1>4, <1>5, <2>1
<1>. QED
  BY <1>1, <1>6, <1>7, <1>8

(* A step keeps every variable's type.                                      *)
LEMMA TypeStep == TypeOK /\ CallsHaveArguments /\ [Next]_vars => TypeOK'
<1> SUFFICES ASSUME TypeOK, CallsHaveArguments, [Next]_vars PROVE TypeOK'
  OBVIOUS
<1> USE DEF TypeOK, CallsHaveArguments, Thread, PC, Row, Entry, TooOld, Goto, Forget, vars, counters, feeds
<1>1. ASSUME NEW t \in Thread, Hit(t)
       PROVE  TypeOK'
  BY <1>1 DEF Hit, Valid
<1>2. ASSUME NEW t \in Thread, Miss(t)
       PROVE  TypeOK'
  BY <1>2 DEF Miss
<1>3. ASSUME NEW t \in Thread, ReadRow(t)
       PROVE  TypeOK'
  BY <1>3 DEF ReadRow
<1>4. ASSUME NEW t \in Thread, Store(t)
       PROVE  TypeOK'
  <2>1. column[t] \in Column /\ value[t] \in Value \cup {Zero}
    BY <1>4 DEF Store
  <2>2. [data |-> value[t], life |-> Ttl] \in Entry
    BY <2>1, Bounds
  <2>3. cache' \in [Column -> Entry \cup {NoEntry}]
    BY <1>4, <2>1, <2>2 DEF Store
  <2>4. held' \in [Thread -> 0..MaxHold]
    BY <1>4, Bounds DEF Store
  <2>. QED
    BY <1>4, <2>3, <2>4 DEF Store
<1>5. ASSUME NEW t \in Thread, ReadFails(t)
       PROVE  TypeOK'
  <2>1. failures' \in 0..MaxFailures
    BY <1>5, Bounds DEF ReadFails
  <2>2. pc' \in [Thread -> PC]
    BY <1>5 DEF ReadFails
  <2>. QED
    BY <1>5, <2>1, <2>2 DEF ReadFails
<1>6. ASSUME NEW t \in Reader, ReaderReturns(t)
       PROVE  TypeOK'
  BY <1>6 DEF ReaderReturns
<1>7. ASSUME Begin
       PROVE  TypeOK'
  BY <1>7 DEF Begin
<1>8. ASSUME ComparedSame
       PROVE  TypeOK'
  BY <1>8 DEF ComparedSame
<1>9. ASSUME ComparedOther
       PROVE  TypeOK'
  BY <1>9 DEF ComparedOther
<1>10. ASSUME Skip
       PROVE  TypeOK'
  BY <1>10 DEF Skip
<1>11. ASSUME InsertKey
       PROVE  TypeOK'
  <2> DEFINE r == [c \in Column |-> Zero]
  <2>1. r \in Row
    OBVIOUS
  <2>2. db' \in Row \cup {Absent}
        /\ age' \in [Column -> [Value \cup {Zero} -> 0..TooOld]]
    BY <1>11, <2>1, SetRowAges DEF InsertKey
  <2>. QED
    BY <1>11, <2>2 DEF InsertKey
<1>12. ASSUME Update
       PROVE  TypeOK'
  <2>1. data \in Row
    BY <1>12 DEF Update
  <2>2. db' \in Row \cup {Absent}
        /\ age' \in [Column -> [Value \cup {Zero} -> 0..TooOld]]
    BY <1>12, <2>1, SetRowAges DEF Update
  <2>. QED
    BY <1>12, <2>2 DEF Update
<1>13. ASSUME Fill
       PROVE  TypeOK'
  BY <1>13 DEF Fill
<1>14. ASSUME WriterReturns
       PROVE  TypeOK'
  BY <1>14 DEF WriterReturns
<1>15. ASSUME NEW c \in Column, CompareNext(c)
       PROVE  TypeOK'
  BY <1>15 DEF CompareNext
<1>16. ASSUME StatementFails
       PROVE  TypeOK'
  <2>1. failures' \in 0..MaxFailures
    BY <1>16, Bounds DEF StatementFails
  <2>2. pc' \in [Thread -> PC]
    BY <1>16 DEF StatementFails
  <2>. QED
    BY <1>16, <2>1, <2>2 DEF StatementFails
<1>17. ASSUME NEW t \in Reader, NEW c \in Column, ReaderGets(t, c)
       PROVE  TypeOK'
  BY <1>17 DEF ReaderGets
<1>18. ASSUME Drain
       PROVE  TypeOK'
  BY <1>18 DEF Drain, Valid
<1>19. ASSUME Tick
       PROVE  TypeOK'
  BY <1>19 DEF Tick, Older, Valid
<1>20. ASSUME SourceChanges
       PROVE  TypeOK'
  <2>1. changes' \in 0..MaxChanges
    BY <1>20, Bounds DEF SourceChanges
  <2>2. pc' \in [Thread -> PC]
    BY <1>20 DEF SourceChanges
  <2>. QED
    BY <1>20, <2>1, <2>2 DEF SourceChanges
<1>21. ASSUME Crash
       PROVE  TypeOK'
  <2>1. crashes' \in 0..MaxCrashes
    BY <1>21, Bounds DEF Crash
  <2>2. held' \in [Thread -> 0..MaxHold]
    BY <1>21, Bounds DEF Crash
  <2>. QED
    BY <1>21, <2>1, <2>2 DEF Crash
<1>22. ASSUME NewerQuote
       PROVE  TypeOK'
  BY <1>22 DEF NewerQuote
<1>23. ASSUME UNCHANGED vars
       PROVE  TypeOK'
  BY <1>23
<1>. QED
  BY <1>1, <1>2, <1>3, <1>4, <1>5, <1>6, <1>7, <1>8, <1>9, <1>10, <1>11,
     <1>12, <1>13, <1>14, <1>15, <1>16, <1>17, <1>18, <1>19, <1>20,
     <1>21, <1>22, <1>23
     DEF Next, WriterStep, ReaderStep, Get, Thread

(* A step leaves no call without its arguments.                             *)
LEMMA ArgumentsStep == TypeOK /\ CallsHaveArguments /\ [Next]_vars => CallsHaveArguments'
<1> SUFFICES ASSUME TypeOK, CallsHaveArguments, [Next]_vars PROVE CallsHaveArguments'
  OBVIOUS
<1> USE DEF TypeOK, CallsHaveArguments, Thread, PC, Goto, Forget, vars, counters, feeds
<1>1. ASSUME NEW t \in Thread, Hit(t)
       PROVE  CallsHaveArguments'
  BY <1>1 DEF Hit
<1>2. ASSUME NEW t \in Thread, Miss(t)
       PROVE  CallsHaveArguments'
  BY <1>2 DEF Miss
<1>3. ASSUME NEW t \in Thread, ReadRow(t)
       PROVE  CallsHaveArguments'
  BY <1>3 DEF ReadRow
<1>4. ASSUME NEW t \in Thread, Store(t)
       PROVE  CallsHaveArguments'
  BY <1>4 DEF Store
<1>5. ASSUME NEW t \in Thread, ReadFails(t)
       PROVE  CallsHaveArguments'
  BY <1>5 DEF ReadFails
<1>6. ASSUME NEW t \in Reader, ReaderReturns(t)
       PROVE  CallsHaveArguments'
  BY <1>6 DEF ReaderReturns
<1>7. ASSUME Begin
       PROVE  CallsHaveArguments'
  BY <1>7 DEF Begin
<1>8. ASSUME ComparedSame
       PROVE  CallsHaveArguments'
  BY <1>8 DEF ComparedSame
<1>9. ASSUME ComparedOther
       PROVE  CallsHaveArguments'
  BY <1>9 DEF ComparedOther
<1>10. ASSUME Skip
       PROVE  CallsHaveArguments'
  BY <1>10 DEF Skip
<1>11. ASSUME InsertKey
       PROVE  CallsHaveArguments'
  BY <1>11 DEF InsertKey
<1>12. ASSUME Update
       PROVE  CallsHaveArguments'
  BY <1>12 DEF Update
<1>13. ASSUME Fill
       PROVE  CallsHaveArguments'
  BY <1>13 DEF Fill
<1>14. ASSUME WriterReturns
       PROVE  CallsHaveArguments'
  BY <1>14 DEF WriterReturns
<1>15. ASSUME NEW c \in Column, CompareNext(c)
       PROVE  CallsHaveArguments'
  BY <1>15 DEF CompareNext
<1>16. ASSUME StatementFails
       PROVE  CallsHaveArguments'
  BY <1>16 DEF StatementFails
<1>17. ASSUME NEW t \in Reader, NEW c \in Column, ReaderGets(t, c)
       PROVE  CallsHaveArguments'
  BY <1>17 DEF ReaderGets
<1>18. ASSUME Drain
       PROVE  CallsHaveArguments'
  BY <1>18 DEF Drain
<1>19. ASSUME Tick
       PROVE  CallsHaveArguments'
  BY <1>19 DEF Tick
<1>20. ASSUME SourceChanges
       PROVE  CallsHaveArguments'
  BY <1>20 DEF SourceChanges
<1>21. ASSUME Crash
       PROVE  CallsHaveArguments'
  BY <1>21 DEF Crash
<1>22. ASSUME NewerQuote
       PROVE  CallsHaveArguments'
  BY <1>22 DEF NewerQuote
<1>23. ASSUME UNCHANGED vars
       PROVE  CallsHaveArguments'
  BY <1>23
<1>. QED
  BY <1>1, <1>2, <1>3, <1>4, <1>5, <1>6, <1>7, <1>8, <1>9, <1>10, <1>11,
     <1>12, <1>13, <1>14, <1>15, <1>16, <1>17, <1>18, <1>19, <1>20,
     <1>21, <1>22, <1>23
     DEF Next, WriterStep, ReaderStep, Get, Thread

(* What the row holds has age 0 after every step.                           *)
LEMMA RowStep == TypeOK /\ CallsHaveArguments /\ RowIsCurrent /\ [Next]_vars => RowIsCurrent'
<1> SUFFICES ASSUME TypeOK, CallsHaveArguments, RowIsCurrent, [Next]_vars PROVE RowIsCurrent'
  OBVIOUS
<1> USE DEF TypeOK, CallsHaveArguments, RowIsCurrent, Thread, Row, TooOld, vars, counters, feeds
<1>1. ASSUME NEW t \in Thread, Hit(t)
       PROVE  RowIsCurrent'
  BY <1>1 DEF Hit
<1>2. ASSUME NEW t \in Thread, Miss(t)
       PROVE  RowIsCurrent'
  BY <1>2 DEF Miss
<1>3. ASSUME NEW t \in Thread, ReadRow(t)
       PROVE  RowIsCurrent'
  BY <1>3 DEF ReadRow
<1>4. ASSUME NEW t \in Thread, Store(t)
       PROVE  RowIsCurrent'
  BY <1>4 DEF Store
<1>5. ASSUME NEW t \in Thread, ReadFails(t)
       PROVE  RowIsCurrent'
  BY <1>5 DEF ReadFails
<1>6. ASSUME NEW t \in Reader, ReaderReturns(t)
       PROVE  RowIsCurrent'
  BY <1>6 DEF ReaderReturns
<1>7. ASSUME Begin
       PROVE  RowIsCurrent'
  BY <1>7 DEF Begin
<1>8. ASSUME ComparedSame
       PROVE  RowIsCurrent'
  BY <1>8 DEF ComparedSame
<1>9. ASSUME ComparedOther
       PROVE  RowIsCurrent'
  BY <1>9 DEF ComparedOther
<1>10. ASSUME Skip
       PROVE  RowIsCurrent'
  BY <1>10 DEF Skip
<1>11. ASSUME InsertKey
       PROVE  RowIsCurrent'
  BY <1>11 DEF InsertKey, SetRow
<1>12. ASSUME Update
       PROVE  RowIsCurrent'
  BY <1>12 DEF Update, SetRow
<1>13. ASSUME Fill
       PROVE  RowIsCurrent'
  BY <1>13 DEF Fill
<1>14. ASSUME WriterReturns
       PROVE  RowIsCurrent'
  BY <1>14 DEF WriterReturns
<1>15. ASSUME NEW c \in Column, CompareNext(c)
       PROVE  RowIsCurrent'
  BY <1>15 DEF CompareNext
<1>16. ASSUME StatementFails
       PROVE  RowIsCurrent'
  BY <1>16 DEF StatementFails
<1>17. ASSUME NEW t \in Reader, NEW c \in Column, ReaderGets(t, c)
       PROVE  RowIsCurrent'
  BY <1>17 DEF ReaderGets
<1>18. ASSUME Drain
       PROVE  RowIsCurrent'
  BY <1>18 DEF Drain
<1>19. ASSUME Tick
       PROVE  RowIsCurrent'
  BY <1>19 DEF Tick, Current
<1>20. ASSUME SourceChanges
       PROVE  RowIsCurrent'
  BY <1>20 DEF SourceChanges
<1>21. ASSUME Crash
       PROVE  RowIsCurrent'
  BY <1>21 DEF Crash
<1>22. ASSUME NewerQuote
       PROVE  RowIsCurrent'
  BY <1>22 DEF NewerQuote
<1>23. ASSUME UNCHANGED vars
       PROVE  RowIsCurrent'
  BY <1>23
<1>. QED
  BY <1>1, <1>2, <1>3, <1>4, <1>5, <1>6, <1>7, <1>8, <1>9, <1>10, <1>11,
     <1>12, <1>13, <1>14, <1>15, <1>16, <1>17, <1>18, <1>19, <1>20,
     <1>21, <1>22, <1>23
     DEF Next, WriterStep, ReaderStep, Get, Thread

(* What a thread has read and not stored yet ages no faster than its wait.  *)
LEMMA ReadStep == TypeOK /\ CallsHaveArguments /\ RowIsCurrent /\ ReadIsRecent /\ [Next]_vars
                  => ReadIsRecent'
<1> SUFFICES ASSUME TypeOK, CallsHaveArguments, RowIsCurrent, ReadIsRecent, [Next]_vars PROVE ReadIsRecent'
  OBVIOUS
<1> USE DEF TypeOK, CallsHaveArguments, RowIsCurrent, ReadIsRecent, Thread, PC, Row, TooOld, Goto, Forget, vars, counters, feeds
<1>1. ASSUME NEW t \in Thread, Hit(t)
       PROVE  ReadIsRecent'
  BY <1>1 DEF Hit
<1>2. ASSUME NEW t \in Thread, Miss(t)
       PROVE  ReadIsRecent'
  BY <1>2 DEF Miss
<1>3. ASSUME NEW t \in Thread, ReadRow(t)
       PROVE  ReadIsRecent'
  BY <1>3 DEF ReadRow
<1>4. ASSUME NEW t \in Thread, Store(t)
       PROVE  ReadIsRecent'
  BY <1>4 DEF Store
<1>5. ASSUME NEW t \in Thread, ReadFails(t)
       PROVE  ReadIsRecent'
  BY <1>5 DEF ReadFails
<1>6. ASSUME NEW t \in Reader, ReaderReturns(t)
       PROVE  ReadIsRecent'
  BY <1>6 DEF ReaderReturns
<1>7. ASSUME Begin
       PROVE  ReadIsRecent'
  BY <1>7 DEF Begin
<1>8. ASSUME ComparedSame
       PROVE  ReadIsRecent'
  BY <1>8 DEF ComparedSame
<1>9. ASSUME ComparedOther
       PROVE  ReadIsRecent'
  BY <1>9 DEF ComparedOther
<1>10. ASSUME Skip
       PROVE  ReadIsRecent'
  BY <1>10 DEF Skip
<1>11. ASSUME InsertKey
       PROVE  ReadIsRecent'
  BY <1>11 DEF InsertKey, SetRow
<1>12. ASSUME Update
       PROVE  ReadIsRecent'
  <2>1. data \in Row
    BY <1>12 DEF Update
  <2>2. CASE db = Absent
    BY <1>12, <2>2 DEF Update
  <2>3. CASE db # Absent
    <3>1. /\ age' \in [Column -> [Value \cup {Zero} -> 0..TooOld]]
          /\ \A c \in Column, v \in Value \cup {Zero} : age'[c][v] <= age[c][v]
      BY <1>12, <2>1, <2>3, SetRowAges DEF Update
    <3>. QED
      BY <1>12, <3>1 DEF Update
  <2>. QED
    BY <2>2, <2>3
<1>13. ASSUME Fill
       PROVE  ReadIsRecent'
  BY <1>13 DEF Fill
<1>14. ASSUME WriterReturns
       PROVE  ReadIsRecent'
  BY <1>14 DEF WriterReturns
<1>15. ASSUME NEW c \in Column, CompareNext(c)
       PROVE  ReadIsRecent'
  BY <1>15 DEF CompareNext
<1>16. ASSUME StatementFails
       PROVE  ReadIsRecent'
  BY <1>16 DEF StatementFails
<1>17. ASSUME NEW t \in Reader, NEW c \in Column, ReaderGets(t, c)
       PROVE  ReadIsRecent'
  BY <1>17 DEF ReaderGets
<1>18. ASSUME Drain
       PROVE  ReadIsRecent'
  BY <1>18 DEF Drain
<1>19. ASSUME Tick
       PROVE  ReadIsRecent'
  BY <1>19 DEF Tick, Current
<1>20. ASSUME SourceChanges
       PROVE  ReadIsRecent'
  BY <1>20 DEF SourceChanges
<1>21. ASSUME Crash
       PROVE  ReadIsRecent'
  BY <1>21 DEF Crash
<1>22. ASSUME NewerQuote
       PROVE  ReadIsRecent'
  BY <1>22 DEF NewerQuote
<1>23. ASSUME UNCHANGED vars
       PROVE  ReadIsRecent'
  BY <1>23
<1>. QED
  BY <1>1, <1>2, <1>3, <1>4, <1>5, <1>6, <1>7, <1>8, <1>9, <1>10, <1>11,
     <1>12, <1>13, <1>14, <1>15, <1>16, <1>17, <1>18, <1>19, <1>20,
     <1>21, <1>22, <1>23
     DEF Next, WriterStep, ReaderStep, Get, Thread

(* An entry ages no faster than its life runs out.                          *)
LEMMA StaleStep == TypeOK /\ CallsHaveArguments /\ RowIsCurrent /\ ReadIsRecent /\ StaleAtMostTtl
                     /\ [Next]_vars => StaleAtMostTtl'
<1> SUFFICES ASSUME TypeOK, CallsHaveArguments, RowIsCurrent, ReadIsRecent,
                   StaleAtMostTtl, [Next]_vars PROVE StaleAtMostTtl'
  OBVIOUS
<1> USE DEF TypeOK, CallsHaveArguments, ReadIsRecent, StaleAtMostTtl, Valid,
            Thread, Row, Entry, TooOld, Goto, vars, counters, feeds
<1>1. ASSUME NEW t \in Thread, Hit(t)
       PROVE  StaleAtMostTtl'
  BY <1>1 DEF Hit
<1>2. ASSUME NEW t \in Thread, Miss(t)
       PROVE  StaleAtMostTtl'
  BY <1>2 DEF Miss
<1>3. ASSUME NEW t \in Thread, ReadRow(t)
       PROVE  StaleAtMostTtl'
  BY <1>3 DEF ReadRow
<1>4. ASSUME NEW t \in Thread, Store(t)
       PROVE  StaleAtMostTtl'
  BY <1>4 DEF Store
<1>5. ASSUME NEW t \in Thread, ReadFails(t)
       PROVE  StaleAtMostTtl'
  BY <1>5 DEF ReadFails
<1>6. ASSUME NEW t \in Reader, ReaderReturns(t)
       PROVE  StaleAtMostTtl'
  BY <1>6 DEF ReaderReturns
<1>7. ASSUME Begin
       PROVE  StaleAtMostTtl'
  BY <1>7 DEF Begin
<1>8. ASSUME ComparedSame
       PROVE  StaleAtMostTtl'
  BY <1>8 DEF ComparedSame
<1>9. ASSUME ComparedOther
       PROVE  StaleAtMostTtl'
  BY <1>9 DEF ComparedOther
<1>10. ASSUME Skip
       PROVE  StaleAtMostTtl'
  BY <1>10 DEF Skip
<1>11. ASSUME InsertKey
       PROVE  StaleAtMostTtl'
  <2> DEFINE r == [c \in Column |-> Zero]
  <2>1. r \in Row
    OBVIOUS
  <2>2. CASE db # Absent
    BY <1>11, <2>2 DEF InsertKey
  <2>3. CASE db = Absent
    <3>1. /\ age' \in [Column -> [Value \cup {Zero} -> 0..TooOld]]
          /\ \A c \in Column, v \in Value \cup {Zero} : age'[c][v] <= age[c][v]
      BY <1>11, <2>1, <2>3, SetRowAges DEF InsertKey
    <3>. QED
      BY <1>11, <3>1 DEF InsertKey
  <2>. QED
    BY <2>2, <2>3
<1>12. ASSUME Update
       PROVE  StaleAtMostTtl'
  <2>1. data \in Row
    BY <1>12 DEF Update
  <2>2. CASE db = Absent
    BY <1>12, <2>2 DEF Update
  <2>3. CASE db # Absent
    <3>1. /\ age' \in [Column -> [Value \cup {Zero} -> 0..TooOld]]
          /\ \A c \in Column, v \in Value \cup {Zero} : age'[c][v] <= age[c][v]
      BY <1>12, <2>1, <2>3, SetRowAges DEF Update
    <3>. QED
      BY <1>12, <3>1 DEF Update
  <2>. QED
    BY <2>2, <2>3
<1>13. ASSUME Fill
       PROVE  StaleAtMostTtl'
  BY <1>13 DEF Fill
<1>14. ASSUME WriterReturns
       PROVE  StaleAtMostTtl'
  BY <1>14 DEF WriterReturns
<1>15. ASSUME NEW c \in Column, CompareNext(c)
       PROVE  StaleAtMostTtl'
  BY <1>15 DEF CompareNext
<1>16. ASSUME StatementFails
       PROVE  StaleAtMostTtl'
  BY <1>16 DEF StatementFails
<1>17. ASSUME NEW t \in Reader, NEW c \in Column, ReaderGets(t, c)
       PROVE  StaleAtMostTtl'
  BY <1>17 DEF ReaderGets
<1>18. ASSUME Drain
       PROVE  StaleAtMostTtl'
  BY <1>18 DEF Drain
<1>19. ASSUME Tick
       PROVE  StaleAtMostTtl'
  BY <1>19 DEF Tick, Current, Older
<1>20. ASSUME SourceChanges
       PROVE  StaleAtMostTtl'
  BY <1>20 DEF SourceChanges
<1>21. ASSUME Crash
       PROVE  StaleAtMostTtl'
  BY <1>21 DEF Crash
<1>22. ASSUME NewerQuote
       PROVE  StaleAtMostTtl'
  BY <1>22 DEF NewerQuote
<1>23. ASSUME UNCHANGED vars
       PROVE  StaleAtMostTtl'
  BY <1>23
<1>. QED
  BY <1>1, <1>2, <1>3, <1>4, <1>5, <1>6, <1>7, <1>8, <1>9, <1>10, <1>11,
     <1>12, <1>13, <1>14, <1>15, <1>16, <1>17, <1>18, <1>19, <1>20,
     <1>21, <1>22, <1>23
     DEF Next, WriterStep, ReaderStep, Get, Thread

(* The initial state satisfies every part of the inductive invariant.       *)
LEMMA InitInv == Init => IInv
  BY DEF Init, IInv, TypeOK, CallsHaveArguments, RowIsCurrent, ReadIsRecent,
         StaleAtMostTtl, Valid, Thread, PC, Row, Entry, TooOld, counters

(* The inductive invariant holds in every behavior.                         *)
THEOREM InductiveInvariant == Spec => []IInv
<1>1. IInv /\ [Next]_vars => IInv'
  BY TypeStep, ArgumentsStep, RowStep, ReadStep, StaleStep DEF IInv
<1>. QED
  BY InitInv, <1>1, PTL DEF Spec

(* Every variable keeps its type, for any row, plugins and bounds.          *)
THEOREM TypeCorrect == Spec => []TypeOK
<1>1. IInv => TypeOK
  BY DEF IInv
<1>. QED
  BY InductiveInvariant, <1>1, PTL

(* No entry is older than the lifetime of an entry and the longest time a   *)
(* thread takes from its query to its store, whatever the interleaving of   *)
(* the plugins, the failures of the data base and the restarts.             *)
THEOREM StaleIsBounded == Spec => []StaleAtMostTtl
<1>1. IInv => StaleAtMostTtl
  BY DEF IInv
<1>. QED
  BY InductiveInvariant, <1>1, PTL
=============================================================================
