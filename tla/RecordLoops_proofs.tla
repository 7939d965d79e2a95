-------------------------- MODULE RecordLoops_proofs --------------------------
(***************************************************************************)
(* The theorems about the two components that go over lists of records,    *)
(* one loop after the other: the walks over the records of a bank          *)
(* (BankWalks) and the loops over the records of the simulation            *)
(* (TruthTree).  The two share no state; each half is about one of them.   *)
(***************************************************************************)
EXTENDS BankWalks, TruthTree, LeastElement

(***************************************************************************)
(* First half.  What the walks of BankWalks never do, for banks of any     *)
(* length, any number of records and any contents.  The strengthening      *)
(* relates the place a walk has reached to the last record it read.        *)
(***************************************************************************)

\* The records read are behind each other and the walk is right behind them.
Contiguous ==
  /\ \A i \in DOMAIN taken :
       taken[i].first = IF i = 1 THEN FirstWord(bank.walk) ELSE taken[i - 1].last + 1
  /\ at = IF taken = <<>> THEN FirstWord(bank.walk) ELSE taken[Len(taken)].last + 1

\* Those that are bounded by the bank's length lie inside the bank.
Inside ==
  bank.walk \in {"TE", "TRAX"} => \A i \in DOMAIN taken : taken[i].last <= bank.length

\* Module::ok says that the last element ended where the bank does.
Accounted == ok <=> bank.walk = "TE" /\ taken # <<>> /\ at = bank.length + 1

IInv == TypeOK /\ Contiguous /\ Inside /\ Accounted

-----------------------------------------------------------------------------
\* An element of a sequence over S is in S.
LEMMA SeqElement ==
  ASSUME NEW S, NEW s \in Seq(S), NEW i \in DOMAIN s PROVE s[i] \in S
  OBVIOUS

\* A descriptor stands for a whole number of error words.
LEMMA CovEntriesInt == ASSUME NEW d PROVE CovEntries(d) \in Int
<1>1. IsFiniteSet(6 .. 11)
  <2>1. 6 \in Int /\ 11 \in Int  OBVIOUS
  <2> QED  BY <2>1, FS_Interval, Zenon
<1>2. d \cap 6 .. 11 \subseteq 6 .. 11  OBVIOUS
<1>3. IsFiniteSet(d \cap 6 .. 11)  BY <1>1, <1>2, FS_Subset
<1>4. Cardinality(d \cap 6 .. 11) \in Nat  BY <1>3, FS_CardinalityType
<1> QED  BY <1>4, SMT DEF CovEntries

\* What is read as a size word is one, whether a record starts there or not.
LEMMA SizeWordsAreTyped ==
  ASSUME TypeOK, NEW word \in SizeWords PROVE word \in SizeWord(bank.walk)
<1>1. bank.walk \in Walks /\ bank.records \in Seq([word : SizeWord(bank.walk), words : Nat \ {0}])
  BY DEF TypeOK, BankShape
<1>2. CASE word \in Foreign[bank.walk]  BY <1>1, <1>2, WalksAssumption
<1>3. CASE word \notin Foreign[bank.walk]
  <2>1. PICK k \in DOMAIN bank.records : word = bank.records[k].word
    BY <1>3 DEF SizeWords
  <2>2. bank.records[k] \in [word : SizeWord(bank.walk), words : Nat \ {0}]
    BY <1>1, <2>1, SeqElement
  <2> QED  BY <2>1, <2>2
<1> QED  BY <1>2, <1>3

\* So a walk moves on by a whole number of words.
LEMMA RecordWordsInt ==
  ASSUME TypeOK, NEW word \in SizeWords PROVE RecordWords(bank.walk, word) \in Int
<1>1. word \in SizeWord(bank.walk)  BY SizeWordsAreTyped
<1>2. CASE bank.walk = "TE"
  BY <1>2, CovEntriesInt DEF RecordWords, kTerFixedWords
<1>3. CASE bank.walk # "TE"
  <2>1. word \in Int  BY <1>1, <1>3 DEF SizeWord
  <2> QED  BY <1>3, <2>1 DEF RecordWords, kCountWord
<1> QED  BY <1>2, <1>3

\* A record read keeps the records behind each other, with the walk behind them.
LEMMA TakeKeepsOrder ==
  ASSUME TypeOK, Contiguous, NEW words \in Int, Take(words), UNCHANGED bank
  PROVE  /\ Contiguous'
         /\ taken' # <<>>
         /\ taken' \in Seq([first : Int, last : Int]) /\ at' \in Int /\ round' \in Nat
         /\ \A i \in DOMAIN taken' : (i \in DOMAIN taken /\ taken'[i] = taken[i])
                                     \/ taken'[i].last = at + words - 1
<1>1. at \in Int /\ round \in Nat /\ taken \in Seq([first : Int, last : Int])  BY DEF TypeOK
<1>2. /\ taken' = Append(taken, [first |-> at, last |-> at + words - 1])
      /\ at' = at + words /\ round' = round + 1
  BY DEF Take
<1>3. [first |-> at, last |-> at + words - 1] \in [first : Int, last : Int]  BY <1>1
<1>4. /\ taken' \in Seq([first : Int, last : Int])
      /\ Len(taken') = Len(taken) + 1 /\ Len(taken) \in Nat
      /\ DOMAIN taken' = 1 .. Len(taken) + 1 /\ DOMAIN taken = 1 .. Len(taken)
      /\ taken'[Len(taken) + 1] = [first |-> at, last |-> at + words - 1]
      /\ \A i \in 1 .. Len(taken) : taken'[i] = taken[i]
  BY <1>1, <1>2, <1>3
<1>5. taken' # <<>>  BY <1>4
<1>6. at' = taken'[Len(taken')].last + 1  BY <1>1, <1>2, <1>4
<1>7. ASSUME NEW i \in DOMAIN taken'
      PROVE  taken'[i].first = IF i = 1 THEN FirstWord(bank.walk) ELSE taken'[i - 1].last + 1
  <2>1. CASE i \in 1 .. Len(taken)
    <3>1. taken[i].first = IF i = 1 THEN FirstWord(bank.walk) ELSE taken[i - 1].last + 1
      BY <1>4, <2>1 DEF Contiguous
    <3>2. i # 1 => taken'[i - 1] = taken[i - 1]
      <4>1. i # 1 => i - 1 \in 1 .. Len(taken)
        <5>1. Len(taken) \in Nat  BY <1>4
        <5> QED  BY <2>1, <5>1
      <4> QED  BY <1>4, <4>1
    <3>3. taken'[i] = taken[i]  BY <1>4, <2>1
    <3> QED  BY <3>1, <3>2, <3>3
  <2>2. CASE i = Len(taken) + 1
    <3>1. taken'[i].first = at  BY <1>4, <2>2
    <3>2. CASE taken = <<>>
      BY <3>1, <3>2, <2>2, <1>4 DEF Contiguous
    <3>3. CASE taken # <<>>
      <4>1. Len(taken) # 0  BY <1>1, <3>3
      <4>2. i # 1 /\ i - 1 = Len(taken) /\ i - 1 \in 1 .. Len(taken)  BY <1>4, <2>2, <4>1
      <4>3. at = taken[Len(taken)].last + 1  BY <3>3 DEF Contiguous
      <4> QED  BY <3>1, <4>2, <4>3, <1>4
    <3> QED  BY <3>2, <3>3
  <2> QED  BY <1>4, <2>1, <2>2
<1>8. Contiguous'  BY <1>5, <1>6, <1>7 DEF Contiguous
<1>9. ASSUME NEW i \in DOMAIN taken'
      PROVE  (i \in DOMAIN taken /\ taken'[i] = taken[i]) \/ taken'[i].last = at + words - 1
  BY <1>4
<1> QED  BY <1>1, <1>2, <1>4, <1>5, <1>8, <1>9

-----------------------------------------------------------------------------
\* A bank nothing was read from yet.
LEMMA InitIInv == Init => IInv
<1> SUFFICES ASSUME Init PROVE IInv  OBVIOUS
<1>1. bank \in Banks /\ BankShape(bank)  BY WalksAssumption DEF Init
<1>2. FirstWord(bank.walk) \in Int  BY <1>1 DEF BankShape, Walks, FirstWord
<1>3. Opens(bank) \in BOOLEAN  BY DEF Opens
<1>4. TypeOK
  <2>1. taken \in Seq([first : Int, last : Int])  BY DEF Init
  <2> QED  BY <1>1, <1>2, <1>3, <2>1 DEF Init, TypeOK
<1> QED  BY <1>4 DEF Init, IInv, Contiguous, Inside, Accounted

\* One step per action: only the rounds read a record.
LEMMA NextIInv == IInv /\ [Next]_vars => IInv'
<1> SUFFICES ASSUME IInv, [Next]_vars PROVE IInv'  OBVIOUS
<1>0. TypeOK /\ Contiguous /\ Inside /\ Accounted  BY DEF IInv
<1>1. CASE UNCHANGED vars
  BY <1>0, <1>1 DEF vars, IInv, TypeOK, Contiguous, Inside, Accounted
<1>2. CASE UNCHANGED <<bank, at, round, taken, ok>> /\ Stop
  BY <1>0, <1>2 DEF Stop, IInv, TypeOK, Contiguous, Inside, Accounted
<1>3. ASSUME NEW words \in Int, Take(words), UNCHANGED bank, running' \in BOOLEAN,
             bank.walk \in {"TE", "TRAX"} => ~ReachesPast(words),
             IF bank.walk = "TE" THEN ok' = (at' = bank.length + 1) ELSE ok' = ok
      PROVE  IInv'
  <2>1. /\ Contiguous' /\ taken' # <<>>
        /\ taken' \in Seq([first : Int, last : Int]) /\ at' \in Int /\ round' \in Nat
        /\ \A i \in DOMAIN taken' : (i \in DOMAIN taken /\ taken'[i] = taken[i])
                                    \/ taken'[i].last = at + words - 1
    BY <1>0, <1>3, TakeKeepsOrder
  <2>2. TypeOK'  BY <1>0, <1>3, <2>1 DEF TypeOK
  <2>3. Inside'
    <3> SUFFICES ASSUME bank.walk \in {"TE", "TRAX"}, NEW i \in DOMAIN taken'
                 PROVE  taken'[i].last <= bank.length
      BY <1>3 DEF Inside
    <3>1. CASE i \in DOMAIN taken /\ taken'[i] = taken[i]  BY <1>0, <3>1 DEF Inside
    <3>2. CASE taken'[i].last = at + words - 1
      <4>1. ~(at + words - 1 > bank.length)  BY <1>3 DEF ReachesPast
      <4>2. at \in Int /\ bank.length \in Int  BY <1>0 DEF TypeOK, BankShape
      <4> QED  BY <1>3, <3>2, <4>1, <4>2
    <3> QED  BY <2>1, <3>1, <3>2
  <2>4. Accounted'  BY <1>0, <1>3, <2>1 DEF Accounted
  <2> QED  BY <2>1, <2>2, <2>3, <2>4 DEF IInv
<1>4. CASE WalkEnds  BY <1>2, <1>4 DEF WalkEnds
<1>5. CASE TeRound
  <2>1. PICK d \in SizeWords :
          \/ Stop /\ UNCHANGED <<at, round, taken, ok>>
          \/ /\ ~ReachesPast(RecordWords("TE", d)) /\ Take(RecordWords("TE", d))
             /\ ok' = (at' = bank.length + 1) /\ UNCHANGED running
    BY <1>5 DEF TeRound
  <2>2. bank.walk = "TE" /\ UNCHANGED bank  BY <1>5 DEF TeRound, Round
  <2>3. RecordWords("TE", d) \in Int  BY <1>0, <2>2, RecordWordsInt
  <2>4. UNCHANGED running => running' \in BOOLEAN  BY <1>0 DEF TypeOK
  <2> QED  BY <1>2, <1>3, <2>1, <2>2, <2>3, <2>4
<1>6. CASE TraxRound
  <2>1. PICK n \in SizeWords :
          \/ Stop /\ UNCHANGED <<at, round, taken>>
          \/ /\ ~ReachesPast(RecordWords("TRAX", n)) /\ Take(RecordWords("TRAX", n))
             /\ UNCHANGED running
    BY <1>6 DEF TraxRound
  <2>2. bank.walk = "TRAX" /\ UNCHANGED <<bank, ok>>  BY <1>6 DEF TraxRound, Round
  <2>3. RecordWords("TRAX", n) \in Int  BY <1>0, <2>2, RecordWordsInt
  <2>4. UNCHANGED running => running' \in BOOLEAN  BY <1>0 DEF TypeOK
  <2> QED  BY <1>2, <1>3, <2>1, <2>2, <2>3, <2>4
<1>7. CASE EmcaRound
  <2>1. PICK len \in SizeWords :
          /\ Take(RecordWords("EMCA", len))
          /\ IF len <= 0 THEN Stop ELSE UNCHANGED running
    BY <1>7 DEF EmcaRound
  <2>2. bank.walk = "EMCA" /\ UNCHANGED <<bank, ok>>  BY <1>7 DEF EmcaRound, Round
  <2>3. RecordWords("EMCA", len) \in Int  BY <1>0, <2>2, RecordWordsInt
  <2>4. running' \in BOOLEAN  BY <1>0, <2>1 DEF TypeOK, Stop
  <2> QED  BY <1>3, <2>1, <2>2, <2>3, <2>4
<1>8. CASE PaRound
  <2>1. PICK len \in SizeWords :
          \/ Stop /\ UNCHANGED <<at, round, taken>>
          \/ Take(RecordWords("PA", len)) /\ UNCHANGED running
    BY <1>8 DEF PaRound
  <2>2. bank.walk = "PA" /\ UNCHANGED <<bank, ok>>  BY <1>8 DEF PaRound, Round
  <2>3. RecordWords("PA", len) \in Int  BY <1>0, <2>2, RecordWordsInt
  <2>4. UNCHANGED running => running' \in BOOLEAN  BY <1>0 DEF TypeOK
  <2> QED  BY <1>2, <1>3, <2>1, <2>2, <2>3, <2>4
<1>9. CASE Done  BY <1>1, <1>9 DEF Done
<1> QED  BY <1>1, <1>4, <1>5, <1>6, <1>7, <1>8, <1>9 DEF Next

\* Module::ok read off the place reached is Module::ok read off the records.
LEMMA IInvImplies == IInv => RecordsLieInTheBank
<1> SUFFICES ASSUME IInv PROVE RecordsLieInTheBank  OBVIOUS
<1>1. taken # <<>> => /\ at = taken[Len(taken)].last + 1
                      /\ taken[Len(taken)].last \in Int
  <2>1. taken \in Seq([first : Int, last : Int])  BY DEF IInv, TypeOK
  <2>2. taken # <<>> => Len(taken) \in DOMAIN taken  BY <2>1
  <2>3. taken # <<>> => taken[Len(taken)] \in [first : Int, last : Int]
    BY <2>1, <2>2, SeqElement
  <2> QED  BY <2>3 DEF IInv, Contiguous
<1>2. bank.length \in Int  BY DEF IInv, TypeOK, BankShape
<1>3. ok <=> bank.walk = "TE" /\ taken # <<>> /\ taken[Len(taken)].last = bank.length
  BY <1>1, <1>2 DEF IInv, Accounted
<1> QED  BY <1>3 DEF IInv, Contiguous, Inside, RecordsLieInTheBank

-----------------------------------------------------------------------------
\* The bank a walk reads stays the one it was given, and its counters numbers.
THEOREM TypesHold == Spec => []TypeOK
<1>1. IInv => TypeOK  BY DEF IInv
<1> QED  BY <1>1, InitIInv, NextIInv, PTL DEF Spec

\* TeBank.cpp and Trax.cpp never read a record that reaches past its bank, and
\* Module::ok means that every word was accounted for, whatever the words hold.
THEOREM NothingBeyondTheBank == Spec => []RecordsLieInTheBank
<1> QED  BY InitIInv, NextIInv, IInvImplies, PTL DEF Spec

-----------------------------------------------------------------------------
(***************************************************************************)
(* What the walks do read: an invariant that relates the place reached to  *)
(* where the records really are.                                           *)
(***************************************************************************)

\* As long as only intact records were read, the walk is at the next one, has
\* the extents of those before, and has not stopped if the next one is intact.
ReadInStep ==
  /\ round = Len(taken)
  /\ \A k \in 0 .. Len(bank.records) : (\A j \in 1 .. k : Intact(j)) =>
       /\ k > round => running
       /\ k = round => at = Start(bank)[k + 1]
       /\ k \in 1 .. round =>
            taken[k] = [first |-> Start(bank)[k], last |-> Start(bank)[k + 1] - 1]

LEMMA CovEntriesNat == ASSUME NEW d PROVE CovEntries(d) >= 0
<1>1. IsFiniteSet(6 .. 11)
  <2>1. 6 \in Int /\ 11 \in Int  OBVIOUS
  <2> QED  BY <2>1, FS_Interval, Zenon
<1>2. d \cap 6 .. 11 \in SUBSET (6 .. 11)  OBVIOUS
<1>3. IsFiniteSet(d \cap 6 .. 11)  BY <1>1, <1>2, FS_Subset
<1>4. Cardinality(d \cap 6 .. 11) \in Nat  BY <1>3, FS_CardinalityType
<1>5. \A n \in Nat : n * (n + 1) >= 0  OBVIOUS
<1>6. \A m \in Int : m >= 0 => m \div 2 >= 0  OBVIOUS
<1>7. \A n \in Nat : n * (n + 1) \in Int  OBVIOUS
<1> QED  BY <1>4, <1>5, <1>6, <1>7 DEF CovEntries

\* The places of the records follow from their lengths.
LEMMA StartsFollow ==
  ASSUME BankShape(bank)
  PROVE  /\ Start(bank)[1] = FirstWord(bank.walk)
         /\ \A k \in 1 .. Len(bank.records) + 1 : Start(bank)[k] \in Int
         /\ \A k \in 1 .. Len(bank.records) :
              Start(bank)[k + 1] = Start(bank)[k] + bank.records[k].words
<1> DEFINE N == Len(bank.records)
           words(k) == bank.records[k].words
           first == FirstWord(bank.walk)
           step == [k \in 1 .. N |-> [v \in Int |-> v + words(k)]]
           Body(s) == [k \in 1 .. N + 1 |-> IF k = 1 THEN first ELSE s[k - 1] + words(k - 1)]
<1>1. N \in Nat /\ \A k \in 1 .. N : words(k) \in Int
  <2>1. bank.records \in Seq([word : SizeWord(bank.walk), words : Nat \ {0}])  BY DEF BankShape
  <2>2. DOMAIN bank.records = 1 .. N /\ N \in Nat  BY <2>1
  <2>3. \A k \in 1 .. N : bank.records[k] \in [word : SizeWord(bank.walk), words : Nat \ {0}]
    BY <2>1, <2>2, SeqElement
  <2> QED  BY <2>2, <2>3
<1>2. first \in Int  BY DEF BankShape, Walks, FirstWord
<1> HIDE DEF N, words, first
<1>3. step \in [1 .. N -> [Int -> Int]]  BY <1>1
<1>4. \E s : s = Body(s)
  <2>1. PICK f : Follows(f, N, Int, first, step)
    <3> HIDE DEF step
    <3> QED  BY <1>1, <1>2, <1>3, RecursiveFunction
  <2>2. /\ f \in [0 .. N -> Int] /\ f[0] = first
        /\ \A j \in 1 .. N : f[j] = f[j - 1] + words(j)
    <3>1. \A j \in 1 .. N : j - 1 \in 0 .. N  BY <1>1
    <3> QED  BY <2>1, <3>1 DEF Follows
  <2> DEFINE s == [k \in 1 .. N + 1 |-> f[k - 1]]
  <2>3. ASSUME NEW k \in 1 .. N + 1
        PROVE  s[k] = IF k = 1 THEN first ELSE s[k - 1] + words(k - 1)
    <3>1. CASE k = 1  BY <2>2, <3>1
    <3>2. CASE k # 1
      <4>1. k - 1 \in 1 .. N /\ k - 1 \in 1 .. N + 1  BY <1>1, <3>2
      <4>2. s[k] = f[k - 1] /\ s[k - 1] = f[(k - 1) - 1]  BY <4>1
      <4> QED  BY <2>2, <3>2, <4>1, <4>2
    <3> QED  BY <3>1, <3>2
  <2>4. s = Body(s)
    <3>1. DOMAIN s = 1 .. N + 1 /\ s = [k \in 1 .. N + 1 |-> s[k]]  OBVIOUS
    <3> HIDE DEF s
    <3> QED  BY <2>3, <3>1
  <2> HIDE DEF s, Body
  <2> QED  BY <2>4
<1> DEFINE s == CHOOSE s : s = Body(s)
<1>5. s = Body(s)
  <2> HIDE DEF Body
  <2> QED  BY <1>4
<1>6. Start(bank) = s  BY DEF Start, N, words, first
<1> HIDE DEF s
<1>7. s[1] = first
  <2>1. 1 \in 1 .. N + 1  BY <1>1
  <2> QED  BY <1>5, <2>1
<1>8. ASSUME NEW k \in 1 .. N PROVE s[k + 1] = s[k] + words(k)
  <2>1. k + 1 \in 1 .. N + 1 /\ k + 1 # 1 /\ (k + 1) - 1 = k  BY <1>1
  <2>2. s[k + 1] = s[(k + 1) - 1] + words((k + 1) - 1)  BY <1>5, <2>1
  <2> QED  BY <2>1, <2>2
<1> DEFINE T == {j \in 0 .. N : s[j + 1] \in Int}
<1>9. 0 .. N \subseteq T
  <2>1. 0 \in T  BY <1>1, <1>2, <1>7
  <2>2. ASSUME NEW j \in 1 .. N, j - 1 \in T PROVE j \in T
    <3>1. (j - 1) + 1 = j  OBVIOUS
    <3>2. s[j] \in Int  BY <2>2, <3>1
    <3> QED  BY <1>1, <1>8, <3>2
  <2> HIDE DEF T
  <2> QED  BY <1>1, <2>1, <2>2, SetInduction
<1>10. ASSUME NEW k \in 1 .. N + 1 PROVE s[k] \in Int
  <2>1. k - 1 \in 0 .. N /\ (k - 1) + 1 = k  BY <1>1
  <2> QED  BY <1>9, <2>1
<1> QED  BY <1>6, <1>7, <1>8, <1>10 DEF N, words, first

\* No two records start at the same word.
LEMMA StartsApart ==
  ASSUME BankShape(bank), NEW j \in 1 .. Len(bank.records) + 1,
         NEW k \in 1 .. Len(bank.records) + 1, j < k
  PROVE  Start(bank)[j] < Start(bank)[k]
<1> DEFINE N == Len(bank.records)
           s == Start(bank)
           T == {m \in 0 .. N + 1 : j < m => s[j] < s[m]}
<1>1. N \in Nat /\ \A i \in 1 .. N : bank.records[i].words \in Nat \ {0}
  <2>1. bank.records \in Seq([word : SizeWord(bank.walk), words : Nat \ {0}])  BY DEF BankShape
  <2>2. DOMAIN bank.records = 1 .. N /\ N \in Nat  BY <2>1
  <2>3. \A i \in 1 .. N : bank.records[i] \in [word : SizeWord(bank.walk), words : Nat \ {0}]
    BY <2>1, <2>2, SeqElement
  <2> QED  BY <2>2, <2>3
<1>2. /\ \A i \in 1 .. N + 1 : s[i] \in Int
      /\ \A i \in 1 .. N : s[i] < s[i + 1]
  <2>1. \A i \in 1 .. N : i \in 1 .. N + 1  BY <1>1
  <2>2. /\ \A i \in 1 .. N + 1 : s[i] \in Int
        /\ \A i \in 1 .. N : s[i + 1] = s[i] + bank.records[i].words
    BY StartsFollow
  <2> HIDE DEF s
  <2>3. ASSUME NEW i \in 1 .. N PROVE s[i] < s[i + 1]
    <3>1. s[i] \in Int /\ s[i + 1] = s[i] + bank.records[i].words  BY <2>1, <2>2
    <3> QED  BY <1>1, <3>1
  <2> QED  BY <2>2, <2>3
<1> HIDE DEF s
<1>3. 0 \in T  BY <1>1
<1>4. ASSUME NEW m \in 1 .. N + 1, m - 1 \in T PROVE m \in T
  <2> SUFFICES ASSUME j < m PROVE s[j] < s[m]  BY <1>1
  <2>1. m - 1 \in 1 .. N /\ (m - 1) + 1 = m /\ m - 1 \in 1 .. N + 1  BY <1>1
  <2>2. s[m - 1] < s[m] /\ s[m - 1] \in Int /\ s[m] \in Int /\ s[j] \in Int  BY <1>2, <2>1
  <2>3. CASE j = m - 1  BY <2>2, <2>3
  <2>4. CASE j # m - 1
    <3>1. s[j] < s[m - 1]  BY <1>4, <2>1, <2>4
    <3> QED  BY <2>2, <3>1
  <2> QED  BY <2>3, <2>4
<1>5. 0 .. N + 1 \subseteq T
  <2>1. N + 1 \in Nat  BY <1>1
  <2> DEFINE M == N + 1
  <2> HIDE DEF T, M
  <2>2. 0 .. M \subseteq T  BY <1>3, <1>4, <2>1, SetInduction DEF M
  <2> QED  BY <2>2 DEF M
<1> QED
  <2>1. k \in 0 .. N + 1  BY <1>1
  <2> QED  BY <1>5, <2>1 DEF s

\* The size word an intact walk reads is that of the record it is at.
LEMMA NextRecord ==
  ASSUME TypeOK, ReadInStep, round + 1 \in 1 .. Len(bank.records),
         \A j \in 1 .. round + 1 : Intact(j),
         NEW word \in SizeWords
  PROVE  /\ running
         /\ word = bank.records[round + 1].word
         /\ RecordWords(bank.walk, word) = bank.records[round + 1].words
         /\ at = Start(bank)[round + 1]
         /\ at + bank.records[round + 1].words = Start(bank)[round + 2]
<1> DEFINE r == round + 1
<1>1. /\ BankShape(bank) /\ round \in Nat /\ Len(bank.records) \in Nat
      /\ DOMAIN bank.records = 1 .. Len(bank.records)
  BY DEF TypeOK, BankShape
<1>2. /\ round \in 0 .. Len(bank.records) /\ r \in 0 .. Len(bank.records)
      /\ r > round /\ \A j \in 1 .. round : j \in 1 .. r
  BY <1>1
<1>3. running  BY <1>2 DEF ReadInStep
<1>4. at = Start(bank)[r]  BY <1>2 DEF ReadInStep
<1>5. ASSUME NEW k \in DOMAIN bank.records, Start(bank)[k] = Start(bank)[r] PROVE k = r
  <2>1. k \in 1 .. Len(bank.records) + 1 /\ r \in 1 .. Len(bank.records) + 1  BY <1>1
  <2>2. Start(bank)[k] \in Int  BY <1>1, <2>1, StartsFollow
  <2>3. ~(k < r)  BY <1>1, <1>5, <2>1, <2>2, StartsApart
  <2>4. ~(r < k)  BY <1>1, <1>5, <2>1, <2>2, StartsApart
  <2> QED  BY <2>1, <2>3, <2>4
<1> DEFINE here == {k \in DOMAIN bank.records :
                      IF bank.walk = "PA" THEN k = round + 1 ELSE Start(bank)[k] = at}
<1>6. here = {r}
  <2>1. r \in DOMAIN bank.records  BY <1>1
  <2> QED  BY <1>4, <1>5, <2>1
<1>7. word = bank.records[r].word
  <2>1. SizeWords = IF here = {} THEN Foreign[bank.walk] ELSE {bank.records[k].word : k \in here}
    BY DEF SizeWords
  <2> HIDE DEF here
  <2> QED  BY <1>6, <2>1
<1>8. r \in 1 .. r  BY <1>1
<1>9. RecordWords(bank.walk, bank.records[r].word) = bank.records[r].words
  BY <1>8 DEF Intact
<1>10. Start(bank)[r + 1] = Start(bank)[r] + bank.records[r].words  BY <1>1, StartsFollow
<1>11. r + 1 = round + 2  BY <1>1
<1> QED  BY <1>3, <1>4, <1>7, <1>9, <1>10, <1>11

\* A walk that stops keeps its promise if the record it is at is not intact.
LEMMA StopIsJustified ==
  ASSUME TypeOK, ReadInStep, UNCHANGED <<bank, at, round, taken>>,
         ~(round + 1 \in 1 .. Len(bank.records) /\ \A j \in 1 .. round + 1 : Intact(j))
  PROVE  ReadInStep'
<1>1. round \in Nat /\ Len(bank.records) \in Nat  BY DEF TypeOK, BankShape
<1>2. ASSUME NEW k \in 0 .. Len(bank.records), \A j \in 1 .. k : Intact(j) PROVE k <= round
  <2>1. ASSUME k > round PROVE FALSE
    <3>1. round + 1 \in 1 .. Len(bank.records) /\ \A j \in 1 .. round + 1 : j \in 1 .. k
      BY <1>1, <2>1
    <3> QED  BY <1>2, <3>1
  <2> QED  BY <1>1, <2>1
<1>3. \A k : Intact(k)' <=> Intact(k)  BY DEF Intact
<1> SUFFICES ASSUME NEW k \in 0 .. Len(bank.records), \A j \in 1 .. k : Intact(j)
             PROVE  /\ ~(k > round)
                    /\ k = round => at = Start(bank)[k + 1]
                    /\ k \in 1 .. round =>
                         taken[k] = [first |-> Start(bank)[k], last |-> Start(bank)[k + 1] - 1]
  BY <1>3 DEF ReadInStep
<1>4. k <= round  BY <1>2
<1> QED  BY <1>1, <1>4 DEF ReadInStep

\* So does one that reads a record, if it goes on when the record was intact.
LEMMA TakeIsJustified ==
  ASSUME TypeOK, ReadInStep, UNCHANGED bank, NEW word \in SizeWords,
         Take(RecordWords(bank.walk, word)),
         round + 1 \in 1 .. Len(bank.records) /\ (\A j \in 1 .. round + 1 : Intact(j)) =>
           UNCHANGED running
  PROVE  ReadInStep'
<1> DEFINE words == RecordWords(bank.walk, word)
           N == Len(bank.records)
<1>1. /\ round \in Nat /\ N \in Nat /\ at \in Int /\ words \in Int
      /\ taken \in Seq([first : Int, last : Int])
  BY RecordWordsInt DEF TypeOK, BankShape
<1>2. /\ taken' = Append(taken, [first |-> at, last |-> at + words - 1])
      /\ at' = at + words /\ round' = round + 1 /\ round = Len(taken)
  BY DEF Take, ReadInStep
<1>3. /\ round' = Len(taken')
      /\ taken'[round + 1] = [first |-> at, last |-> at + words - 1]
      /\ \A k \in 1 .. round : taken'[k] = taken[k]
  BY <1>1, <1>2
<1>4. \A k : Intact(k)' <=> Intact(k)  BY DEF Intact
<1> DEFINE Read(k) == [first |-> Start(bank)[k], last |-> Start(bank)[k + 1] - 1]
<1> SUFFICES ASSUME NEW k \in 0 .. N, \A j \in 1 .. k : Intact(j)
             PROVE  /\ k > round + 1 => running'
                    /\ k = round + 1 => at' = Start(bank)[k + 1]
                    /\ k \in 1 .. round + 1 => taken'[k] = Read(k)
  BY <1>2, <1>3, <1>4 DEF ReadInStep
<1>5. CASE k <= round
  <2>1. k \in 1 .. round => taken[k] = Read(k)  BY DEF ReadInStep
  <2>2. ~(k > round + 1) /\ k # round + 1 /\ (k \in 1 .. round + 1 => k \in 1 .. round)
    BY <1>1, <1>5
  <2> HIDE DEF Read
  <2> QED  BY <1>3, <2>1, <2>2
<1>6. CASE k > round
  <2>1. round + 1 \in 1 .. N /\ \A j \in 1 .. round + 1 : j \in 1 .. k  BY <1>1, <1>6
  <2>2. \A j \in 1 .. round + 1 : Intact(j)  BY <2>1
  <2>3. running' = running  BY <2>1, <2>2
  <2>4. /\ running /\ words = bank.records[round + 1].words /\ at = Start(bank)[round + 1]
        /\ at + words = Start(bank)[round + 2]
    BY <2>1, <2>2, NextRecord
  <2>5. (round + 1) + 1 = round + 2  BY <1>1
  <2>6. taken'[round + 1] = Read(round + 1)
    <3> DEFINE next == at + words
    <3>1. at + words - 1 = next - 1
      <4> HIDE DEF words
      <4> QED  BY <1>1
    <3>2. next = Start(bank)[(round + 1) + 1]
      <4>1. next = Start(bank)[round + 2]  BY <2>4
      <4> QED  BY <2>5, <4>1
    <3> HIDE DEF next, words
    <3>3. [first |-> at, last |-> next - 1] = Read(round + 1)  BY <2>4, <3>2
    <3> QED  BY <1>3, <3>1, <3>3
  <2>7. k \in 1 .. round + 1 => k = round + 1  BY <1>1, <1>6
  <2> QED  BY <1>2, <2>3, <2>4, <2>5, <2>6, <2>7
<1> QED  BY <1>1, <1>5, <1>6

\* A bank with an intact first record is opened.
LEMMA ReadInit == Init => ReadInStep
<1> SUFFICES ASSUME Init PROVE ReadInStep  OBVIOUS
<1>1. BankShape(bank) /\ bank.length \in Nat /\ Len(bank.records) \in Nat
  BY WalksAssumption DEF Init, BankShape
<1>2. round = 0 /\ taken = <<>> /\ Len(taken) = 0 /\ at = Start(bank)[1]
  BY <1>1, StartsFollow DEF Init
<1>3. ASSUME NEW k \in 0 .. Len(bank.records), k > 0, \A j \in 1 .. k : Intact(j)
      PROVE  running
  <2>1. 1 \in 1 .. k /\ 1 \in 1 .. Len(bank.records)  BY <1>1, <1>3
  <2>2. Intact(1)  BY <1>3, <2>1
  <2>3. bank.walk = "PA" => bank.count \in 1 .. MaxBlocklets
    <3> SUFFICES ASSUME bank.walk = "PA" PROVE bank.count \in 1 .. MaxBlocklets  OBVIOUS
    <3>1. bank.walk # "TE"  OBVIOUS
    <3>2. 1 <= bank.count  BY <2>2, <3>1 DEF Intact
    <3>3. bank.count <= MaxBlocklets  BY <2>2 DEF Intact
    <3>4. bank.count \in Int  BY <1>1 DEF BankShape
    <3>5. \A c \in Int : 1 <= c /\ c <= 64 => c \in 1 .. 64  OBVIOUS
    <3> QED  BY <3>2, <3>3, <3>4, <3>5, Zenon DEF MaxBlocklets
  <2>4. bank.walk = "TE" => bank.length >= 1 + kTerFixedWords
    <3> SUFFICES ASSUME bank.walk = "TE" PROVE bank.length >= 1 + kTerFixedWords  OBVIOUS
    <3> DEFINE d == bank.records[1].word
    <3>1. Start(bank)[1 + 1] = Start(bank)[1] + bank.records[1].words  BY <1>1, <2>1, StartsFollow
    <3>2. Start(bank)[1] = 2  BY <1>1, StartsFollow DEF FirstWord
    <3>3. bank.records[1].words = kTerFixedWords + CovEntries(d)  BY <2>2 DEF Intact, RecordWords
    <3>4. Start(bank)[1 + 1] - 1 <= bank.length  BY <2>2 DEF Intact
    <3>5. CovEntries(d) \in Int /\ CovEntries(d) >= 0  BY CovEntriesInt, CovEntriesNat
    <3> HIDE DEF d
    <3> QED  BY <1>1, <3>1, <3>2, <3>3, <3>4, <3>5 DEF kTerFixedWords
  <2>5. Opens(bank)  BY <2>3, <2>4 DEF Opens
  <2> QED  BY <2>5 DEF Init
<1> QED  BY <1>2, <1>3 DEF ReadInStep

\* Each round reads the record that starts where the walk is, or stops where the
\* bank is damaged.
LEMMA ReadNext == TypeOK /\ ReadInStep /\ [Next]_vars => ReadInStep'
<1> SUFFICES ASSUME TypeOK, ReadInStep, [Next]_vars PROVE ReadInStep'  OBVIOUS
<1> DEFINE Due == round + 1 \in 1 .. Len(bank.records) /\ \A j \in 1 .. round + 1 : Intact(j)
<1>1. /\ BankShape(bank) /\ round \in Nat /\ at \in Int /\ bank.length \in Nat /\ bank.count \in Int
      /\ DOMAIN bank.records = 1 .. Len(bank.records) /\ Len(bank.records) \in Nat
      /\ bank.walk \in Walks
      /\ \A k \in 1 .. Len(bank.records) : bank.records[k].words \in Nat \ {0}
  <2>1. BankShape(bank)  BY DEF TypeOK
  <2>2. bank.records \in Seq([word : SizeWord(bank.walk), words : Nat \ {0}])  BY <2>1 DEF BankShape
  <2>3. \A k \in DOMAIN bank.records :
          bank.records[k] \in [word : SizeWord(bank.walk), words : Nat \ {0}]
    BY <2>2, SeqElement
  <2>4. DOMAIN bank.records = 1 .. Len(bank.records) /\ Len(bank.records) \in Nat  BY <2>2
  <2>5. \A k \in 1 .. Len(bank.records) : bank.records[k].words \in Nat \ {0}  BY <2>3, <2>4
  <2> QED  BY <2>1, <2>4, <2>5 DEF TypeOK, BankShape
\* What is due is intact, where the walk is.
<1>2. Due => Intact(round + 1)
  <2>1. round + 1 \in 1 .. round + 1  BY <1>1
  <2> QED  BY <2>1
<1>3. ASSUME Due, NEW word \in SizeWords
      PROVE  /\ word = bank.records[round + 1].word
             /\ RecordWords(bank.walk, word) \in Nat \ {0}
             /\ at + RecordWords(bank.walk, word) - 1 = Start(bank)[round + 2] - 1
  BY <1>1, <1>3, NextRecord
<1>4. (round + 1) + 1 = round + 2  BY <1>1
<1>5. CASE WalkEnds
  <2>1. ASSUME Due PROVE FALSE
    <3>1. bank.walk # "TE" => round < bank.count
      BY <1>1, <1>2, <2>1 DEF Intact
    <3>2. bank.walk = "TE" => at <= bank.length
      <4> SUFFICES ASSUME bank.walk = "TE" PROVE at <= bank.length  OBVIOUS
      <4>1. Start(bank)[round + 2] - 1 <= bank.length  BY <1>2, <1>4, <2>1 DEF Intact
      <4>2. round \in 0 .. Len(bank.records) /\ \A j \in 1 .. round : j \in 1 .. round + 1
        BY <1>1, <2>1
      <4>3. at = Start(bank)[round + 1]  BY <2>1, <4>2 DEF ReadInStep
      <4>4. Start(bank)[round + 2] = at + bank.records[round + 1].words
        BY <1>1, <1>4, <2>1, <4>3, StartsFollow
      <4>5. bank.records[round + 1].words \in Nat \ {0} /\ at \in Int /\ bank.length \in Int
        BY <1>1, <2>1
      <4> DEFINE words == bank.records[round + 1].words
                 end   == Start(bank)[round + 2]
      <4>6. end = at + words /\ words \in Nat \ {0} /\ end - 1 <= bank.length
        BY <4>1, <4>4, <4>5
      <4> HIDE DEF words, end
      <4> QED  BY <4>5, <4>6
    <3> QED  BY <1>5, <3>1, <3>2 DEF WalkEnds, Going
  <2> QED  BY <1>5, <2>1, StopIsJustified DEF WalkEnds
<1>6. CASE TeRound
  <2>1. bank.walk = "TE" /\ UNCHANGED bank  BY <1>6 DEF TeRound, Round
  <2>2. PICK word \in SizeWords :
          \/ ReachesPast(RecordWords("TE", word)) /\ UNCHANGED <<at, round, taken>>
          \/ Take(RecordWords("TE", word)) /\ UNCHANGED running
    BY <1>6 DEF TeRound
  <2>3. CASE ReachesPast(RecordWords("TE", word)) /\ UNCHANGED <<at, round, taken>>
    <3>1. ASSUME Due PROVE FALSE
      <4>1. Start(bank)[round + 2] - 1 <= bank.length  BY <1>2, <1>4, <2>1, <3>1 DEF Intact
      <4>2. at + RecordWords("TE", word) - 1 = Start(bank)[round + 2] - 1
        BY <1>3, <2>1, <3>1
      <4>3. RecordWords("TE", word) \in Nat  BY <1>3, <2>1, <3>1
      <4> QED  BY <1>1, <2>3, <4>1, <4>2, <4>3 DEF ReachesPast
    <3> QED  BY <2>1, <2>3, <3>1, StopIsJustified
  <2>4. CASE Take(RecordWords("TE", word)) /\ UNCHANGED running
    BY <2>1, <2>4, TakeIsJustified
  <2> QED  BY <2>2, <2>3, <2>4
<1>7. CASE TraxRound
  <2>1. bank.walk = "TRAX" /\ UNCHANGED bank  BY <1>7 DEF TraxRound, Round
  <2>2. PICK word \in SizeWords :
          \/ /\ word < kWordsNoCov \/ ReachesPast(RecordWords("TRAX", word))
             /\ UNCHANGED <<at, round, taken>>
          \/ Take(RecordWords("TRAX", word)) /\ UNCHANGED running
    BY <1>7 DEF TraxRound
  <2>3. CASE /\ word < kWordsNoCov \/ ReachesPast(RecordWords("TRAX", word))
             /\ UNCHANGED <<at, round, taken>>
    <3>1. ASSUME Due PROVE FALSE
      <4>1. Start(bank)[round + 2] - 1 <= bank.length /\ bank.records[round + 1].word >= kWordsNoCov
        BY <1>2, <1>4, <2>1, <3>1 DEF Intact
      <4>2. /\ at + RecordWords("TRAX", word) - 1 = Start(bank)[round + 2] - 1
            /\ word = bank.records[round + 1].word
        BY <1>3, <2>1, <3>1
      <4>3. word \in Int  BY <2>1, SizeWordsAreTyped DEF SizeWord
      <4>4. RecordWords("TRAX", word) \in Nat  BY <1>3, <2>1, <3>1
      <4>5. ~(word < kWordsNoCov)  BY <4>1, <4>2, <4>3 DEF kWordsNoCov
      <4> QED  BY <1>1, <2>3, <4>1, <4>2, <4>4, <4>5 DEF ReachesPast
    <3> QED  BY <2>1, <2>3, <3>1, StopIsJustified
  <2>4. CASE Take(RecordWords("TRAX", word)) /\ UNCHANGED running
    BY <2>1, <2>4, TakeIsJustified
  <2> QED  BY <2>2, <2>3, <2>4
<1>8. CASE EmcaRound
  <2>1. bank.walk = "EMCA" /\ UNCHANGED bank  BY <1>8 DEF EmcaRound, Round
  <2>2. PICK len \in SizeWords :
          /\ Take(RecordWords("EMCA", len))
          /\ IF len <= 0 THEN Stop ELSE UNCHANGED running
    BY <1>8 DEF EmcaRound
  <2>3. Due => RecordWords("EMCA", len) \in Nat \ {0}  BY <1>3, <2>1
  <2>4. RecordWords("EMCA", len) = len  BY DEF RecordWords
  <2>5. Due => UNCHANGED running  BY <2>2, <2>3, <2>4
  <2> QED  BY <2>1, <2>2, <2>5, TakeIsJustified
<1>9. CASE PaRound
  <2>1. bank.walk = "PA" /\ UNCHANGED bank  BY <1>9 DEF PaRound, Round
  <2>2. PICK len \in SizeWords :
          \/ len <= 0 /\ UNCHANGED <<at, round, taken>>
          \/ Take(RecordWords("PA", len)) /\ UNCHANGED running
    BY <1>9 DEF PaRound
  <2>3. Due => RecordWords("PA", len) \in Nat \ {0}  BY <1>3, <2>1
  <2>4. RecordWords("PA", len) = len  BY DEF RecordWords
  <2>5. CASE len <= 0 /\ UNCHANGED <<at, round, taken>>
    <3>1. ~Due  BY <2>3, <2>4, <2>5
    <3> QED  BY <2>1, <2>5, <3>1, StopIsJustified
  <2>6. CASE Take(RecordWords("PA", len)) /\ UNCHANGED running
    BY <2>1, <2>6, TakeIsJustified
  <2> QED  BY <2>2, <2>5, <2>6
<1>10. CASE Done \/ UNCHANGED vars
  <2>1. UNCHANGED vars  BY <1>10 DEF Done
  <2>2. \A k : Intact(k)' <=> Intact(k)  BY <2>1 DEF vars, Intact
  <2> QED  BY <2>1, <2>2 DEF vars, ReadInStep
<1> QED  BY <1>5, <1>6, <1>7, <1>8, <1>9, <1>10 DEF Next

\* Every record is read that is intact and has only intact ones before it,
\* whatever the rest of the bank holds and however long it is.
THEOREM IntactAreRead == Spec => []IntactRecordsAreRead
<1>1. TypeOK /\ ReadInStep => IntactRecordsAreRead
  <2> SUFFICES ASSUME TypeOK, ReadInStep, ~running,
                      NEW k \in DOMAIN bank.records, \A j \in 1 .. k : Intact(j)
               PROVE  /\ k <= Len(taken)
                      /\ taken[k] = [first |-> Start(bank)[k], last |-> Start(bank)[k + 1] - 1]
    BY DEF IntactRecordsAreRead
  <2>1. k \in 0 .. Len(bank.records) /\ k \in Nat \ {0} /\ round \in Nat
    BY DEF TypeOK, BankShape
  <2>2. ~(k > round)  BY <2>1 DEF ReadInStep
  <2>3. k \in 1 .. round  BY <2>1, <2>2
  <2> QED  BY <2>1, <2>3 DEF ReadInStep
<1> QED  BY <1>1, TypesHold, ReadInit, ReadNext, PTL DEF Spec

-----------------------------------------------------------------------------
(***************************************************************************)
(* Second half.  The tree of TruthTree is what the records say, for any    *)
(* number of lines and of tracks of the simulation.                        *)
(***************************************************************************)

(***************************************************************************)
(* The loops of TruthGenWriter::emit: how far each has come.               *)
(***************************************************************************)

\* The daughters after line Decayed told their mothers where they start; of
\* the other loops this is the last index passed.
Decayed  == IF loop = "decay" THEN index ELSE 0
Produced == IF loop = "decay" THEN 0
            ELSE IF loop = "production" THEN index - 1 ELSE nGen
Created  == IF loop \in {"decay", "production"} THEN 0
            ELSE IF loop = "create" THEN index - 1 ELSE nGen
Graphed  == IF loop \in {"decay", "production", "create"} THEN 0
            ELSE IF loop = "graph" THEN index - 1 ELSE nGen
Followed == IF loop \in {"ends", "done"} THEN nTracks
            ELSE IF loop = "particles" THEN index - 1 ELSE 0
Finished == IF loop = "done" THEN nTracks
            ELSE IF loop = "ends" THEN index - 1 ELSE 0

Particle == [vertex : Int, endpoint : Int, parents : Seq(Nat), daughters : Seq(Nat)]

\* Each loop stays in its range, and the vectors grow with the loops.
InStep ==
  /\ loop = "decay" => index \in 0 .. nGen
  /\ loop \in {"production", "create", "graph"} => index \in 1 .. nGen + 1
  /\ loop \in {"particles", "ends"} => index \in 1 .. nTracks + 1
  /\ loop \notin {"particles", "ends", "done"} => Len(mc) = Created
  /\ Created <= Len(mc)
  /\ Len(particleOfTrack) = Followed
  /\ \A t \in 1 .. Followed : particleOfTrack[t] \in 1 .. Len(mc)

\* What line d hands up: itself if it was tracked, else what is below it.
HandsUp(d) == IF Tracked(d) THEN {d} ELSE TrackedBelow[d]
DaughtersAfter(m, k) == {d \in Daughters(m) : d > k}
BelowAfter(m, k) == UNION {HandsUp(d) : d \in DaughtersAfter(m, k)}

\* Mother m decays at x, where a tracked daughter passed starts, or a tracked
\* descendant below those passed, or it is not known.
DecaysAt(m, k, x) ==
  LET tracked == {d \in DaughtersAfter(m, k) : Tracked(d)}
  IN  /\ tracked # {} => x \in Starts(tracked)
      /\ BelowAfter(m, k) # {} => x \in Starts(BelowAfter(m, k))
      /\ BelowAfter(m, k) = {} => x = Unset

DecaysKnown == \A m \in 1 .. nGen : DecaysAt(m, Decayed, decayPoint[m])

\* A line starts where DELSIM says, or where its mother puts it.
StartsKnown ==
  \A i \in 1 .. nGen :
    productionPoint[i] = IF Tracked(i) THEN event.lines[i].start
                         ELSE IF i <= Produced THEN StartOf(i)
                         ELSE Unset

Placed(point) == IF point = Unset THEN 0 ELSE point

\* A particle of the generator is at the start of its line and has its mother
\* as its parent.
LinesKnown ==
  \A i \in 1 .. Created :
    /\ mc[i].vertex = Placed(productionPoint[i])
    /\ mc[i].parents = IF i <= Graphed /\ Mother(i) >= 1 THEN <<Mother(i)>> ELSE <<>>

DaughtersUpTo(p, k) == {d \in Daughters(p) : d <= k}

\* DELSIM has said where line p ended.
Replaced(p) == \E t \in 1 .. Finished : event.tracks[t].line = p /\ event.tracks[t].end # 0

\* Until then it ends where the daughter starts that gave bestDisp, which no
\* daughter passed exceeds.
EndpointsKnown ==
  /\ \A p \in 1 .. nGen :
       /\ DaughtersUpTo(p, Graphed) = {} => bestDisp[p] = -1
       /\ \A d \in DaughtersUpTo(p, Graphed) : Displacement(p, d) <= bestDisp[p]
  /\ \A p \in 1 .. Created : ~Replaced(p) =>
       /\ DaughtersUpTo(p, Graphed) = {} => mc[p].endpoint = 0
       /\ DaughtersUpTo(p, Graphed) # {} =>
            \E d \in DaughtersUpTo(p, Graphed) :
              mc[p].endpoint = mc[d].vertex /\ bestDisp[p] = Displacement(p, d)

\* Each track followed has a particle for itself: its line's, or a new one at
\* its origin.
TracksKnown ==
  /\ \A t \in 1 .. Followed :
       IF event.tracks[t].line >= 1
       THEN particleOfTrack[t] = event.tracks[t].line
       ELSE /\ particleOfTrack[t] > nGen
            /\ mc[particleOfTrack[t]].vertex = Placed(SimulatedVertexPosition(event.tracks[t].origin))
            /\ mc[particleOfTrack[t]].parents =
                 IF t <= Finished /\ Maker(t) \in 1 .. nTracks
                 THEN <<particleOfTrack[Maker(t)]>> ELSE <<>>
  /\ \A t, u \in 1 .. Followed : particleOfTrack[t] = particleOfTrack[u] => t = u

\* A track ends where DELSIM says.
EndsKnown ==
  \A t \in 1 .. Finished :
    LET position == SimulatedVertexPosition(event.tracks[t].end)
    IN  position # Unset => mc[particleOfTrack[t]].endpoint = position

PointsKnown == DecaysKnown /\ StartsKnown
TreeKnown   == LinesKnown /\ EndpointsKnown /\ TracksKnown /\ EndsKnown

-----------------------------------------------------------------------------
(***************************************************************************)
(* What the event and the operators on particles give.                     *)
(***************************************************************************)

\* The lines of the generator are numbered, each mother before her daughters.
LEMMA LineShape ==
  ASSUME EventShape(event)
  PROVE  /\ nGen \in Nat /\ DOMAIN event.lines = 1 .. nGen
         /\ \A i \in 1 .. nGen : /\ Mother(i) \in Int /\ Mother(i) < i
                                 /\ event.lines[i].start \in Int
                                 /\ HasMother(i) <=> Mother(i) \in 1 .. nGen
                                 /\ Mother(i) \in 1 .. nGen <=> Mother(i) >= 1
<1> DEFINE L == event.lines
           Line == [mother : Int, start : Int]
<1>1. L \in Seq(Line) /\ \A i \in DOMAIN L : L[i].mother < i
  BY DEF EventShape
<1>2. nGen = Len(L) /\ nGen \in Nat /\ DOMAIN L = 1 .. nGen
  BY <1>1 DEF nGen
<1>3. ASSUME NEW i \in 1 .. nGen
      PROVE  L[i].mother \in Int /\ L[i].start \in Int /\ L[i].mother < i
  <2> HIDE DEF L, Line
  <2>1. L[i] \in Line /\ L[i].mother < i
    BY <1>1, <1>2
  <2> QED
    BY <2>1 DEF Line
<1>4. ASSUME NEW i \in 1 .. nGen
      PROVE  /\ Mother(i) \in Int /\ Mother(i) < i
             /\ HasMother(i) <=> Mother(i) \in 1 .. nGen
             /\ Mother(i) \in 1 .. nGen <=> Mother(i) >= 1
  <2> DEFINE m == L[i].mother
  <2>1. m \in Int /\ m < i /\ Mother(i) = m
    BY <1>3 DEF Mother
  <2> HIDE DEF m
  <2> QED
    BY <1>2, <2>1 DEF HasMother
<1> QED
  BY <1>2, <1>3, <1>4

\* A track of DELSIM names a line, or none, and vertices that exist, or none.
LEMMA TrackShape ==
  ASSUME EventShape(event)
  PROVE  /\ nTracks \in Nat
         /\ \A t \in 1 .. nTracks :
              /\ t \in DOMAIN event.tracks
              /\ event.tracks[t].line \in 0 .. nGen
              /\ event.tracks[t].end \in 0 .. Len(event.vertices)
              /\ event.tracks[t].origin \in 0 .. Len(event.vertices)
              /\ \A u \in 1 .. nTracks :
                   event.tracks[t].line = event.tracks[u].line /\ event.tracks[t].line # 0 => t = u
<1> DEFINE T == event.tracks
           Track == [line : Nat, origin : Nat, end : Nat]
<1>1. /\ T \in Seq(Track) /\ event.lines \in Seq([mother : Int, start : Int])
      /\ event.vertices \in Seq([position : Int, entering : Nat])
  BY DEF EventShape
<1>2. /\ \A t, u \in DOMAIN T : T[t].line = T[u].line /\ T[t].line # 0 => t = u
      /\ \A t \in DOMAIN T : /\ T[t].line <= Len(event.lines)
                             /\ T[t].end <= Len(event.vertices)
                             /\ T[t].origin <= Len(event.vertices)
  BY DEF EventShape
<1>3. Len(event.lines) \in Nat /\ Len(event.vertices) \in Nat /\ Len(T) \in Nat /\ DOMAIN T = 1 .. Len(T)
  BY <1>1
<1>4. nTracks \in Nat /\ nTracks <= Len(T)
  <2> DEFINE n == Len(T)
  <2>1. nTracks = IF n > MTRACK THEN MTRACK ELSE n
    BY DEF nTracks
  <2>2. MTRACK \in Nat /\ n \in Nat
    BY <1>3, TruthAssumption
  <2> HIDE DEF n
  <2>3. nTracks \in Nat /\ nTracks <= n
    BY <2>1, <2>2
  <2> QED
    BY <2>3 DEF n
<1>5. \A t \in 1 .. nTracks : t \in DOMAIN T
  BY <1>3, <1>4
<1>6. ASSUME NEW t \in 1 .. nTracks
      PROVE  T[t].line \in Nat /\ T[t].origin \in Nat /\ T[t].end \in Nat
  <2> HIDE DEF T, Track
  <2>1. T[t] \in Track
    BY <1>1, <1>5
  <2> QED
    BY <2>1 DEF Track
<1>7. ASSUME NEW t \in 1 .. nTracks
      PROVE  /\ T[t].line \in 0 .. nGen
             /\ T[t].end \in 0 .. Len(event.vertices)
             /\ T[t].origin \in 0 .. Len(event.vertices)
  <2>1. /\ T[t].line <= Len(event.lines)
        /\ T[t].end <= Len(event.vertices)
        /\ T[t].origin <= Len(event.vertices)
    BY <1>2, <1>5
  <2> DEFINE l == T[t].line
             k == T[t].end
             o == T[t].origin
  <2>2. l \in Nat /\ k \in Nat /\ o \in Nat
    BY <1>6
  <2> HIDE DEF l, k, o
  <2>3. l \in 0 .. Len(event.lines) /\ k \in 0 .. Len(event.vertices) /\ o \in 0 .. Len(event.vertices)
    BY <1>3, <2>1, <2>2 DEF l, k, o
  <2> QED
    BY <2>3 DEF l, k, o, nGen
<1> QED
  BY <1>2, <1>4, <1>5, <1>7

\* A vertex that exists has a position.
LEMMA VertexShape ==
  ASSUME EventShape(event)
  PROVE  /\ DOMAIN event.vertices = 1 .. Len(event.vertices) /\ Len(event.vertices) \in Nat
         /\ \A k : SimulatedVertexPosition(k) \in Int \cup {Unset}
         /\ \A k \in 1 .. Len(event.vertices) : SimulatedVertexPosition(k) # Unset
<1> DEFINE V == event.vertices
           Vertex == [position : Int, entering : Nat]
<1>1. V \in Seq(Vertex)
  BY DEF EventShape
<1>2. DOMAIN V = 1 .. Len(V) /\ Len(V) \in Nat
  BY <1>1
<1>3. \A k \in DOMAIN V : V[k].position \in Int
  <2> SUFFICES ASSUME NEW k \in DOMAIN V PROVE V[k].position \in Int
    OBVIOUS
  <2> HIDE DEF V, Vertex
  <2>1. V[k] \in Vertex
    BY <1>1
  <2> QED
    BY <2>1 DEF Vertex
<1> QED
  BY <1>2, <1>3, TruthAssumption DEF SimulatedVertexPosition

LEMMA ParticleFields ==
  ASSUME NEW m \in Seq(Particle), NEW i \in 1 .. Len(m)
  PROVE  m[i].vertex \in Int /\ m[i].endpoint \in Int /\ m[i].parents \in Seq(Nat)
<1>1. m[i] \in Particle
  OBVIOUS
<1> QED
  BY <1>1 DEF Particle

\* A relation changes the parents of one particle and otherwise only daughters.
LEMMA RelatedAdds ==
  ASSUME NEW m \in Seq(Particle), NEW p \in 1 .. Len(m), NEW d \in 1 .. Len(m)
  PROVE  /\ Related(m, p, d) \in Seq(Particle) /\ Len(Related(m, p, d)) = Len(m)
         /\ \A i \in 1 .. Len(m) :
              /\ Related(m, p, d)[i].vertex = m[i].vertex
              /\ Related(m, p, d)[i].endpoint = m[i].endpoint
              /\ Related(m, p, d)[i].parents = IF i = d THEN Append(m[i].parents, p) ELSE m[i].parents
<1> DEFINE N == Len(m)
           m1 == [m EXCEPT ![d].parents = Append(@, p)]
           m2 == [m1 EXCEPT ![p].daughters = Append(@, d)]
<1>1. N \in Nat /\ m \in [1 .. N -> Particle] /\ p \in Nat /\ d \in Nat
  OBVIOUS
<1>2. Related(m, p, d) = m2
  BY DEF Related
<1>3. /\ m1 \in [1 .. N -> Particle]
      /\ \A i \in 1 .. N :
           /\ m1[i].vertex = m[i].vertex /\ m1[i].endpoint = m[i].endpoint
           /\ m1[i].parents = IF i = d THEN Append(m[i].parents, p) ELSE m[i].parents
  <2> DEFINE r == [m[d] EXCEPT !.parents = Append(@, p)]
  <2>1. m[d] \in Particle /\ m[d].parents \in Seq(Nat)
    BY <1>1 DEF Particle
  <2>2. Append(m[d].parents, p) \in Seq(Nat)
    BY <1>1, <2>1
  <2>3. /\ r \in Particle /\ r.vertex = m[d].vertex /\ r.endpoint = m[d].endpoint
        /\ r.parents = Append(m[d].parents, p)
    BY <2>1, <2>2 DEF Particle
  <2>4. m1 = [m EXCEPT ![d] = r]
    OBVIOUS
  <2> HIDE DEF r, m1
  <2> QED
    BY <1>1, <2>3, <2>4
<1> HIDE DEF m1
<1>4. /\ m2 \in [1 .. N -> Particle]
      /\ \A i \in 1 .. N :
           /\ m2[i].vertex = m1[i].vertex /\ m2[i].endpoint = m1[i].endpoint
           /\ m2[i].parents = m1[i].parents
  <2> DEFINE r == [m1[p] EXCEPT !.daughters = Append(@, d)]
  <2>1. m1[p] \in Particle /\ m1[p].daughters \in Seq(Nat)
    BY <1>1, <1>3 DEF Particle
  <2>2. Append(m1[p].daughters, d) \in Seq(Nat)
    BY <1>1, <2>1
  <2>3. /\ r \in Particle /\ r.vertex = m1[p].vertex /\ r.endpoint = m1[p].endpoint
        /\ r.parents = m1[p].parents
    BY <2>1, <2>2 DEF Particle
  <2>4. m2 = [m1 EXCEPT ![p] = r]
    OBVIOUS
  <2> HIDE DEF r, m2
  <2> QED
    BY <1>1, <1>3, <2>3, <2>4
<1> HIDE DEF m2
<1>5. m2 \in Seq(Particle) /\ Len(m2) = N
  BY <1>1, <1>4
<1> QED
  BY <1>2, <1>3, <1>4, <1>5

\* An endpoint given to one particle changes nothing else.
LEMMA EndpointAdds ==
  ASSUME NEW m \in Seq(Particle), NEW p \in 1 .. Len(m), NEW x \in Int
  PROVE  LET e == [m EXCEPT ![p].endpoint = x]
         IN  /\ e \in Seq(Particle) /\ Len(e) = Len(m)
             /\ \A i \in 1 .. Len(m) :
                  /\ e[i].vertex = m[i].vertex
                  /\ e[i].endpoint = IF i = p THEN x ELSE m[i].endpoint
                  /\ e[i].parents = m[i].parents
<1> DEFINE N == Len(m)
           e == [m EXCEPT ![p].endpoint = x]
<1>1. N \in Nat /\ m \in [1 .. N -> Particle]
  OBVIOUS
<1>2. /\ e \in [1 .. N -> Particle]
      /\ \A i \in 1 .. N :
           /\ e[i].vertex = m[i].vertex
           /\ e[i].endpoint = IF i = p THEN x ELSE m[i].endpoint
           /\ e[i].parents = m[i].parents
  BY <1>1 DEF Particle
<1> HIDE DEF e
<1>3. e \in Seq(Particle) /\ Len(e) = N
  BY <1>1, <1>2
<1> QED
  BY <1>2, <1>3 DEF e

\* Setting an endpoint touches nothing else, and not even that without a vertex.
LEMMA EndedAdds ==
  ASSUME NEW m \in Seq(Particle), NEW p \in 1 .. Len(m), EventShape(event), NEW k
  PROVE  /\ Ended(m, p, k) \in Seq(Particle) /\ Len(Ended(m, p, k)) = Len(m)
         /\ \A i \in 1 .. Len(m) :
              /\ Ended(m, p, k)[i].vertex = m[i].vertex
              /\ Ended(m, p, k)[i].endpoint = IF i = p /\ SimulatedVertexPosition(k) # Unset
                                              THEN SimulatedVertexPosition(k) ELSE m[i].endpoint
              /\ Ended(m, p, k)[i].parents = m[i].parents
<1> DEFINE x == SimulatedVertexPosition(k)
<1>1. CASE x = Unset
  BY <1>1 DEF Ended
<1>2. CASE x # Unset
  <2>1. x \in Int
    BY <1>2, VertexShape
  <2>2. Ended(m, p, k) = [m EXCEPT ![p].endpoint = x]
    BY <1>2 DEF Ended
  <2> HIDE DEF x
  <2> QED
    BY <1>2, <2>1, <2>2, EndpointAdds DEF x
<1> QED
  BY <1>1, <1>2

\* A new particle has a place and no relations.
LEMMA ParticleShape ==
  ASSUME NEW x \in Int \cup {Unset}
  PROVE  /\ MCParticle(x) \in Particle
         /\ MCParticle(x).vertex = Placed(x) /\ MCParticle(x).endpoint = 0
         /\ MCParticle(x).parents = <<>>
  BY DEF MCParticle, Particle, Placed

\* What is below a line is what its daughters hand up.
LEMMA BelowIsHandedUp ==
  ASSUME EventShape(event)
  PROVE  \A i \in 1 .. nGen : /\ TrackedBelow[i] = UNION {HandsUp(d) : d \in Daughters(i)}
                              /\ TrackedBelow[i] \subseteq 1 .. nGen
<1> DEFINE N == nGen
           D(i) == Daughters(i)
           Up(f, i) == UNION {IF Tracked(d) THEN {d} ELSE f[d] : d \in D(i)}
           Body(f) == [i \in 1 .. N |-> Up(f, i)]
           S == [1 .. N -> SUBSET (1 .. N)]
           none == [i \in 1 .. N |-> {}]
           step == [j \in 1 .. N |-> [f \in S |->
                      [i \in 1 .. N |-> IF i = N + 1 - j THEN Up(f, i) ELSE f[i]]]]
<1>1. N \in Nat
  BY LineShape
<1>2. \A i \in 1 .. N : \A d \in D(i) : d \in 1 .. N /\ d > i
  <2> SUFFICES ASSUME NEW i \in 1 .. N, NEW d \in D(i) PROVE d \in 1 .. N /\ d > i
    OBVIOUS
  <2>1. d \in 1 .. N /\ Mother(d) = i
    BY DEF Daughters
  <2>2. Mother(d) < d
    BY <2>1, LineShape
  <2> QED
    BY <1>1, <2>1, <2>2
<1> HIDE DEF N, D
<1>3. \A f \in S : \A i \in 1 .. N : Up(f, i) \in SUBSET (1 .. N)
  BY <1>1, <1>2
<1>4. ASSUME NEW f, NEW h, NEW i, \A d \in D(i) : f[d] = h[d] PROVE Up(f, i) = Up(h, i)
  BY <1>4
<1> HIDE DEF Up
<1>5. none \in S /\ step \in [1 .. N -> [S -> S]]
  BY <1>3
<1>6. PICK g : Follows(g, N, S, none, step)
  <2> HIDE DEF none, step, S
  <2> QED
    BY <1>1, <1>5, RecursiveFunction
<1>7. \A j \in 0 .. N : g[j] \in S
  BY <1>6 DEF Follows
<1>8. ASSUME NEW j \in 1 .. N, NEW i \in 1 .. N
      PROVE  g[j][i] = IF i = N + 1 - j THEN Up(g[j - 1], i) ELSE g[j - 1][i]
  <2>1. j - 1 \in 0 .. N
    BY <1>1
  <2>2. g[j] = step[j][g[j - 1]] /\ g[j - 1] \in S
    BY <1>6, <1>7, <2>1 DEF Follows
  <2> QED
    BY <2>2
<1> DEFINE T == {j \in 0 .. N : \A i \in 1 .. N : i > N - j => g[j][i] = Up(g[j], i)}
<1>9. 0 \in T
  BY <1>1
<1>10. ASSUME NEW j \in 1 .. N, j - 1 \in T PROVE j \in T
  <2> SUFFICES ASSUME NEW i \in 1 .. N, i > N - j PROVE g[j][i] = Up(g[j], i)
    BY <1>1
  <2>1. Up(g[j], i) = Up(g[j - 1], i)
    <3>1. ASSUME NEW d \in D(i) PROVE g[j][d] = g[j - 1][d]
      <4>1. d \in 1 .. N /\ d # N + 1 - j
        BY <1>1, <1>2
      <4> QED
        BY <1>8, <4>1
    <3> QED
      BY <1>4, <3>1
  <2>2. CASE i = N + 1 - j
    BY <1>8, <2>1, <2>2
  <2>3. CASE i # N + 1 - j
    <3>1. i > N - (j - 1)
      BY <1>1, <2>3
    <3>2. g[j - 1][i] = Up(g[j - 1], i)
      BY <1>10, <3>1
    <3> QED
      BY <1>8, <2>1, <2>3, <3>2
  <2> QED
    BY <2>2, <2>3
<1>11. N \in T
  <2> HIDE DEF T
  <2>1. 0 .. N \subseteq T
    BY <1>1, <1>9, <1>10, SetInduction
  <2> QED
    BY <1>1, <2>1
<1>12. g[N] = Body(g[N])
  <2>1. g[N] \in S
    BY <1>1, <1>7
  <2>2. \A i \in 1 .. N : g[N][i] = Up(g[N], i)
    BY <1>1, <1>11
  <2> QED
    BY <2>1, <2>2
<1> DEFINE f == CHOOSE f : f = Body(f)
<1>13. f = Body(f)
  <2> HIDE DEF Body
  <2> QED
    BY <1>12
<1>14. TrackedBelow = f
  BY DEF TrackedBelow, Up, D, N
<1> HIDE DEF f
<1>15. \A i \in 1 .. N : f[i] = Up(f, i)
  BY <1>13
<1>16. \A i \in 1 .. N : TrackedBelow[i] = UNION {HandsUp(d) : d \in Daughters(i)}
  BY <1>14, <1>15 DEF HandsUp, Up, D
<1> DEFINE U == {j \in 0 .. N : \A i \in 1 .. N : i > N - j => f[i] \subseteq 1 .. N}
<1>17. ASSUME NEW j \in 1 .. N, j - 1 \in U PROVE j \in U
  <2> SUFFICES ASSUME NEW i \in 1 .. N, i > N - j PROVE f[i] \subseteq 1 .. N
    BY <1>1
  <2>1. \A d \in D(i) : d \in 1 .. N /\ f[d] \subseteq 1 .. N
    <3> SUFFICES ASSUME NEW d \in D(i) PROVE d \in 1 .. N /\ f[d] \subseteq 1 .. N
      OBVIOUS
    <3>1. d \in 1 .. N /\ d > N - (j - 1)
      BY <1>1, <1>2
    <3> QED
      BY <1>17, <3>1
  <2> QED
    BY <1>15, <2>1 DEF Up
<1>18. 0 .. N \subseteq U
  <2>1. 0 \in U
    BY <1>1
  <2> HIDE DEF U
  <2> QED
    BY <1>1, <1>17, <2>1, SetInduction
<1>19. \A i \in 1 .. N : f[i] \subseteq 1 .. N
  <2>1. N \in U
    BY <1>1, <1>18
  <2> QED
    BY <1>1, <2>1
<1> QED
  BY <1>14, <1>16, <1>19 DEF N

-----------------------------------------------------------------------------
(***************************************************************************)
(* The counters, types and ranges.                                         *)
(***************************************************************************)
counters == <<Decayed, Produced, Created, Graphed, Followed, Finished>>

Loops == {"decay", "production", "create", "graph", "particles", "ends", "done"}

\* The sizes of the event are naturals.
LEMMA Sizes ==
  ASSUME TruthTypeOK
  PROVE  nGen \in Nat /\ nTracks \in Nat /\ loop \in Loops /\ EventShape(event)
  BY LineShape, TrackShape DEF TruthTypeOK, After, Loops

\* They do not change during an event.
LEMMA RigidSizes == ASSUME UNCHANGED event PROVE nGen' = nGen /\ nTracks' = nTracks
  BY DEF nGen, nTracks

\* A loop hands on to the next one with all its lines or tracks passed.
LEMMA LoopEnds ==
  ASSUME TruthTypeOK, InStep, NextLoop
  PROVE  UNCHANGED counters
<1>1. nGen' = nGen /\ nTracks' = nTracks
  BY RigidSizes DEF NextLoop
<1>2. loop \in Loops /\ loop # "done" /\ ~InRange /\ loop' = After[loop] /\ index' = 1
  BY Sizes DEF NextLoop
<1>3. nGen \in Nat /\ nTracks \in Nat
  BY Sizes
<1>4. CASE loop = "decay"
  <2>1. loop' = "production" /\ index = 0
    BY <1>2, <1>3, <1>4 DEF After, InRange, InStep
  <2> QED
    BY <1>1, <1>2, <1>3, <1>4, <2>1
    DEF counters, Decayed, Produced, Created, Graphed, Followed, Finished
<1>5. CASE loop = "production"
  <2>1. loop' = "create" /\ index = nGen + 1
    BY <1>2, <1>3, <1>5 DEF After, InRange, InStep
  <2> QED
    BY <1>1, <1>2, <1>3, <1>5, <2>1
    DEF counters, Decayed, Produced, Created, Graphed, Followed, Finished
<1>6. CASE loop = "create"
  <2>1. loop' = "graph" /\ index = nGen + 1
    BY <1>2, <1>3, <1>6 DEF After, InRange, InStep
  <2> QED
    BY <1>1, <1>2, <1>3, <1>6, <2>1
    DEF counters, Decayed, Produced, Created, Graphed, Followed, Finished
<1>7. CASE loop = "graph"
  <2>1. loop' = "particles" /\ index = nGen + 1
    BY <1>2, <1>3, <1>7 DEF After, InRange, InStep
  <2> QED
    BY <1>1, <1>2, <1>3, <1>7, <2>1
    DEF counters, Decayed, Produced, Created, Graphed, Followed, Finished
<1>8. CASE loop = "particles"
  <2>1. loop' = "ends" /\ index = nTracks + 1
    BY <1>2, <1>3, <1>8 DEF After, InRange, InStep
  <2> QED
    BY <1>1, <1>2, <1>3, <1>8, <2>1
    DEF counters, Decayed, Produced, Created, Graphed, Followed, Finished
<1>9. CASE loop = "ends"
  <2>1. loop' = "done" /\ index = nTracks + 1
    BY <1>2, <1>3, <1>9 DEF After, InRange, InStep
  <2> QED
    BY <1>1, <1>2, <1>3, <1>9, <2>1
    DEF counters, Decayed, Produced, Created, Graphed, Followed, Finished
<1> QED
  BY <1>2, <1>4, <1>5, <1>6, <1>7, <1>8, <1>9 DEF Loops

\* A round moves the counter of its loop and no other.
LEMMA RoundCounts ==
  ASSUME TruthTypeOK, InStep
  PROVE  /\ DecayRound =>
              /\ index \in 1 .. nGen /\ Decayed = index /\ Decayed' = index - 1
              /\ Produced = 0 /\ Created = 0 /\ Graphed = 0 /\ Followed = 0 /\ Finished = 0
              /\ UNCHANGED <<Produced, Created, Graphed, Followed, Finished>>
         /\ ProductionRound =>
              /\ index \in 1 .. nGen /\ Produced = index - 1 /\ Produced' = index
              /\ Decayed = 0 /\ Created = 0 /\ Graphed = 0 /\ Followed = 0 /\ Finished = 0
              /\ UNCHANGED <<Decayed, Created, Graphed, Followed, Finished>>
         /\ CreateRound =>
              /\ index \in 1 .. nGen /\ Created = index - 1 /\ Created' = index
              /\ Decayed = 0 /\ Produced = nGen /\ Graphed = 0 /\ Followed = 0 /\ Finished = 0
              /\ UNCHANGED <<Decayed, Produced, Graphed, Followed, Finished>>
         /\ GraphRound =>
              /\ index \in 1 .. nGen /\ Graphed = index - 1 /\ Graphed' = index
              /\ Decayed = 0 /\ Produced = nGen /\ Created = nGen /\ Followed = 0 /\ Finished = 0
              /\ UNCHANGED <<Decayed, Produced, Created, Followed, Finished>>
         /\ ParticlesRound =>
              /\ index \in 1 .. nTracks /\ Followed = index - 1 /\ Followed' = index
              /\ Decayed = 0 /\ Produced = nGen /\ Created = nGen /\ Graphed = nGen /\ Finished = 0
              /\ UNCHANGED <<Decayed, Produced, Created, Graphed, Finished>>
         /\ EndsRound =>
              /\ index \in 1 .. nTracks /\ Finished = index - 1 /\ Finished' = index
              /\ Decayed = 0 /\ Produced = nGen /\ Created = nGen /\ Graphed = nGen
              /\ Followed = nTracks
              /\ UNCHANGED <<Decayed, Produced, Created, Graphed, Followed>>
<1>1. nGen \in Nat /\ nTracks \in Nat
  BY Sizes
<1>2. \A l, step : LoopRound(l, step) =>
        /\ loop = l /\ loop' = l /\ index' = index + step /\ InRange
        /\ nGen' = nGen /\ nTracks' = nTracks
  BY RigidSizes DEF LoopRound
<1>3. ASSUME DecayRound
      PROVE  /\ loop = "decay" /\ loop' = "decay" /\ index \in 1 .. nGen /\ index' = index - 1
             /\ nGen' = nGen /\ nTracks' = nTracks
  BY <1>1, <1>2, <1>3 DEF DecayRound, InRange, InStep
<1>4. ASSUME ProductionRound
      PROVE  /\ loop = "production" /\ loop' = "production" /\ index \in 1 .. nGen /\ index' = index + 1
             /\ nGen' = nGen /\ nTracks' = nTracks
  BY <1>1, <1>2, <1>4 DEF ProductionRound, InRange, InStep
<1>5. ASSUME CreateRound
      PROVE  /\ loop = "create" /\ loop' = "create" /\ index \in 1 .. nGen /\ index' = index + 1
             /\ nGen' = nGen /\ nTracks' = nTracks
  BY <1>1, <1>2, <1>5 DEF CreateRound, InRange, InStep
<1>6. ASSUME GraphRound
      PROVE  /\ loop = "graph" /\ loop' = "graph" /\ index \in 1 .. nGen /\ index' = index + 1
             /\ nGen' = nGen /\ nTracks' = nTracks
  BY <1>1, <1>2, <1>6 DEF GraphRound, InRange, InStep
<1>7. ASSUME ParticlesRound
      PROVE  /\ loop = "particles" /\ loop' = "particles" /\ index \in 1 .. nTracks /\ index' = index + 1
             /\ nGen' = nGen /\ nTracks' = nTracks
  BY <1>1, <1>2, <1>7 DEF ParticlesRound, InRange, InStep
<1>8. ASSUME EndsRound
      PROVE  /\ loop = "ends" /\ loop' = "ends" /\ index \in 1 .. nTracks /\ index' = index + 1
             /\ nGen' = nGen /\ nTracks' = nTracks
  BY <1>1, <1>2, <1>8 DEF EndsRound, InRange, InStep
<1> USE DEF Decayed, Produced, Created, Graphed, Followed, Finished
<1> QED
  BY <1>1, <1>3, <1>4, <1>5, <1>6, <1>7, <1>8

\* While a loop goes on in which the tree grows, only the tree can be of the wrong
\* type.
LEMMA TypesOfTree ==
  ASSUME TruthTypeOK, UNCHANGED <<event, loop, points>>, index' \in Int, mc' \in Seq(Particle),
         bestDisp' \in [1 .. nGen -> Int], particleOfTrack' \in Seq(Nat)
  PROVE  TruthTypeOK'
<1>1. nGen' = nGen
  BY RigidSizes
<1>2. EventShape(event') /\ loop' \in DOMAIN After \cup {"done"}
  BY DEF TruthTypeOK
<1>3. /\ productionPoint' \in [1 .. nGen -> Int \cup {Unset}]
      /\ decayPoint' \in [1 .. nGen -> Int \cup {Unset}]
  BY DEF TruthTypeOK, points
<1> HIDE DEF Particle
<1>4. mc' \in Seq([vertex : Int, endpoint : Int, parents : Seq(Nat), daughters : Seq(Nat)])
  BY DEF Particle
<1> QED
  BY <1>1, <1>2, <1>3, <1>4 DEF TruthTypeOK

\* The types, loop by loop.
LEMMA TypesStay ==
  ASSUME TruthTypeOK, InStep, NextLoop \/ TruthDone \/ UNCHANGED truthVars
  PROVE  TruthTypeOK' /\ InStep'
<1>1. CASE NextLoop
  <2>1. UNCHANGED counters /\ nGen' = nGen /\ nTracks' = nTracks /\ nGen \in Nat /\ nTracks \in Nat
    BY <1>1, LoopEnds, RigidSizes, Sizes DEF NextLoop
  <2>2. UNCHANGED <<event, points, tree>> /\ index' = 1 /\ loop' = After[loop] /\ loop \in DOMAIN After
    BY <1>1 DEF NextLoop, TruthTypeOK
  <2>3. loop' \in {"production", "create", "graph", "particles", "ends", "done"}
    BY <2>2 DEF After
  <2>4. TruthTypeOK'
    BY <2>1, <2>2, <2>3 DEF TruthTypeOK, points, tree, After
  <2>5. /\ loop' \notin {"particles", "ends", "done"} => loop \notin {"particles", "ends", "done"}
        /\ UNCHANGED <<Created, Followed>>
    BY <2>1, <2>2 DEF After, counters
  <2> QED
    BY <2>1, <2>2, <2>3, <2>4, <2>5 DEF InStep, tree
<1>2. CASE UNCHANGED truthVars
  <2>1. UNCHANGED <<event, loop, index, productionPoint, decayPoint, mc, bestDisp, particleOfTrack>>
    BY <1>2 DEF truthVars, points, tree
  <2>2. nGen' = nGen /\ nTracks' = nTracks
    BY <2>1, RigidSizes
  <2> QED
    BY <2>1, <2>2 DEF TruthTypeOK, InStep, Created, Followed
<1> QED
  BY <1>1, <1>2 DEF TruthDone

LEMMA TypesOfPoints ==
  ASSUME TruthTypeOK, InStep, DecayRound \/ ProductionRound
  PROVE  TruthTypeOK' /\ InStep'
<1>1. nGen \in Nat /\ nTracks \in Nat /\ UNCHANGED <<event, loop, tree>> /\ index \in Int
  BY Sizes DEF DecayRound, ProductionRound, LoopRound, TruthTypeOK
<1>2. nGen' = nGen /\ nTracks' = nTracks
  BY <1>1, RigidSizes
<1>3. /\ index' \in Int /\ index \in 1 .. nGen /\ Created = 0 /\ Created' = 0 /\ Followed = 0 /\ Followed' = 0
      /\ \/ loop = "decay" /\ index' = index - 1
         \/ loop = "production" /\ index' = index + 1
  BY <1>1, RoundCounts DEF DecayRound, ProductionRound, LoopRound
<1>4. InStep'
  BY <1>1, <1>2, <1>3 DEF InStep, tree
<1> DEFINE Point == Int \cup {Unset}
<1>5. productionPoint \in [1 .. nGen -> Point] /\ decayPoint \in [1 .. nGen -> Point]
  BY DEF TruthTypeOK
<1>6. event.primary \in Point
  BY DEF TruthTypeOK, EventShape
<1>7. HasMother(index) <=> Mother(index) \in 1 .. nGen
  BY <1>3, Sizes, LineShape
<1>8. decayPoint' \in [1 .. nGen -> Point] /\ productionPoint' \in [1 .. nGen -> Point]
  <2>1. CASE DecayRound
    <3>1. HasMother(index) => DecayAt(index, Mother(index)) \in Point
      BY <1>3, <1>5, <1>7 DEF DecayAt
    <3> QED
      BY <1>5, <1>7, <2>1, <3>1 DEF DecayRound
  <2>2. CASE ProductionRound
    <3>1. StartOf(index) \in Point
      BY <1>3, <1>5, <1>6, <1>7 DEF StartOf
    <3> QED
      BY <1>5, <2>2, <3>1 DEF ProductionRound
  <2> QED
    BY <2>1, <2>2
<1> QED
  BY <1>1, <1>2, <1>3, <1>4, <1>8 DEF TruthTypeOK, tree

LEMMA TypesOfCreation ==
  ASSUME TruthTypeOK, InStep, CreateRound
  PROVE  TruthTypeOK' /\ InStep'
<1>1. /\ nGen \in Nat /\ nTracks \in Nat /\ UNCHANGED <<event, loop, points, bestDisp, particleOfTrack>>
      /\ loop = "create" /\ index' = index + 1
  BY Sizes DEF CreateRound, LoopRound
<1>2. nGen' = nGen /\ nTracks' = nTracks
  BY <1>1, RigidSizes
<1>3. /\ index \in 1 .. nGen /\ Created = index - 1 /\ Created' = index /\ Followed = 0 /\ Followed' = 0
  BY RoundCounts
<1>4. mc \in Seq(Particle) /\ Len(mc) = index - 1
  BY <1>1, <1>3 DEF TruthTypeOK, InStep, Particle
<1>5. MCParticle(productionPoint[index]) \in Particle
  BY <1>3, ParticleShape DEF TruthTypeOK
<1>6. mc' \in Seq(Particle) /\ Len(mc') = index
  BY <1>3, <1>4, <1>5 DEF CreateRound
<1>7. InStep'
  BY <1>1, <1>2, <1>3, <1>6 DEF InStep
<1>8. bestDisp' \in [1 .. nGen -> Int] /\ particleOfTrack' \in Seq(Nat) /\ index' \in Int
  BY <1>1, <1>3 DEF TruthTypeOK
<1> QED
  BY <1>1, <1>6, <1>7, <1>8, TypesOfTree

\* What a round of the graph makes of the particles.
LEMMA GraphMoves ==
  ASSUME TruthTypeOK, InStep, GraphRound
  PROVE  /\ mc' \in Seq(Particle) /\ Len(mc') = Len(mc) /\ nGen <= Len(mc)
         /\ \A i \in 1 .. Len(mc) : LET p == Mother(index) IN
              /\ mc'[i].vertex = mc[i].vertex
              /\ mc'[i].parents = IF i = index /\ p \in 1 .. nGen
                                  THEN Append(mc[i].parents, p) ELSE mc[i].parents
              /\ mc'[i].endpoint = IF i = p /\ p \in 1 .. nGen /\ IsFarther(p, index)
                                   THEN mc[index].vertex ELSE mc[i].endpoint
<1>1. mc \in Seq(Particle) /\ nGen <= Len(mc) /\ nGen \in Nat /\ index \in 1 .. nGen
  BY RoundCounts, Sizes DEF TruthTypeOK, InStep, Particle
<1>2. index \in 1 .. Len(mc) /\ \A i \in 1 .. nGen : i \in 1 .. Len(mc)
  BY <1>1
<1> DEFINE p == Mother(index)
           linked == Related(mc, p, index)
<1>3. CASE p \notin 1 .. nGen
  BY <1>1, <1>3 DEF GraphRound
<1>4. CASE p \in 1 .. nGen
  <2>1. /\ linked \in Seq(Particle) /\ Len(linked) = Len(mc)
        /\ \A i \in 1 .. Len(mc) :
             /\ linked[i].vertex = mc[i].vertex
             /\ linked[i].endpoint = mc[i].endpoint
             /\ linked[i].parents = IF i = index THEN Append(mc[i].parents, p) ELSE mc[i].parents
    BY <1>1, <1>2, <1>4, RelatedAdds
  <2>2. mc' = IF IsFarther(p, index)
              THEN [linked EXCEPT ![p].endpoint = mc[index].vertex] ELSE linked
    BY <1>4 DEF GraphRound
  <2>3. mc[index].vertex \in Int
    BY <1>1, <1>2, ParticleFields
  <2> HIDE DEF linked, p
  <2>4. CASE IsFarther(p, index)
    <3> DEFINE x == mc[index].vertex
               e == [linked EXCEPT ![p].endpoint = x]
    <3> HIDE DEF x
    <3>1. p \in 1 .. Len(linked) /\ x \in Int
      BY <1>2, <1>4, <2>1, <2>3 DEF x
    <3>2. /\ e \in Seq(Particle) /\ Len(e) = Len(linked)
          /\ \A i \in 1 .. Len(linked) :
               /\ e[i].vertex = linked[i].vertex
               /\ e[i].endpoint = IF i = p THEN x ELSE linked[i].endpoint
               /\ e[i].parents = linked[i].parents
      BY <2>1, <3>1, EndpointAdds
    <3>3. mc' = e
      BY <2>2, <2>4 DEF x
    <3> HIDE DEF e
    <3> QED
      BY <1>1, <1>4, <2>1, <2>4, <3>2, <3>3 DEF x, p
  <2>5. CASE ~IsFarther(p, index)
    BY <1>1, <1>4, <2>1, <2>2, <2>5 DEF p
  <2> QED
    BY <2>4, <2>5
<1> QED
  BY <1>3, <1>4

LEMMA Squares == ASSUME NEW x \in Int PROVE x * x \in Int /\ x * x >= 0
<1>1. CASE x >= 0
  BY <1>1
<1>2. CASE x < 0
  BY <1>2
<1> QED
  BY <1>1, <1>2

LEMMA DisplacementNat ==
  ASSUME mc \in Seq(Particle), NEW p \in 1 .. Len(mc), NEW d \in 1 .. Len(mc)
  PROVE  Displacement(p, d) \in Int /\ Displacement(p, d) >= 0
<1> DEFINE x == mc[d].vertex - mc[p].vertex
<1>1. x \in Int
  BY ParticleFields
<1>2. Displacement(p, d) = x * x
  BY DEF Displacement
<1> HIDE DEF x
<1> QED
  BY <1>1, <1>2, Squares

LEMMA TypesOfGraph ==
  ASSUME TruthTypeOK, InStep, GraphRound
  PROVE  TruthTypeOK' /\ InStep'
<1>1. /\ nGen \in Nat /\ nTracks \in Nat /\ UNCHANGED <<event, loop, points, particleOfTrack>>
      /\ loop = "graph" /\ index' = index + 1
  BY Sizes DEF GraphRound, LoopRound
<1>2. nGen' = nGen /\ nTracks' = nTracks
  BY <1>1, RigidSizes
<1>3. /\ index \in 1 .. nGen /\ Created = nGen /\ Created' = nGen /\ Followed = 0 /\ Followed' = 0
  BY RoundCounts
<1>4. mc' \in Seq(Particle) /\ Len(mc') = Len(mc) /\ mc \in Seq(Particle) /\ nGen <= Len(mc)
  BY GraphMoves DEF TruthTypeOK, Particle
<1>5. InStep'
  BY <1>1, <1>2, <1>3, <1>4 DEF InStep
<1>6. bestDisp' \in [1 .. nGen -> Int]
  <2> DEFINE p == Mother(index)
             x == Displacement(p, index)
  <2>1. p \in 1 .. nGen => x \in Int
    <3>1. index \in 1 .. Len(mc) /\ \A i \in 1 .. nGen : i \in 1 .. Len(mc)
      BY <1>1, <1>3, <1>4
    <3> HIDE DEF p
    <3> QED
      BY <1>4, <3>1, DisplacementNat
  <2>2. bestDisp' = bestDisp \/ (p \in 1 .. nGen /\ bestDisp' = [bestDisp EXCEPT ![p] = x])
    BY DEF GraphRound
  <2>3. bestDisp \in [1 .. nGen -> Int]
    BY DEF TruthTypeOK
  <2> HIDE DEF p, x
  <2> QED
    BY <2>1, <2>2, <2>3
<1>7. particleOfTrack' \in Seq(Nat) /\ index' \in Int
  BY <1>1, <1>3 DEF TruthTypeOK
<1> QED
  BY <1>1, <1>4, <1>5, <1>6, <1>7, TypesOfTree

\* What a round over the tracks makes of the particles.
LEMMA ParticlesMove ==
  ASSUME TruthTypeOK, InStep, ParticlesRound
  PROVE  LET track == event.tracks[index] IN
         /\ mc' \in Seq(Particle) /\ Len(mc) <= Len(mc')
         /\ \A i \in 1 .. Len(mc) : mc'[i] = mc[i]
         /\ particleOfTrack' \in Seq(Nat) /\ Len(particleOfTrack') = index
         /\ \A t \in 1 .. index - 1 : particleOfTrack'[t] = particleOfTrack[t]
         /\ particleOfTrack'[index] \in 1 .. Len(mc')
         /\ track.line >= 1 => particleOfTrack'[index] = track.line
         /\ ~(track.line >= 1) =>
              /\ particleOfTrack'[index] = Len(mc) + 1
              /\ mc'[Len(mc) + 1] = MCParticle(SimulatedVertexPosition(track.origin))
<1> DEFINE line == event.tracks[index].line
           origin == event.tracks[index].origin
<1>1. /\ mc \in Seq(Particle) /\ particleOfTrack \in Seq(Nat) /\ nGen \in Nat
      /\ index \in 1 .. nTracks /\ nTracks \in Nat
  BY Sizes, RoundCounts DEF TruthTypeOK, Particle
<1>2. Len(particleOfTrack) = index - 1 /\ nGen <= Len(mc)
  BY RoundCounts DEF InStep
<1>3. line \in 0 .. nGen /\ SimulatedVertexPosition(origin) \in Int \cup {Unset}
  BY <1>1, Sizes, TrackShape, VertexShape
<1>4. CASE line >= 1
  <2>1. line \in 1 .. nGen
    <3> HIDE DEF line
    <3> QED
      BY <1>1, <1>3, <1>4
  <2>2. particleOfTrack' = Append(particleOfTrack, line) /\ mc' = mc
    BY <2>1 DEF ParticlesRound
  <2> HIDE DEF line
  <2> QED
    BY <1>1, <1>2, <1>4, <2>1, <2>2 DEF line
<1>5. CASE ~(line >= 1)
  <2>1. line \notin 1 .. nGen
    <3> HIDE DEF line
    <3> QED
      BY <1>1, <1>3, <1>5
  <2> DEFINE new == MCParticle(SimulatedVertexPosition(origin))
  <2>2. particleOfTrack' = Append(particleOfTrack, Len(mc) + 1) /\ mc' = Append(mc, new)
    BY <2>1 DEF ParticlesRound
  <2>3. new \in Particle
    BY <1>3, ParticleShape
  <2> HIDE DEF new, line
  <2> QED
    BY <1>1, <1>2, <1>5, <2>2, <2>3 DEF new, line
<1> QED
  BY <1>4, <1>5

LEMMA TypesOfParticles ==
  ASSUME TruthTypeOK, InStep, ParticlesRound
  PROVE  TruthTypeOK' /\ InStep'
<1>1. /\ nGen \in Nat /\ nTracks \in Nat /\ UNCHANGED <<event, loop, points, bestDisp>>
      /\ loop = "particles" /\ index' = index + 1
  BY Sizes DEF ParticlesRound, LoopRound
<1>2. nGen' = nGen /\ nTracks' = nTracks
  BY <1>1, RigidSizes
<1>3. /\ index \in 1 .. nTracks /\ Created = nGen /\ Created' = nGen
      /\ Followed = index - 1 /\ Followed' = index
  BY RoundCounts
<1>4. /\ mc' \in Seq(Particle) /\ Len(mc) <= Len(mc')
      /\ particleOfTrack' \in Seq(Nat) /\ Len(particleOfTrack') = index
      /\ \A t \in 1 .. index - 1 : particleOfTrack'[t] = particleOfTrack[t]
      /\ particleOfTrack'[index] \in 1 .. Len(mc')
  BY ParticlesMove
<1>5. mc \in Seq(Particle) /\ nGen <= Len(mc)
  BY <1>3 DEF TruthTypeOK, InStep, Particle
<1>6. \A t \in 1 .. index - 1 : particleOfTrack[t] \in 1 .. Len(mc)
  BY <1>3 DEF InStep
<1>7. \A t \in 1 .. index : particleOfTrack'[t] \in 1 .. Len(mc')
  <2>1. \A t \in 1 .. index : t = index \/ t \in 1 .. index - 1
    BY <1>1, <1>3
  <2>2. Len(mc) \in Nat /\ Len(mc') \in Nat
    BY <1>4, <1>5
  <2>3. \A x \in 1 .. Len(mc) : x \in 1 .. Len(mc')
    BY <1>4, <2>2
  <2> QED
    BY <1>4, <1>6, <2>1, <2>3
<1>8. InStep'
  <2>1. nGen <= Len(mc')
    BY <1>1, <1>4, <1>5
  <2> QED
    BY <1>1, <1>2, <1>3, <1>4, <1>7, <2>1 DEF InStep
<1>9. bestDisp' \in [1 .. nGen -> Int] /\ index' \in Int
  BY <1>1, <1>3 DEF TruthTypeOK
<1> QED
  BY <1>1, <1>4, <1>8, <1>9, TypesOfTree

\* What a round over the ends makes of the particles.
LEMMA EndsMove ==
  ASSUME TruthTypeOK, InStep, EndsRound
  PROVE  LET p == particleOfTrack[index]
             position == SimulatedVertexPosition(event.tracks[index].end)
         IN  /\ mc' \in Seq(Particle) /\ Len(mc') = Len(mc) /\ p \in 1 .. Len(mc)
             /\ \A i \in 1 .. Len(mc) :
                  /\ mc'[i].vertex = mc[i].vertex
                  /\ mc'[i].endpoint = IF i = p /\ position # Unset THEN position ELSE mc[i].endpoint
                  /\ mc'[i].parents = IF i = p /\ Maker(index) \in 1 .. nTracks
                                      THEN Append(mc[i].parents, particleOfTrack[Maker(index)])
                                      ELSE mc[i].parents
<1> DEFINE p == particleOfTrack[index]
           k == event.tracks[index].end
           position == SimulatedVertexPosition(k)
           ended == Ended(mc, p, k)
           q == particleOfTrack[Maker(index)]
<1>1. /\ mc \in Seq(Particle) /\ EventShape(event) /\ p \in 1 .. Len(mc)
      /\ Maker(index) \in 1 .. nTracks => q \in 1 .. Len(mc)
  BY Sizes, RoundCounts DEF TruthTypeOK, InStep, Particle
<1>2. /\ ended \in Seq(Particle) /\ Len(ended) = Len(mc)
      /\ \A i \in 1 .. Len(mc) :
           /\ ended[i].vertex = mc[i].vertex
           /\ ended[i].endpoint = IF i = p /\ position # Unset THEN position ELSE mc[i].endpoint
           /\ ended[i].parents = mc[i].parents
  BY <1>1, EndedAdds
<1>3. mc' = IF Maker(index) \in 1 .. nTracks THEN Related(ended, q, p) ELSE ended
  BY DEF EndsRound
<1> HIDE DEF p, k, position, ended, q
<1>4. CASE Maker(index) \in 1 .. nTracks
  <2> DEFINE r == Related(ended, q, p)
  <2>1. /\ r \in Seq(Particle) /\ Len(r) = Len(ended)
        /\ \A i \in 1 .. Len(ended) :
             /\ r[i].vertex = ended[i].vertex
             /\ r[i].endpoint = ended[i].endpoint
             /\ r[i].parents = IF i = p THEN Append(ended[i].parents, q) ELSE ended[i].parents
    BY <1>1, <1>2, <1>4, RelatedAdds
  <2>2. mc' = r
    BY <1>3, <1>4
  <2> HIDE DEF r
  <2> QED
    BY <1>1, <1>2, <1>4, <2>1, <2>2 DEF p, k, position, q
<1>5. CASE Maker(index) \notin 1 .. nTracks
  BY <1>1, <1>2, <1>3, <1>5 DEF p, k, position, q
<1> QED
  BY <1>4, <1>5

LEMMA TypesOfEnds ==
  ASSUME TruthTypeOK, InStep, EndsRound
  PROVE  TruthTypeOK' /\ InStep'
<1>1. /\ nGen \in Nat /\ nTracks \in Nat /\ UNCHANGED <<event, loop, points, bestDisp, particleOfTrack>>
      /\ loop = "ends" /\ index' = index + 1
  BY Sizes DEF EndsRound, LoopRound
<1>2. nGen' = nGen /\ nTracks' = nTracks
  BY <1>1, RigidSizes
<1>3. /\ index \in 1 .. nTracks /\ Created = nGen /\ Created' = nGen
      /\ Followed = nTracks /\ Followed' = nTracks
  BY RoundCounts
<1>4. mc' \in Seq(Particle) /\ Len(mc') = Len(mc)
  BY EndsMove
<1>5. InStep'
  BY <1>1, <1>2, <1>3, <1>4 DEF InStep
<1>6. bestDisp' \in [1 .. nGen -> Int] /\ particleOfTrack' \in Seq(Nat) /\ index' \in Int
  BY <1>1, <1>3 DEF TruthTypeOK
<1> QED
  BY <1>1, <1>4, <1>5, <1>6, TypesOfTree

LEMMA TruthTypesStep == TruthTypeOK /\ InStep /\ [TruthNext]_truthVars => TruthTypeOK' /\ InStep'
  BY TypesStay, TypesOfPoints, TypesOfCreation, TypesOfGraph, TypesOfParticles, TypesOfEnds
  DEF TruthNext

LEMMA TruthTypesInit == TruthInit => TruthTypeOK /\ InStep
<1> SUFFICES ASSUME TruthInit PROVE TruthTypeOK /\ InStep
  OBVIOUS
<1>1. EventShape(event)
  BY TruthAssumption DEF TruthInit
<1>2. /\ nGen \in Nat
      /\ \A i \in 1 .. nGen : event.lines[i].start \in Int
  BY <1>1, LineShape
<1>3. /\ loop = "decay" /\ index = nGen /\ mc = <<>> /\ particleOfTrack = <<>>
      /\ Len(mc) = 0 /\ Len(particleOfTrack) = 0
  BY DEF TruthInit
<1>4. Created = 0 /\ Followed = 0
  BY <1>3 DEF Created, Followed
<1>5. /\ productionPoint \in [1 .. nGen -> Int \cup {Unset}]
      /\ decayPoint \in [1 .. nGen -> Int \cup {Unset}]
      /\ bestDisp \in [1 .. nGen -> Int]
  BY <1>2 DEF TruthInit
<1>6. InStep
  BY <1>2, <1>3, <1>4 DEF InStep
<1> QED
  BY <1>1, <1>2, <1>3, <1>5, <1>6 DEF TruthTypeOK, After

-----------------------------------------------------------------------------
(***************************************************************************)
(* Where the lines decay.                                                  *)
(***************************************************************************)
LEMMA RigidLines ==
  ASSUME UNCHANGED event
  PROVE  /\ nGen' = nGen /\ \A i : Mother(i)' = Mother(i) /\ HasMother(i)' = HasMother(i)
         /\ \A i : Tracked(i)' = Tracked(i) /\ Daughters(i)' = Daughters(i)
         /\ \A D : Starts(D)' = Starts(D)
         /\ TrackedBelow' = TrackedBelow
<1>1. /\ nGen' = nGen /\ \A i : Mother(i)' = Mother(i) /\ HasMother(i)' = HasMother(i)
      /\ \A i : Tracked(i)' = Tracked(i)
  BY DEF nGen, Mother, HasMother, Tracked
<1>2. \A i : Daughters(i)' = Daughters(i)
  BY <1>1 DEF Daughters
<1>3. \A D : Starts(D)' = Starts(D)
  BY DEF Starts
<1>4. TrackedBelow' = TrackedBelow
  <2> DEFINE Below(e) ==
               LET below[i \in 1 .. Len(e.lines)] ==
                     UNION {IF e.lines[d].start # 0 THEN {d} ELSE below[d] :
                              d \in {d \in 1 .. Len(e.lines) : e.lines[d].mother = i}}
               IN  below
  <2>1. TrackedBelow = Below(event)
    BY DEF TrackedBelow, Daughters, Mother, Tracked, nGen
  <2>2. TrackedBelow' = Below(event')
    BY DEF TrackedBelow, Daughters, Mother, Tracked, nGen
  <2> HIDE DEF Below
  <2> QED
    BY <2>1, <2>2
<1> QED
  BY <1>1, <1>2, <1>3, <1>4

\* What is below a line does not change; only the loop and the points do.
LEMMA DecaysNext ==
  ASSUME UNCHANGED event, \A m \in 1 .. nGen : DecaysAt(m, Decayed', decayPoint'[m])
  PROVE  DecaysKnown'
<1>1. \A d : HandsUp(d)' = HandsUp(d)
  BY RigidLines DEF HandsUp
<1>2. \A m : DaughtersAfter(m, Decayed)' = DaughtersAfter(m, Decayed')
  BY RigidLines DEF DaughtersAfter
<1>3. \A m : BelowAfter(m, Decayed)' = BelowAfter(m, Decayed')
  BY <1>1, <1>2 DEF BelowAfter
<1> QED
  BY <1>2, <1>3, RigidLines DEF DecaysKnown, DecaysAt

\* Of the sets of lines a decay point is taken from.
LEMMA BelowShape ==
  ASSUME EventShape(event), NEW m \in 1 .. nGen, NEW k
  PROVE  /\ DaughtersAfter(m, k) \subseteq 1 .. nGen
         /\ BelowAfter(m, k) \subseteq 1 .. nGen
         /\ {d \in DaughtersAfter(m, k) : Tracked(d)} \subseteq BelowAfter(m, k)
<1>1. DaughtersAfter(m, k) \subseteq 1 .. nGen
  BY DEF DaughtersAfter, Daughters
<1>2. \A d \in 1 .. nGen : HandsUp(d) \subseteq 1 .. nGen
  BY BelowIsHandedUp DEF HandsUp
<1> QED
  BY <1>1, <1>2 DEF BelowAfter, HandsUp

\* Every line has a start; more lines have no fewer starts.
LEMMA StartsShape ==
  ASSUME EventShape(event), NEW D \in SUBSET (1 .. nGen)
  PROVE  Unset \notin Starts(D) /\ \A E \in SUBSET D : Starts(E) \subseteq Starts(D)
  BY LineShape, TruthAssumption DEF Starts

\* Passing line i adds what it hands up to its mother, and to her alone.
LEMMA AfterOneMore ==
  ASSUME EventShape(event), NEW i \in 1 .. nGen, NEW m
  PROVE  /\ Mother(i) # m => /\ DaughtersAfter(m, i - 1) = DaughtersAfter(m, i)
                             /\ BelowAfter(m, i - 1) = BelowAfter(m, i)
         /\ Mother(i) = m => /\ DaughtersAfter(m, i - 1) = DaughtersAfter(m, i) \cup {i}
                             /\ BelowAfter(m, i - 1) = BelowAfter(m, i) \cup HandsUp(i)
<1>1. nGen \in Nat
  BY LineShape
<1>2. \A d \in 1 .. nGen : d > i - 1 <=> d > i \/ d = i
  BY <1>1
<1>3. /\ Mother(i) # m => DaughtersAfter(m, i - 1) = DaughtersAfter(m, i)
      /\ Mother(i) = m => DaughtersAfter(m, i - 1) = DaughtersAfter(m, i) \cup {i}
  BY <1>2 DEF DaughtersAfter, Daughters
<1> QED
  BY <1>3 DEF BelowAfter

\* Line i is passed after all its daughters.
LEMMA DaughtersComeFirst ==
  ASSUME EventShape(event), NEW i \in 1 .. nGen, NEW k \in 0 .. i
  PROVE  DaughtersAfter(i, k) = Daughters(i) /\ BelowAfter(i, k) = TrackedBelow[i]
<1>1. DaughtersAfter(i, k) = Daughters(i)
  <2>1. ASSUME NEW d \in Daughters(i) PROVE d > k
    <3>1. d \in 1 .. nGen /\ Mother(d) = i
      BY DEF Daughters
    <3>2. Mother(d) < d /\ nGen \in Nat
      BY <3>1, LineShape
    <3> QED
      BY <3>1, <3>2
  <2> QED
    BY <2>1 DEF DaughtersAfter
<1> QED
  BY <1>1, BelowIsHandedUp DEF BelowAfter

\* A round of the decay loop tells the mother of the line where she decays.
LEMMA DecayRoundKeeps ==
  ASSUME TruthTypeOK, InStep, StartsKnown, DecaysKnown, DecayRound
  PROVE  DecaysKnown'
<1> DEFINE i == index
           y == DecayAt(i, Mother(i))
<1>1. /\ EventShape(event) /\ nGen \in Nat /\ i \in 1 .. nGen /\ UNCHANGED event
      /\ Decayed = i /\ Decayed' = i - 1 /\ Produced = 0
  BY Sizes, RoundCounts DEF DecayRound, LoopRound
<1>2. HasMother(i) <=> Mother(i) \in 1 .. nGen
  BY <1>1, LineShape
<1>3. /\ HasMother(i) => decayPoint' = [decayPoint EXCEPT ![Mother(i)] = y]
      /\ ~HasMother(i) => decayPoint' = decayPoint
  BY DEF DecayRound
<1>4. decayPoint \in [1 .. nGen -> Int \cup {Unset}]
  BY DEF TruthTypeOK
<1> HIDE DEF i, y
<1> SUFFICES ASSUME NEW m \in 1 .. nGen PROVE DecaysAt(m, i - 1, decayPoint'[m])
  BY <1>1, DecaysNext
<1>5. DecaysAt(m, i, decayPoint[m])
  BY <1>1 DEF DecaysKnown
<1>6. CASE Mother(i) # m
  <2>1. decayPoint'[m] = decayPoint[m]
    BY <1>2, <1>3, <1>4, <1>6
  <2>2. DaughtersAfter(m, i - 1) = DaughtersAfter(m, i) /\ BelowAfter(m, i - 1) = BelowAfter(m, i)
    BY <1>1, <1>6, AfterOneMore
  <2> QED
    BY <1>5, <2>1, <2>2 DEF DecaysAt
<1>7. CASE Mother(i) = m
  <2> DEFINE x == decayPoint[m]
             D == DaughtersAfter(m, i)
             B == BelowAfter(m, i)
             tracked == {d \in D : Tracked(d)}
  <2>1. decayPoint'[m] = DecayAt(i, m)
    BY <1>2, <1>3, <1>4, <1>7 DEF y
  <2>2. DaughtersAfter(m, i - 1) = D \cup {i} /\ BelowAfter(m, i - 1) = B \cup HandsUp(i)
    BY <1>1, <1>7, AfterOneMore
  <2>3. B \subseteq 1 .. nGen /\ tracked \subseteq B /\ HandsUp(i) \subseteq 1 .. nGen
    BY <1>1, BelowShape, BelowIsHandedUp DEF HandsUp
  <2>4. /\ tracked # {} => x \in Starts(tracked)
        /\ B # {} => x \in Starts(B)
        /\ B = {} => x = Unset
    BY <1>5 DEF DecaysAt
  <2>5. productionPoint[i] = IF Tracked(i) THEN event.lines[i].start ELSE Unset
    BY <1>1 DEF StartsKnown
  <2>6. \A S \in SUBSET (1 .. nGen) : /\ Unset \notin Starts(S)
                                      /\ \A E \in SUBSET S : Starts(E) \subseteq Starts(S)
    BY <1>1, StartsShape
  <2> SUFFICES DecaysAt(m, i - 1, DecayAt(i, m))
    BY <2>1
  <2>7. CASE Tracked(i)
    <3>1. DecayAt(i, m) = event.lines[i].start
      <4>1. event.lines[i].start # Unset
        BY <1>1, LineShape, TruthAssumption
      <4> QED
        BY <2>5, <2>7, <4>1 DEF DecayAt
    <3>2. HandsUp(i) = {i} /\ i \in {d \in D \cup {i} : Tracked(d)}
      BY <2>7 DEF HandsUp
    <3>3. \A S : i \in S => event.lines[i].start \in Starts(S)
      BY DEF Starts
    <3> QED
      BY <2>2, <3>1, <3>2, <3>3 DEF DecaysAt
  <2>8. CASE ~Tracked(i)
    <3>1. /\ productionPoint[i] = Unset /\ HandsUp(i) = TrackedBelow[i]
          /\ {d \in D \cup {i} : Tracked(d)} = tracked
      BY <2>5, <2>8 DEF HandsUp
    <3>2. CASE x = Unset
      <4>1. B = {} /\ tracked = {}
        BY <2>3, <2>4, <2>6, <3>2
      <4>2. DecayAt(i, m) = decayPoint[i]
        BY <3>1, <3>2 DEF DecayAt
      <4>3. DecaysAt(i, i, decayPoint[i]) /\ BelowAfter(i, i) = TrackedBelow[i]
        BY <1>1, DaughtersComeFirst DEF DecaysKnown
      <4>4. /\ TrackedBelow[i] # {} => decayPoint[i] \in Starts(TrackedBelow[i])
            /\ TrackedBelow[i] = {} => decayPoint[i] = Unset
        BY <4>3 DEF DecaysAt
      <4> HIDE DEF B, D, x, tracked
      <4>5. BelowAfter(m, i - 1) = TrackedBelow[i]
        BY <2>2, <3>1, <4>1
      <4>6. {d \in DaughtersAfter(m, i - 1) : Tracked(d)} = {}
        BY <2>2, <3>1, <4>1
      <4> QED
        BY <4>2, <4>4, <4>5, <4>6 DEF DecaysAt
    <3>3. CASE x # Unset
      <4>1. B # {} /\ x \in Starts(B)
        BY <2>4, <3>3
      <4>2. DecayAt(i, m) = x
        BY <3>1, <3>3 DEF DecayAt
      <4> HIDE DEF B, D, x, tracked
      <4>3. x \in Starts(B \cup HandsUp(i)) /\ B \cup HandsUp(i) # {}
        <5>1. B \cup HandsUp(i) \in SUBSET (1 .. nGen) /\ B \in SUBSET (B \cup HandsUp(i))
          BY <2>3
        <5> QED
          BY <2>6, <4>1, <5>1
      <4>4. {d \in DaughtersAfter(m, i - 1) : Tracked(d)} = tracked
        BY <2>2, <3>1
      <4> QED
        BY <2>2, <2>4, <4>2, <4>3, <4>4 DEF DecaysAt
    <3> QED
      BY <3>2, <3>3
  <2> QED
    BY <2>7, <2>8
<1> QED
  BY <1>6, <1>7

-----------------------------------------------------------------------------
(***************************************************************************)
(* Where the lines start.                                                  *)
(***************************************************************************)
LEMMA ProductionRoundKeeps ==
  ASSUME TruthTypeOK, InStep, StartsKnown, ProductionRound
  PROVE  StartsKnown'
<1> DEFINE i == index
<1>1. /\ EventShape(event) /\ nGen \in Nat /\ i \in 1 .. nGen /\ UNCHANGED <<event, decayPoint>>
      /\ Produced = i - 1 /\ Produced' = i
  BY Sizes, RoundCounts DEF ProductionRound, LoopRound
<1>2. productionPoint' = IF productionPoint[i] = Unset
                         THEN [productionPoint EXCEPT ![i] = StartOf(i)] ELSE productionPoint
  BY DEF ProductionRound
<1>3. productionPoint \in [1 .. nGen -> Int \cup {Unset}]
  BY DEF TruthTypeOK
<1> HIDE DEF i
<1>4. \A j \in 1 .. nGen : j # i => productionPoint'[j] = productionPoint[j]
  BY <1>2, <1>3
<1>5. ASSUME NEW j \in 1 .. nGen, j <= i PROVE StartOf(j)' = StartOf(j)
  <2>1. HasMother(j) => Mother(j) \in 1 .. nGen /\ Mother(j) # i
    BY <1>1, <1>5, LineShape
  <2>2. /\ HasMother(j)' = HasMother(j) /\ Mother(j)' = Mother(j)
        /\ event' = event /\ decayPoint' = decayPoint
    BY <1>1, RigidLines
  <2>3. HasMother(j) => productionPoint'[Mother(j)] = productionPoint[Mother(j)]
    BY <1>4, <2>1
  <2> QED
    BY <2>2, <2>3 DEF StartOf
<1> SUFFICES ASSUME NEW j \in 1 .. nGen
             PROVE  productionPoint'[j] = IF Tracked(j) THEN event.lines[j].start
                                          ELSE IF j <= i THEN StartOf(j)'
                                          ELSE Unset
  BY <1>1, RigidLines DEF StartsKnown
<1>6. productionPoint[j] = IF Tracked(j) THEN event.lines[j].start
                           ELSE IF j <= i - 1 THEN StartOf(j)
                           ELSE Unset
  BY <1>1 DEF StartsKnown
<1>7. event.lines[j].start # Unset
  BY <1>1, LineShape, TruthAssumption
<1>8. CASE j = i
  <2>1. ~(j <= i - 1) /\ j <= i
    BY <1>1, <1>8
  <2> QED
    BY <1>1, <1>2, <1>3, <1>5, <1>6, <1>7, <1>8, <2>1
<1>9. CASE j # i
  <2>1. j <= i - 1 <=> j <= i
    BY <1>1, <1>9
  <2> QED
    BY <1>4, <1>5, <1>6, <1>9, <2>1
<1> QED
  BY <1>8, <1>9

\* The other loops leave both points of the lines alone.
LEMMA PointsStay ==
  ASSUME TruthTypeOK, InStep,
         NextLoop \/ CreateRound \/ GraphRound \/ ParticlesRound \/ EndsRound \/ UNCHANGED truthVars
  PROVE  /\ UNCHANGED <<event, productionPoint, decayPoint>>
         /\ Decayed' = Decayed /\ Produced' = Produced
<1>1. CASE NextLoop
  BY <1>1, LoopEnds DEF NextLoop, points, counters
<1>2. CASE UNCHANGED truthVars
  <2>1. UNCHANGED <<event, loop, index, productionPoint, decayPoint>>
    BY <1>2 DEF truthVars, points
  <2> QED
    BY <2>1, RigidSizes DEF Decayed, Produced
<1>3. CASE CreateRound \/ GraphRound \/ ParticlesRound \/ EndsRound
  BY <1>3, RoundCounts DEF CreateRound, GraphRound, ParticlesRound, EndsRound, LoopRound, points
<1> QED
  BY <1>1, <1>2, <1>3

LEMMA PointsStep ==
  TruthTypeOK /\ InStep /\ PointsKnown /\ [TruthNext]_truthVars => PointsKnown'
<1> SUFFICES ASSUME TruthTypeOK, InStep, DecaysKnown, StartsKnown, [TruthNext]_truthVars
             PROVE  DecaysKnown' /\ StartsKnown'
  BY DEF PointsKnown
<1>1. ASSUME UNCHANGED <<event, decayPoint>>, Decayed' = Decayed PROVE DecaysKnown'
  BY <1>1, DecaysNext DEF DecaysKnown
<1>2. CASE DecayRound
  <2>1. UNCHANGED <<event, productionPoint>> /\ Produced = 0 /\ Produced' = 0
    BY <1>2, RoundCounts DEF DecayRound, LoopRound
  <2>2. \A i \in 1 .. nGen : ~(i <= 0)
    BY Sizes
  <2>3. StartsKnown'
    BY <2>1, <2>2, RigidLines DEF StartsKnown
  <2> QED
    BY <1>2, <2>3, DecayRoundKeeps
<1>3. CASE ProductionRound
  <2>1. UNCHANGED <<event, decayPoint>> /\ Decayed' = Decayed
    BY <1>3, RoundCounts DEF ProductionRound, LoopRound
  <2> QED
    BY <1>1, <1>3, <2>1, ProductionRoundKeeps
<1>4. CASE NextLoop \/ CreateRound \/ GraphRound \/ ParticlesRound \/ EndsRound \/ UNCHANGED truthVars
  <2>1. /\ UNCHANGED <<event, productionPoint, decayPoint>>
        /\ Decayed' = Decayed /\ Produced' = Produced
    BY <1>4, PointsStay
  <2>2. StartsKnown'
    BY <2>1, RigidLines DEF StartsKnown, StartOf
  <2> QED
    BY <1>1, <2>1, <2>2
<1> QED
  BY <1>2, <1>3, <1>4 DEF TruthNext, TruthDone

LEMMA PointsInit == TruthInit => PointsKnown
<1> SUFFICES ASSUME TruthInit PROVE DecaysKnown /\ StartsKnown
  BY DEF PointsKnown
<1>1. /\ EventShape(event) /\ nGen \in Nat /\ Decayed = nGen /\ Produced = 0
      /\ \A i \in 1 .. nGen : decayPoint[i] = Unset
  BY TruthTypesInit, Sizes DEF TruthInit, Decayed, Produced
<1>2. StartsKnown
  BY <1>1 DEF StartsKnown, TruthInit
<1>3. ASSUME NEW m \in 1 .. nGen PROVE DecaysAt(m, nGen, Unset)
  <2>1. DaughtersAfter(m, nGen) = {}
    BY <1>1 DEF DaughtersAfter, Daughters
  <2> QED
    BY <2>1 DEF DecaysAt, BelowAfter
<1> QED
  BY <1>1, <1>2, <1>3 DEF DecaysKnown

-----------------------------------------------------------------------------
(***************************************************************************)
(* The tree.  Each loop only extends what those before it made.            *)
(***************************************************************************)
LEMMA RigidTracks ==
  ASSUME UNCHANGED event
  PROVE  /\ nTracks' = nTracks
         /\ \A t : Maker(t)' = Maker(t)
         /\ \A k : SimulatedVertexPosition(k)' = SimulatedVertexPosition(k)
         /\ \A p : DaughtersUpTo(p, Graphed)' = DaughtersUpTo(p, Graphed')
<1>1. nTracks' = nTracks
  BY RigidSizes
<1>2. \A k : SimulatedVertexPosition(k)' = SimulatedVertexPosition(k)
  BY DEF SimulatedVertexPosition
<1>3. \A t : Maker(t)' = Maker(t)
  BY DEF Maker, TrackEnteringVertex
<1>4. \A p : DaughtersUpTo(p, Graphed)' = DaughtersUpTo(p, Graphed')
  BY RigidLines DEF DaughtersUpTo
<1> QED
  BY <1>1, <1>2, <1>3, <1>4

\* The lines whose particles exist.
LEMMA LinesAreParticles ==
  ASSUME TruthTypeOK, InStep
  PROVE  /\ mc \in Seq(Particle) /\ nGen \in Nat /\ Created \in 0 .. nGen /\ Graphed \in 0 .. nGen
         /\ \A i \in 1 .. Created : i \in 1 .. Len(mc) /\ i \in 1 .. nGen
         /\ Graphed # 0 => Created = nGen
         /\ \A p \in 1 .. nGen : DaughtersUpTo(p, Graphed) \subseteq 1 .. Created
<1>1. mc \in Seq(Particle) /\ nGen \in Nat /\ loop \in Loops /\ index \in Int
  BY Sizes DEF TruthTypeOK, Particle
<1>2. Created \in 0 .. nGen /\ Graphed \in 0 .. nGen /\ (Graphed # 0 => Created = nGen)
  BY <1>1 DEF InStep, Created, Graphed, Loops
<1>3. Len(mc) \in Nat /\ Created <= Len(mc)
  BY <1>1 DEF InStep
<1>4. ASSUME NEW p \in 1 .. nGen, NEW d \in DaughtersUpTo(p, Graphed) PROVE d \in 1 .. Created
  <2>1. d \in 1 .. nGen /\ d <= Graphed
    BY DEF DaughtersUpTo, Daughters
  <2> QED
    BY <1>1, <1>2, <2>1
<1> QED
  BY <1>1, <1>2, <1>3, <1>4

\* Before the graph loop no daughter was passed.
LEMMA NoDaughtersYet ==
  ASSUME EventShape(event) PROVE \A p : DaughtersUpTo(p, 0) = {}
  BY LineShape DEF DaughtersUpTo, Daughters

\* Nothing changes in the loops before the tree and between two loops.
LEMMA TreeStays ==
  ASSUME TruthTypeOK, InStep, TreeKnown,
         UNCHANGED <<event, mc, bestDisp, particleOfTrack, Created, Graphed, Followed, Finished>>,
         Created = 0 \/ UNCHANGED productionPoint
  PROVE  TreeKnown'
<1>1. LinesKnown'
  <2>1. Created = 0 => 1 .. Created = {}
    OBVIOUS
  <2> QED
    BY <2>1, RigidLines DEF TreeKnown, LinesKnown, Placed
<1>2. EndpointsKnown'
  BY RigidLines, RigidTracks DEF TreeKnown, EndpointsKnown, Displacement, Replaced
<1>3. TracksKnown'
  BY RigidLines, RigidTracks DEF TreeKnown, TracksKnown, Placed
<1>4. EndsKnown'
  BY RigidTracks DEF TreeKnown, EndsKnown
<1> QED
  BY <1>1, <1>2, <1>3, <1>4 DEF TreeKnown

\* Before the tracks are followed there is nothing to say about them.
LEMMA NoTracksYet ==
  ASSUME Followed' = 0, Finished' = 0 PROVE TracksKnown' /\ EndsKnown'
  BY DEF TracksKnown, EndsKnown

\* A round of the creation loop appends the particle of its line.
LEMMA CreateRoundKeeps ==
  ASSUME TruthTypeOK, InStep, TreeKnown, CreateRound
  PROVE  TreeKnown'
<1>1. /\ EventShape(event) /\ nGen \in Nat /\ index \in 1 .. nGen
      /\ UNCHANGED <<event, productionPoint, bestDisp>>
      /\ Created = index - 1 /\ Created' = index /\ Graphed = 0 /\ Graphed' = 0
      /\ Followed' = 0 /\ Finished' = 0
  BY Sizes, RoundCounts DEF CreateRound, LoopRound, points
<1> DEFINE new == MCParticle(productionPoint[index])
<1>2. /\ mc \in Seq(Particle) /\ Len(mc) = index - 1 /\ mc' = Append(mc, new)
  BY <1>1, LinesAreParticles DEF CreateRound, InStep, LoopRound
<1>3. /\ new \in Particle /\ new.vertex = Placed(productionPoint[index])
      /\ new.endpoint = 0 /\ new.parents = <<>>
  BY <1>1, ParticleShape DEF TruthTypeOK
<1> HIDE DEF new
<1>4. mc'[index] = new /\ \A i \in 1 .. index - 1 : mc'[i] = mc[i]
  BY <1>1, <1>2, <1>3
<1>5. \A i \in 1 .. index : (i = index \/ i \in 1 .. Created) /\ ~(i <= 0)
  BY <1>1
<1>6. ASSUME NEW i \in 1 .. index
      PROVE  mc'[i].vertex = Placed(productionPoint[i]) /\ mc'[i].parents = <<>> /\ mc'[i].endpoint = 0
  <2>1. CASE i = index
    BY <1>3, <1>4, <2>1
  <2>2. CASE i \in 1 .. Created
    <3>1. mc[i].vertex = Placed(productionPoint[i]) /\ mc[i].parents = <<>>
      BY <1>1, <1>5, <2>2 DEF TreeKnown, LinesKnown
    <3>2. mc[i].endpoint = 0
      <4>1. ~Replaced(i)
        BY <1>1, RoundCounts DEF Replaced
      <4> QED
        BY <1>1, <2>2, <4>1, NoDaughtersYet DEF TreeKnown, EndpointsKnown
    <3> QED
      BY <1>1, <1>4, <2>2, <3>1, <3>2
  <2> QED
    BY <1>5, <2>1, <2>2
<1>7. LinesKnown'
  BY <1>1, <1>5, <1>6, RigidLines DEF LinesKnown, Placed
<1>8. EndpointsKnown'
  <2>1. \A p : DaughtersUpTo(p, Graphed)' = {}
    BY <1>1, NoDaughtersYet, RigidTracks
  <2>2. \A p \in 1 .. nGen : bestDisp[p] = -1
    BY <1>1, NoDaughtersYet DEF TreeKnown, EndpointsKnown
  <2> QED
    BY <1>1, <1>6, <2>1, <2>2, RigidLines DEF EndpointsKnown
<1> QED
  BY <1>1, <1>7, <1>8, NoTracksYet DEF TreeKnown

\* Passing line i adds one daughter to its mother, and to nobody else.
LEMMA UpToOneMore ==
  ASSUME EventShape(event), NEW i \in 1 .. nGen, NEW p
  PROVE  /\ Mother(i) # p => DaughtersUpTo(p, i) = DaughtersUpTo(p, i - 1)
         /\ Mother(i) = p => DaughtersUpTo(p, i) = DaughtersUpTo(p, i - 1) \cup {i}
<1>1. nGen \in Nat
  BY LineShape
<1>2. \A d \in 1 .. nGen : d <= i <=> d <= i - 1 \/ d = i
  BY <1>1
<1> QED
  BY <1>2 DEF DaughtersUpTo, Daughters

\* A round of the graph loop gives a daughter her parent, and the parent a new
\* endpoint if this daughter is farther away than those before.
LEMMA GraphRoundKeeps ==
  ASSUME TruthTypeOK, InStep, TreeKnown, GraphRound
  PROVE  TreeKnown'
<1> DEFINE i == index
           p == Mother(i)
<1>1. /\ EventShape(event) /\ nGen \in Nat /\ i \in 1 .. nGen
      /\ UNCHANGED <<event, productionPoint>>
      /\ Created = nGen /\ Created' = nGen /\ Graphed = i - 1 /\ Graphed' = i
      /\ Followed' = 0 /\ Finished = 0 /\ Finished' = 0
  BY Sizes, RoundCounts DEF GraphRound, LoopRound, points
<1>2. /\ mc \in Seq(Particle) /\ mc' \in Seq(Particle) /\ Len(mc') = Len(mc)
      /\ \A j \in 1 .. nGen : j \in 1 .. Len(mc)
  BY <1>1, LinesAreParticles, GraphMoves
<1>3. ASSUME NEW j \in 1 .. nGen
      PROVE  /\ mc'[j].vertex = mc[j].vertex
             /\ mc'[j].parents = IF j = i /\ p \in 1 .. nGen
                                 THEN Append(mc[j].parents, p) ELSE mc[j].parents
             /\ mc'[j].endpoint = IF j = p /\ p \in 1 .. nGen /\ IsFarther(p, i)
                                  THEN mc[i].vertex ELSE mc[j].endpoint
  BY <1>2, GraphMoves
<1>4. bestDisp' = IF p \in 1 .. nGen /\ IsFarther(p, i)
                  THEN [bestDisp EXCEPT ![p] = Displacement(p, i)] ELSE bestDisp
  BY DEF GraphRound
<1>5. bestDisp \in [1 .. nGen -> Int]
  BY DEF TruthTypeOK
<1>6. p \in 1 .. nGen <=> p >= 1
  BY <1>1, LineShape
<1> HIDE DEF i, p
<1>7. LinesKnown'
  <2>1. ASSUME NEW j \in 1 .. nGen
        PROVE  /\ mc'[j].vertex = Placed(productionPoint[j])
               /\ mc'[j].parents = IF j <= i /\ Mother(j) >= 1 THEN <<Mother(j)>> ELSE <<>>
    <3>1. /\ mc[j].vertex = Placed(productionPoint[j])
          /\ mc[j].parents = IF j <= i - 1 /\ Mother(j) >= 1 THEN <<Mother(j)>> ELSE <<>>
      BY <1>1 DEF TreeKnown, LinesKnown
    <3>2. CASE j = i
      <4>1. ~(j <= i - 1) /\ j <= i
        BY <1>1, <3>2
      <4>2. mc[j].parents = <<>> /\ Append(<<>>, p) = <<p>>
        BY <3>1, <4>1
      <4> QED
        BY <1>3, <1>6, <3>1, <3>2, <4>1, <4>2 DEF p
    <3>3. CASE j # i
      <4>1. j <= i - 1 <=> j <= i
        BY <1>1, <3>3
      <4> QED
        BY <1>3, <3>1, <3>3, <4>1
    <3> QED
      BY <3>2, <3>3
  <2> QED
    BY <1>1, <2>1, RigidLines DEF LinesKnown, Placed
<1>8. \A q, d \in 1 .. nGen : Displacement(q, d)' = Displacement(q, d)
  BY <1>3 DEF Displacement
<1>9. ASSUME NEW q \in 1 .. nGen
      PROVE  /\ DaughtersUpTo(q, i) = {} => bestDisp'[q] = -1 /\ mc'[q].endpoint = 0
             /\ \A d \in DaughtersUpTo(q, i) : Displacement(q, d) <= bestDisp'[q]
             /\ DaughtersUpTo(q, i) # {} =>
                  \E d \in DaughtersUpTo(q, i) :
                    mc'[q].endpoint = mc[d].vertex /\ bestDisp'[q] = Displacement(q, d)
  <2> DEFINE D == DaughtersUpTo(q, i - 1)
  <2>1. /\ D = {} => bestDisp[q] = -1 /\ mc[q].endpoint = 0
        /\ \A d \in D : Displacement(q, d) <= bestDisp[q]
        /\ D # {} => \E d \in D : mc[q].endpoint = mc[d].vertex /\ bestDisp[q] = Displacement(q, d)
    <3>1. ~Replaced(q)
      BY <1>1 DEF Replaced
    <3> QED
      BY <1>1, <3>1 DEF TreeKnown, EndpointsKnown
  <2>2. CASE p # q
    <3>1. DaughtersUpTo(q, i) = D
      BY <1>1, <2>2, UpToOneMore DEF p
    <3>2. bestDisp'[q] = bestDisp[q] /\ mc'[q].endpoint = mc[q].endpoint
      BY <1>3, <1>4, <1>5, <2>2
    <3> HIDE DEF D
    <3> QED
      BY <2>1, <3>1, <3>2
  <2>3. CASE p = q
    <3> DEFINE x == Displacement(q, i)
    <3>1. DaughtersUpTo(q, i) = D \cup {i}
      BY <1>1, <2>3, UpToOneMore DEF p
    <3>2. x \in Int /\ x >= 0
      BY <1>1, <1>2, DisplacementNat
    <3>3. \A d \in D : Displacement(q, d) \in Int
      <4>1. D \subseteq 1 .. nGen
        BY DEF DaughtersUpTo, Daughters
      <4> QED
        BY <1>2, <4>1, DisplacementNat
    <3>4. bestDisp[q] \in Int
      BY <1>5
    <3>5. IsFarther(p, i) <=> x > bestDisp[q]
      BY <2>3 DEF IsFarther
    <3>6. CASE x > bestDisp[q]
      <4>1. bestDisp'[q] = x /\ mc'[q].endpoint = mc[i].vertex
        BY <1>3, <1>4, <1>5, <2>3, <3>5, <3>6
      <4> HIDE DEF D, x
      <4>2. \A d \in D : Displacement(q, d) <= x
        BY <2>1, <3>2, <3>3, <3>4, <3>6
      <4>3. Displacement(q, i) <= x
        BY <3>2 DEF x
      <4> QED
        BY <3>1, <4>1, <4>2, <4>3 DEF x
    <3>7. CASE ~(x > bestDisp[q])
      <4>1. bestDisp'[q] = bestDisp[q] /\ mc'[q].endpoint = mc[q].endpoint
        BY <1>3, <1>4, <2>3, <3>5, <3>7
      <4>2. D # {}
        <5> HIDE DEF D, x
        <5> QED
          BY <2>1, <3>2, <3>4, <3>7
      <4>3. Displacement(q, i) <= bestDisp[q]
        <5>1. x <= bestDisp[q]
          <6> HIDE DEF x
          <6> QED
            BY <3>2, <3>4, <3>7
        <5> QED
          BY <5>1
      <4> HIDE DEF D, x
      <4> QED
        BY <2>1, <3>1, <4>1, <4>2, <4>3
    <3> QED
      BY <3>6, <3>7
  <2> QED
    BY <2>2, <2>3
<1>10. EndpointsKnown'
  <2>1. \A q : DaughtersUpTo(q, Graphed)' = DaughtersUpTo(q, i)
    BY <1>1, RigidTracks
  <2>2. \A q \in 1 .. nGen : DaughtersUpTo(q, i) \subseteq 1 .. nGen
    BY DEF DaughtersUpTo, Daughters
  <2>3. nGen' = nGen /\ Created' = nGen
    BY <1>1, RigidLines
  <2>4. \A q \in 1 .. nGen : \A d \in DaughtersUpTo(q, i) :
          Displacement(q, d)' = Displacement(q, d) /\ mc'[d].vertex = mc[d].vertex
    BY <1>3, <1>8, <2>2
  <2> QED
    BY <1>9, <2>1, <2>3, <2>4 DEF EndpointsKnown
<1> QED
  BY <1>1, <1>7, <1>10, NoTracksYet DEF TreeKnown

\* A round of the loop over tracks takes the particle of the line, or a new one.
LEMMA ParticlesRoundKeeps ==
  ASSUME TruthTypeOK, InStep, TreeKnown, ParticlesRound
  PROVE  TreeKnown'
<1> DEFINE line(t) == event.tracks[t].line
           origin(t) == event.tracks[t].origin
           start(t) == Placed(SimulatedVertexPosition(origin(t)))
           pot == particleOfTrack
<1>1. /\ EventShape(event) /\ nGen \in Nat /\ nTracks \in Nat /\ index \in 1 .. nTracks
      /\ UNCHANGED <<event, productionPoint, bestDisp>>
      /\ Created = nGen /\ Created' = nGen /\ Graphed = nGen /\ Graphed' = nGen
      /\ Followed = index - 1 /\ Followed' = index /\ Finished = 0 /\ Finished' = 0
  BY Sizes, RoundCounts DEF ParticlesRound, LoopRound, points
<1>2. /\ mc \in Seq(Particle) /\ Len(mc) \in Nat /\ nGen <= Len(mc)
      /\ \A i \in 1 .. nGen : i \in 1 .. Len(mc)
  BY <1>1, LinesAreParticles DEF InStep
<1>3. /\ \A i \in 1 .. Len(mc) : mc'[i] = mc[i]
      /\ \A t \in 1 .. index - 1 : pot'[t] = pot[t] /\ pot[t] \in 1 .. Len(mc)
  BY <1>1, ParticlesMove DEF InStep
<1>4. /\ line(index) >= 1 => pot'[index] = line(index)
      /\ ~(line(index) >= 1) => /\ pot'[index] = Len(mc) + 1
                                /\ mc'[Len(mc) + 1].vertex = start(index)
                                /\ mc'[Len(mc) + 1].parents = <<>>
  <2>1. SimulatedVertexPosition(origin(index)) \in Int \cup {Unset}
    BY <1>1, VertexShape
  <2> QED
    BY <2>1, ParticlesMove, ParticleShape
<1>5. LinesKnown'
  BY <1>1, <1>2, <1>3, RigidLines DEF TreeKnown, LinesKnown, Placed
<1>6. EndpointsKnown'
  <2>1. \A p : DaughtersUpTo(p, Graphed)' = DaughtersUpTo(p, Graphed)
    BY <1>1, RigidTracks
  <2>2. \A p \in 1 .. nGen : DaughtersUpTo(p, Graphed) \subseteq 1 .. nGen
    BY DEF DaughtersUpTo, Daughters
  <2>3. \A p, d \in 1 .. nGen : Displacement(p, d)' = Displacement(p, d)
    BY <1>2, <1>3 DEF Displacement
  <2>4. \A p \in 1 .. nGen : mc'[p] = mc[p]
    BY <1>2, <1>3
  <2>5. \A p : ~Replaced(p) /\ ~Replaced(p)'
    BY <1>1 DEF Replaced
  <2>6. nGen' = nGen
    BY <1>1, RigidLines
  <2>7. /\ \A p \in 1 .. nGen :
             /\ DaughtersUpTo(p, Graphed) = {} => bestDisp[p] = -1
             /\ \A d \in DaughtersUpTo(p, Graphed) : Displacement(p, d) <= bestDisp[p]
        /\ \A p \in 1 .. nGen :
             /\ DaughtersUpTo(p, Graphed) = {} => mc[p].endpoint = 0
             /\ DaughtersUpTo(p, Graphed) # {} =>
                  \E d \in DaughtersUpTo(p, Graphed) :
                    mc[p].endpoint = mc[d].vertex /\ bestDisp[p] = Displacement(p, d)
    BY <1>1, <2>5 DEF TreeKnown, EndpointsKnown
  <2>8. \A p \in 1 .. nGen : \A d \in DaughtersUpTo(p, Graphed) :
          Displacement(p, d)' = Displacement(p, d) /\ mc'[d] = mc[d]
    BY <2>2, <2>3, <2>4
  <2> QED
    BY <1>1, <2>1, <2>4, <2>6, <2>7, <2>8 DEF EndpointsKnown
<1>7. ASSUME NEW t \in 1 .. index - 1
      PROVE  IF line(t) >= 1 THEN pot[t] = line(t)
             ELSE pot[t] > nGen /\ mc[pot[t]].vertex = start(t) /\ mc[pot[t]].parents = <<>>
  <2>1. ~(t <= 0)
    BY <1>1
  <2> QED
    BY <1>1, <2>1 DEF TreeKnown, TracksKnown
<1>8. \A t, u \in 1 .. index - 1 : pot[t] = pot[u] => t = u
  BY <1>1 DEF TreeKnown, TracksKnown
<1>9. \A t \in 1 .. index : t = index \/ t \in 1 .. index - 1
  BY <1>1
<1>10. \A t \in 1 .. nTracks : line(t) \in 0 .. nGen /\ \A u \in 1 .. nTracks : line(t) = line(u) /\ line(t) # 0 => t = u
  BY <1>1, TrackShape
<1> HIDE DEF line, start, origin
<1>11. ASSUME NEW t \in 1 .. index
       PROVE  IF line(t) >= 1 THEN pot'[t] = line(t)
              ELSE pot'[t] > nGen /\ mc'[pot'[t]].vertex = start(t) /\ mc'[pot'[t]].parents = <<>>
  <2>1. CASE t = index
    <3>1. Len(mc) + 1 > nGen
      BY <1>1, <1>2
    <3> QED
      BY <1>4, <2>1, <3>1
  <2>2. CASE t \in 1 .. index - 1
    BY <1>3, <1>7, <2>2
  <2> QED
    BY <1>9, <2>1, <2>2
<1>12. ASSUME NEW t \in 1 .. index - 1 PROVE pot'[t] # pot'[index]
  <2>1. pot'[t] = pot[t] /\ pot[t] \in 1 .. Len(mc) /\ t \in 1 .. nTracks /\ t # index
    BY <1>1, <1>3
  <2>2. CASE line(index) >= 1
    <3>1. CASE line(t) >= 1
      <4>1. line(t) # 0 /\ line(t) # line(index)
        BY <1>1, <1>10, <2>1, <3>1
      <4> QED
        BY <1>4, <1>7, <2>1, <2>2, <3>1, <4>1
    <3>2. CASE ~(line(t) >= 1)
      <4>1. pot[t] > nGen /\ pot'[index] = line(index) /\ line(index) \in 0 .. nGen
        BY <1>1, <1>4, <1>7, <1>10, <2>2, <3>2
      <4> QED
        BY <1>1, <1>2, <2>1, <4>1
    <3> QED
      BY <3>1, <3>2
  <2>3. CASE ~(line(index) >= 1)
    <3>1. pot'[index] = Len(mc) + 1
      BY <1>4, <2>3
    <3> QED
      BY <1>2, <2>1, <3>1
  <2> QED
    BY <2>2, <2>3
<1>13. \A t, u \in 1 .. index : pot'[t] = pot'[u] => t = u
  <2> SUFFICES ASSUME NEW t \in 1 .. index, NEW u \in 1 .. index, pot'[t] = pot'[u] PROVE t = u
    OBVIOUS
  <2>1. CASE t = index \/ u = index
    BY <1>9, <1>12, <2>1
  <2>2. CASE t \in 1 .. index - 1 /\ u \in 1 .. index - 1
    BY <1>3, <1>8, <2>2
  <2> QED
    BY <1>9, <2>1, <2>2
<1>14. TracksKnown'
  <2>1. /\ event' = event /\ nGen' = nGen
        /\ \A t : start(t) = Placed(SimulatedVertexPosition(event.tracks[t].origin))'
    BY <1>1, RigidLines, RigidTracks DEF start, origin, Placed
  <2>2. \A t \in 1 .. index : ~(t <= 0)
    BY <1>1
  <2> QED
    BY <1>1, <1>11, <1>13, <2>1, <2>2 DEF TracksKnown, line
<1>15. EndsKnown'
  BY <1>1 DEF EndsKnown
<1> QED
  BY <1>5, <1>6, <1>14, <1>15 DEF TreeKnown

\* A round of the last loop ends one particle and gives it its parent; no other
\* track has that particle.
LEMMA EndsRoundKeeps ==
  ASSUME TruthTypeOK, InStep, TreeKnown, EndsRound
  PROVE  TreeKnown'
<1> DEFINE line(t) == event.tracks[t].line
           end(t) == event.tracks[t].end
           pot == particleOfTrack
           p == pot[index]
           position == SimulatedVertexPosition(end(index))
<1>1. /\ EventShape(event) /\ nGen \in Nat /\ nTracks \in Nat /\ index \in 1 .. nTracks
      /\ UNCHANGED <<event, productionPoint, bestDisp, particleOfTrack>>
      /\ Created = nGen /\ Created' = nGen /\ Graphed = nGen /\ Graphed' = nGen
      /\ Followed = nTracks /\ Followed' = nTracks /\ Finished = index - 1 /\ Finished' = index
  BY Sizes, RoundCounts DEF EndsRound, LoopRound, points
<1>2. /\ Len(mc) \in Nat /\ nGen <= Len(mc) /\ \A i \in 1 .. nGen : i \in 1 .. Len(mc)
      /\ \A t \in 1 .. nTracks : pot[t] \in 1 .. Len(mc)
  BY <1>1, LinesAreParticles DEF InStep
<1>3. \A i \in 1 .. Len(mc) :
        /\ mc'[i].vertex = mc[i].vertex
        /\ mc'[i].endpoint = IF i = p /\ position # Unset THEN position ELSE mc[i].endpoint
        /\ mc'[i].parents = IF i = p /\ Maker(index) \in 1 .. nTracks
                            THEN Append(mc[i].parents, pot[Maker(index)]) ELSE mc[i].parents
  BY EndsMove
<1>4. \A t, u \in 1 .. nTracks : pot[t] = pot[u] => t = u
  BY <1>1 DEF TreeKnown, TracksKnown
<1>5. line(index) >= 1 => p = line(index) /\ Maker(index) = 0
  BY <1>1 DEF TreeKnown, TracksKnown, Maker
<1>6. ~(line(index) >= 1) => p > nGen
  BY <1>1 DEF TreeKnown, TracksKnown
<1>7. \A t \in 1 .. nTracks : t <= index <=> t <= index - 1 \/ t = index
  BY <1>1
<1>8. \A t \in 1 .. index : t \in 1 .. nTracks /\ (t = index \/ t \in 1 .. index - 1)
  BY <1>1
<1> HIDE DEF p, position
<1>9. LinesKnown'
  <2>1. ASSUME NEW i \in 1 .. nGen PROVE mc'[i].parents = mc[i].parents
    <3>1. ~(i = p /\ Maker(index) \in 1 .. nTracks)
      BY <1>1, <1>5, <1>6
    <3> QED
      BY <1>2, <1>3, <3>1
  <2> QED
    BY <1>1, <1>2, <1>3, <2>1, RigidLines DEF TreeKnown, LinesKnown, Placed
<1>10. EndpointsKnown'
  <2>1. \A q : DaughtersUpTo(q, Graphed)' = DaughtersUpTo(q, Graphed)
    BY <1>1, RigidTracks
  <2>2. \A q \in 1 .. nGen : DaughtersUpTo(q, Graphed) \subseteq 1 .. nGen
    BY DEF DaughtersUpTo, Daughters
  <2>3. \A q \in 1 .. nGen : \A d \in DaughtersUpTo(q, Graphed) :
          Displacement(q, d)' = Displacement(q, d) /\ mc'[d].vertex = mc[d].vertex
    BY <1>2, <1>3, <2>2 DEF Displacement
  <2>4. ASSUME NEW q \in 1 .. nGen, ~Replaced(q)'
        PROVE  ~Replaced(q) /\ mc'[q].endpoint = mc[q].endpoint
    <3>1. \A t \in 1 .. index : ~(line(t) = q /\ end(t) # 0)
      BY <1>1, <2>4 DEF Replaced
    <3>2. ~Replaced(q)
      <4>1. \A t \in 1 .. index - 1 : t \in 1 .. index
        BY <1>1
      <4> QED
        BY <1>1, <3>1, <4>1 DEF Replaced
    <3>3. ~(q = p /\ position # Unset)
      <4>1. ASSUME q = p PROVE position = Unset
        <5>1. line(index) = q
          BY <1>1, <1>5, <1>6, <4>1
        <5>2. end(index) = 0
          BY <1>1, <3>1, <5>1
        <5>3. 0 \notin DOMAIN event.vertices
          BY <1>1, VertexShape
        <5> QED
          BY <5>2, <5>3 DEF position, SimulatedVertexPosition
      <4> QED
        BY <4>1
    <3> QED
      BY <1>2, <1>3, <3>2, <3>3
  <2>5. nGen' = nGen
    BY <1>1, RigidLines
  <2>6. /\ \A q \in 1 .. nGen :
             /\ DaughtersUpTo(q, Graphed) = {} => bestDisp[q] = -1
             /\ \A d \in DaughtersUpTo(q, Graphed) : Displacement(q, d) <= bestDisp[q]
        /\ \A q \in 1 .. nGen : ~Replaced(q) =>
             /\ DaughtersUpTo(q, Graphed) = {} => mc[q].endpoint = 0
             /\ DaughtersUpTo(q, Graphed) # {} =>
                  \E d \in DaughtersUpTo(q, Graphed) :
                    mc[q].endpoint = mc[d].vertex /\ bestDisp[q] = Displacement(q, d)
    BY <1>1 DEF TreeKnown, EndpointsKnown
  <2> QED
    BY <1>1, <2>1, <2>3, <2>4, <2>5, <2>6 DEF EndpointsKnown
<1>11. TracksKnown'
  <2>1. ASSUME NEW t \in 1 .. nTracks
        PROVE  IF line(t) >= 1 THEN pot[t] = line(t)
               ELSE /\ pot[t] > nGen
                    /\ mc'[pot[t]].vertex = Placed(SimulatedVertexPosition(event.tracks[t].origin))
                    /\ mc'[pot[t]].parents = IF t <= index /\ Maker(t) \in 1 .. nTracks
                                             THEN <<pot[Maker(t)]>> ELSE <<>>
    <3>1. IF line(t) >= 1 THEN pot[t] = line(t)
          ELSE /\ pot[t] > nGen
               /\ mc[pot[t]].vertex = Placed(SimulatedVertexPosition(event.tracks[t].origin))
               /\ mc[pot[t]].parents = IF t <= index - 1 /\ Maker(t) \in 1 .. nTracks
                                       THEN <<pot[Maker(t)]>> ELSE <<>>
      BY <1>1 DEF TreeKnown, TracksKnown
    <3> SUFFICES ASSUME ~(line(t) >= 1)
                 PROVE  mc'[pot[t]].parents = IF t <= index /\ Maker(t) \in 1 .. nTracks
                                              THEN <<pot[Maker(t)]>> ELSE <<>>
      BY <1>2, <1>3, <3>1
    <3>2. CASE t = index
      <4>1. mc[p].parents = <<>>
        <5>1. ~(t <= index - 1)
          BY <1>1, <3>2
        <5> QED
          BY <3>1, <3>2, <5>1 DEF p
      <4>2. Append(<<>>, pot[Maker(index)]) = <<pot[Maker(index)]>>
        OBVIOUS
      <4>3. p = pot[t] /\ p \in 1 .. Len(mc) /\ t <= index
        BY <1>1, <1>2, <3>2 DEF p
      <4> QED
        BY <1>3, <3>2, <4>1, <4>2, <4>3
    <3>3. CASE t # index
      <4>1. pot[t] # p
        BY <1>1, <1>4, <3>3 DEF p
      <4> QED
        BY <1>2, <1>3, <1>7, <3>1, <3>3, <4>1
    <3> QED
      BY <3>2, <3>3
  <2>2. /\ nGen' = nGen /\ nTracks' = nTracks /\ event' = event /\ \A t : Maker(t)' = Maker(t)
        /\ \A k : SimulatedVertexPosition(k)' = SimulatedVertexPosition(k)
    BY <1>1, RigidLines, RigidTracks
  <2> QED
    BY <1>1, <1>4, <2>1, <2>2 DEF TracksKnown, Placed
<1>12. EndsKnown'
  <2>1. ASSUME NEW t \in 1 .. index, SimulatedVertexPosition(end(t)) # Unset
        PROVE  mc'[pot[t]].endpoint = SimulatedVertexPosition(end(t))
    <3>1. CASE t = index
      BY <1>2, <1>3, <1>8, <2>1, <3>1 DEF p, position
    <3>2. CASE t # index
      <4>1. pot[t] # p /\ t \in 1 .. index - 1
        BY <1>1, <1>4, <1>8, <3>2 DEF p
      <4>2. mc[pot[t]].endpoint = SimulatedVertexPosition(end(t))
        BY <1>1, <2>1, <4>1 DEF TreeKnown, EndsKnown
      <4> QED
        BY <1>2, <1>3, <1>8, <4>1, <4>2
    <3> QED
      BY <3>1, <3>2
  <2> QED
    BY <1>1, <2>1, RigidTracks DEF EndsKnown
<1> QED
  BY <1>9, <1>10, <1>11, <1>12 DEF TreeKnown

TruthInv == TruthTypeOK /\ InStep /\ PointsKnown /\ TreeKnown

LEMMA TreeStep == TruthInv /\ [TruthNext]_truthVars => TreeKnown'
<1> SUFFICES ASSUME TruthTypeOK, InStep, PointsKnown, TreeKnown, [TruthNext]_truthVars
             PROVE  TreeKnown'
  BY DEF TruthInv
<1>1. CASE NextLoop
  <2>1. UNCHANGED counters /\ UNCHANGED <<event, points, tree>>
    BY <1>1, LoopEnds DEF NextLoop
  <2> QED
    BY <2>1, TreeStays DEF counters, points, tree
<1>2. CASE UNCHANGED truthVars
  <2>1. /\ UNCHANGED <<event, loop, index, productionPoint, mc, bestDisp, particleOfTrack>>
        /\ nGen' = nGen /\ nTracks' = nTracks
    BY <1>2, RigidSizes DEF truthVars, points, tree
  <2>2. UNCHANGED <<Created, Graphed, Followed, Finished>>
    BY <2>1 DEF Created, Graphed, Followed, Finished
  <2> QED
    BY <2>1, <2>2, TreeStays
<1>3. CASE DecayRound \/ ProductionRound
  <2>1. /\ UNCHANGED <<event, mc, bestDisp, particleOfTrack, Created, Graphed, Followed, Finished>>
        /\ Created = 0
    BY <1>3, RoundCounts DEF DecayRound, ProductionRound, LoopRound, tree
  <2> QED
    BY <2>1, TreeStays
<1> QED
  BY <1>1, <1>2, <1>3, CreateRoundKeeps, GraphRoundKeeps, ParticlesRoundKeeps, EndsRoundKeeps
  DEF TruthNext, TruthDone

LEMMA TreeInit == TruthInit => TreeKnown
<1> SUFFICES ASSUME TruthInit PROVE TreeKnown
  OBVIOUS
<1>1. /\ EventShape(event) /\ nGen \in Nat
      /\ Created = 0 /\ Graphed = 0 /\ Followed = 0 /\ Finished = 0
  BY TruthTypesInit, Sizes DEF TruthInit, Created, Graphed, Followed, Finished
<1>2. LinesKnown /\ TracksKnown /\ EndsKnown
  BY <1>1 DEF LinesKnown, TracksKnown, EndsKnown
<1>3. EndpointsKnown
  BY <1>1, NoDaughtersYet DEF EndpointsKnown, TruthInit
<1> QED
  BY <1>2, <1>3 DEF TreeKnown

\* What is known of the points and of the tree is so after every round, for
\* any record of the simulation and any capacity of VECP.
THEOREM TreeHolds == TruthSpec => []TruthInv
<1>1. TruthInit => TruthInv
  BY TruthTypesInit, PointsInit, TreeInit DEF TruthInv
<1>2. TruthInv /\ [TruthNext]_truthVars => TruthInv'
  BY TruthTypesStep, PointsStep, TreeStep DEF TruthInv
<1> QED
  BY <1>1, <1>2, PTL DEF TruthSpec

-----------------------------------------------------------------------------
\* At the end all loops have passed everything.
LEMMA AllPassed ==
  ASSUME TruthInv, loop = "done"
  PROVE  /\ EventShape(event) /\ nGen \in Nat /\ nTracks \in Nat
         /\ Decayed = 0 /\ Produced = nGen /\ Created = nGen /\ Graphed = nGen
         /\ Followed = nTracks /\ Finished = nTracks
         /\ \A p \in 1 .. nGen : DaughtersUpTo(p, nGen) = Daughters(p)
<1>1. EventShape(event) /\ nGen \in Nat /\ nTracks \in Nat
  BY Sizes DEF TruthInv
<1>2. \A p \in 1 .. nGen : DaughtersUpTo(p, nGen) = Daughters(p)
  BY <1>1 DEF DaughtersUpTo, Daughters
<1> QED
  BY <1>1, <1>2 DEF Decayed, Produced, Created, Graphed, Followed, Finished

LEMMA InvPlaces == TruthInv => PlacedByTheFamily
<1> SUFFICES ASSUME TruthInv, loop = "done", NEW i \in 1 .. nGen
             PROVE  LET m == Mother(i)
                        v == mc[i].vertex
                        tracked == {d \in Daughters(m) : Tracked(d)}
                    IN  IF Tracked(i)                  THEN v = event.lines[i].start
                        ELSE IF m < 1                  THEN v = IF event.primary = Unset THEN 0 ELSE event.primary
                        ELSE IF tracked # {}           THEN v \in Starts(tracked)
                        ELSE IF TrackedBelow[m] # {}   THEN v \in Starts(TrackedBelow[m])
                        ELSE                                v = mc[m].vertex
  BY DEF PlacedByTheFamily
<1> DEFINE m == Mother(i)
           tracked == {d \in Daughters(m) : Tracked(d)}
<1>1. /\ EventShape(event) /\ nGen \in Nat /\ m \in Int
      /\ HasMother(i) <=> m \in 1 .. nGen
      /\ m \in 1 .. nGen <=> ~(m < 1)
  BY AllPassed, LineShape
<1>2. mc[i].vertex = Placed(productionPoint[i])
  BY AllPassed DEF TruthInv, TreeKnown, LinesKnown
<1>3. productionPoint[i] = IF Tracked(i) THEN event.lines[i].start ELSE StartOf(i)
  <2>1. i <= nGen
    BY <1>1
  <2> QED
    BY <2>1, AllPassed DEF TruthInv, PointsKnown, StartsKnown
<1>4. CASE Tracked(i)
  <2>1. event.lines[i].start # Unset
    BY <1>1, LineShape, TruthAssumption
  <2> QED
    BY <1>2, <1>3, <1>4, <2>1 DEF Placed
<1>5. CASE ~Tracked(i) /\ m < 1
  BY <1>1, <1>2, <1>3, <1>5 DEF StartOf, Placed
<1>6. CASE ~Tracked(i) /\ ~(m < 1)
  <2>1. m \in 1 .. nGen /\ HasMother(i)
    BY <1>1, <1>6
  <2>2. DecaysAt(m, 0, decayPoint[m])
    BY <2>1, AllPassed DEF TruthInv, PointsKnown, DecaysKnown
  <2>3. DaughtersAfter(m, 0) = Daughters(m) /\ BelowAfter(m, 0) = TrackedBelow[m]
    BY <1>1, <2>1, DaughtersComeFirst
  <2>4. /\ tracked # {} => decayPoint[m] \in Starts(tracked)
        /\ TrackedBelow[m] # {} => decayPoint[m] \in Starts(TrackedBelow[m])
        /\ TrackedBelow[m] = {} => decayPoint[m] = Unset
    BY <2>2, <2>3 DEF DecaysAt
  <2>5. tracked \subseteq TrackedBelow[m] /\ TrackedBelow[m] \subseteq 1 .. nGen
    BY <1>1, <2>1, <2>3, BelowShape
  <2>6. decayPoint[m] # Unset => mc[i].vertex = decayPoint[m]
    BY <1>2, <1>3, <1>6, <2>1 DEF StartOf, Placed
  <2>7. decayPoint[m] = Unset => mc[i].vertex = mc[m].vertex
    <3>1. mc[m].vertex = Placed(productionPoint[m])
      BY <2>1, AllPassed DEF TruthInv, TreeKnown, LinesKnown
    <3> QED
      BY <1>2, <1>3, <1>6, <2>1, <3>1 DEF StartOf
  <2>8. Unset \notin Starts(tracked) /\ Unset \notin Starts(TrackedBelow[m])
    <3>1. tracked \in SUBSET (1 .. nGen) /\ TrackedBelow[m] \in SUBSET (1 .. nGen)
      BY <2>5
    <3> QED
      BY <1>1, <3>1, StartsShape
  <2> HIDE DEF m, tracked
  <2> QED
    BY <1>6, <2>4, <2>6, <2>7, <2>8 DEF m, tracked
<1> QED
  BY <1>4, <1>5, <1>6

\* A particle without a start of its own is placed by its family.
THEOREM PlacesAreRight == TruthSpec => []PlacedByTheFamily
  BY TreeHolds, InvPlaces, PTL

LEMMA InvEnds == TruthInv => EndsWhereItDecays
<1> SUFFICES ASSUME TruthInv, loop = "done"
             PROVE  /\ \A t \in 1 .. nTracks :
                         SimulatedVertexPosition(event.tracks[t].end) # Unset =>
                           mc[particleOfTrack[t]].endpoint = SimulatedVertexPosition(event.tracks[t].end)
                    /\ \A p \in 1 .. nGen :
                         LET ended == \E t \in 1 .. nTracks :
                                        event.tracks[t].line = p /\ event.tracks[t].end # 0
                             D == Daughters(p)
                         IN  ~ended =>
                               IF D = {} THEN mc[p].endpoint = 0
                               ELSE /\ \E d \in D : mc[p].endpoint = mc[d].vertex
                                    /\ \A d \in D : LET x == mc[p].endpoint - mc[p].vertex
                                                    IN  Displacement(p, d) <= x * x
  BY DEF EndsWhereItDecays
<1>1. \A t \in 1 .. nTracks :
        SimulatedVertexPosition(event.tracks[t].end) # Unset =>
          mc[particleOfTrack[t]].endpoint = SimulatedVertexPosition(event.tracks[t].end)
  BY AllPassed DEF TruthInv, TreeKnown, EndsKnown
<1>2. ASSUME NEW p \in 1 .. nGen,
             ~ \E t \in 1 .. nTracks : event.tracks[t].line = p /\ event.tracks[t].end # 0
      PROVE  LET D == Daughters(p)
             IN  IF D = {} THEN mc[p].endpoint = 0
                 ELSE /\ \E d \in D : mc[p].endpoint = mc[d].vertex
                      /\ \A d \in D : LET x == mc[p].endpoint - mc[p].vertex
                                      IN  Displacement(p, d) <= x * x
  <2> DEFINE D == Daughters(p)
  <2>1. ~Replaced(p)
    BY <1>2, AllPassed DEF Replaced
  <2>2. /\ D = {} => mc[p].endpoint = 0
        /\ \A d \in D : Displacement(p, d) <= bestDisp[p]
        /\ D # {} => \E d \in D : mc[p].endpoint = mc[d].vertex /\ bestDisp[p] = Displacement(p, d)
    BY <2>1, AllPassed DEF TruthInv, TreeKnown, EndpointsKnown
  <2>3. CASE D = {}
    BY <2>2, <2>3
  <2>4. CASE D # {}
    <3>1. PICK d \in D : mc[p].endpoint = mc[d].vertex /\ bestDisp[p] = Displacement(p, d)
      BY <2>2, <2>4
    <3> DEFINE x == mc[p].endpoint - mc[p].vertex
    <3>2. Displacement(p, d) = x * x
      BY <3>1 DEF Displacement
    <3> HIDE DEF x, D
    <3>3. \A e \in D : Displacement(p, e) <= x * x
      BY <2>2, <3>1, <3>2
    <3> QED
      BY <2>4, <3>1, <3>3 DEF x, D
  <2> QED
    BY <2>3, <2>4
<1> QED
  BY <1>1, <1>2

\* A particle ends where DELSIM ended it, or where its most displaced daughter
\* starts.
THEOREM EndsAreRight == TruthSpec => []EndsWhereItDecays
  BY TreeHolds, InvEnds, PTL

LEMMA InvParents == TruthInv => MadeByTheirParent
<1> SUFFICES ASSUME TruthInv, loop = "done"
             PROVE  /\ \A i \in 1 .. nGen :
                         mc[i].parents = IF Mother(i) < 1 THEN <<>> ELSE <<Mother(i)>>
                    /\ \A t \in 1 .. nTracks : event.tracks[t].line = 0 =>
                         LET d == particleOfTrack[t]
                             maker == TrackEnteringVertex(event.tracks[t].origin)
                         IN  IF maker \notin 1 .. nTracks THEN mc[d].parents = <<>>
                             ELSE /\ mc[d].parents = <<particleOfTrack[maker]>>
                                  /\ mc[d].vertex = mc[particleOfTrack[maker]].endpoint
  BY DEF MadeByTheirParent
<1>1. ASSUME NEW i \in 1 .. nGen
      PROVE  mc[i].parents = IF Mother(i) < 1 THEN <<>> ELSE <<Mother(i)>>
  <2>1. mc[i].parents = IF i <= nGen /\ Mother(i) >= 1 THEN <<Mother(i)>> ELSE <<>>
    BY AllPassed DEF TruthInv, TreeKnown, LinesKnown
  <2>2. i <= nGen /\ (Mother(i) >= 1 <=> ~(Mother(i) < 1))
    BY AllPassed, LineShape
  <2> QED
    BY <2>1, <2>2
<1>2. ASSUME NEW t \in 1 .. nTracks, event.tracks[t].line = 0
      PROVE  LET d == particleOfTrack[t]
                 maker == TrackEnteringVertex(event.tracks[t].origin)
             IN  IF maker \notin 1 .. nTracks THEN mc[d].parents = <<>>
                 ELSE /\ mc[d].parents = <<particleOfTrack[maker]>>
                      /\ mc[d].vertex = mc[particleOfTrack[maker]].endpoint
  <2> DEFINE d == particleOfTrack[t]
             k == event.tracks[t].origin
             maker == TrackEnteringVertex(k)
  <2>1. Maker(t) = maker /\ t <= nTracks
    BY <1>2, AllPassed DEF Maker
  <2>2. /\ mc[d].vertex = Placed(SimulatedVertexPosition(k))
        /\ mc[d].parents = IF maker \in 1 .. nTracks THEN <<particleOfTrack[maker]>> ELSE <<>>
    BY <1>2, <2>1, AllPassed DEF TruthInv, TreeKnown, TracksKnown
  <2>3. ASSUME maker \in 1 .. nTracks
        PROVE  mc[d].vertex = mc[particleOfTrack[maker]].endpoint
    <3>1. k \in DOMAIN event.vertices /\ event.vertices[k].entering = maker /\ maker # 0
      <4>1. maker # 0
        BY <2>3
      <4> QED
        BY <4>1 DEF TrackEnteringVertex
    <3>2. event.tracks[maker].end = k
      BY <3>1, AllPassed DEF EventShape
    <3>3. SimulatedVertexPosition(k) # Unset
      BY <3>1, AllPassed, VertexShape
    <3>4. mc[particleOfTrack[maker]].endpoint = SimulatedVertexPosition(k)
      BY <2>3, <3>2, <3>3, AllPassed DEF TruthInv, TreeKnown, EndsKnown
    <3> QED
      BY <2>2, <3>3, <3>4 DEF Placed
  <2> QED
    BY <2>2, <2>3
<1> QED
  BY <1>1, <1>2

\* Every particle has the parent that made it, and starts where that one ends
\* if DELSIM made it.
THEOREM ParentsAreRight == TruthSpec => []MadeByTheirParent
  BY TreeHolds, InvParents, PTL
=============================================================================
