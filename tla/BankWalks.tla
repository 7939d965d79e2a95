------------------------------ MODULE BankWalks ------------------------------
(***************************************************************************)
(* The walks over ZEBRA banks whose records say how long they are: the     *)
(* track elements of a PA.TE* module (src/TeBank.cpp, decodeModule), its   *)
(* extrapolated points (src/Tracking/Trax.cpp, emit), its electromagnetic  *)
(* showers (src/Calorimeter/Emca.cpp, emit), and the blocklets of a PA     *)
(* header (src/DstCensus.cpp, observeEvent).                               *)
(*                                                                         *)
(* A record that lies tells the next one's place wrongly, and from there   *)
(* on the walk reads words that are no size words: any value is possible.  *)
(* A loop takes one step per round.  Only the extent of a record is kept,  *)
(* not what is decoded from it.  Word numbers count from 1 as in the code. *)
(* An operator whose name starts with Mut is a wrong form of the operator  *)
(* that follows it.                                                        *)
(***************************************************************************)
EXTENDS Integers, Sequences, FiniteSets

CONSTANTS
  Banks,     \* the banks there may be
  Foreign    \* by walk: what the words read as size words may hold elsewhere

Walks == {"TE", "TRAX", "EMCA", "PA"}

(***************************************************************************)
(* records: the size word of each record (a descriptor, the set of its     *)
(* bits, in TE; a number elsewhere) and the words it really occupies.      *)
(* length: the words IPHREQ gives.  count: the records the bank claims     *)
(* (NPTS, NSH, the number of blocklets; TE has none).                      *)
(***************************************************************************)
SizeWord(walk) == IF walk = "TE" THEN SUBSET Nat ELSE Int

BankShape(b) ==
  /\ b.walk \in Walks
  /\ b.length \in Nat /\ b.count \in Int
  /\ b.records \in Seq([word : SizeWord(b.walk), words : Nat \ {0}])
  \* The header of a PA is laid out by the number of its blocklets.
  /\ b.walk = "PA" => b.count = Len(b.records)

ASSUME WalksAssumption ==
  /\ \A b \in Banks : BankShape(b)
  /\ \A walk \in Walks : Foreign[walk] \subseteq SizeWord(walk)

VARIABLES
  bank,
  at,        \* w, lpt - ltrax, show_ofs - lemca + 1, offset + 1 (from the table on)
  round,     \* ip, ns, i - 1
  taken,     \* the extents of the records read, in order
  ok,        \* Module::ok
  running

vars == <<bank, at, round, taken, ok, running>>

kTerFixedWords == 10
kWordsNoCov    == 8
kCountWord     == 1
MaxBlocklets   == 64

\* The words of an error matrix: one row for each measured bit.
CovEntries(descriptor) ==
  LET n == Cardinality(descriptor \cap 6 .. 11) IN (n * (n + 1)) \div 2

\* How far the walk goes for a record with this size word.
RecordWords(walk, word) ==
  CASE walk = "TE"   -> kTerFixedWords + CovEntries(word)
    [] walk = "TRAX" -> kCountWord + word
    [] OTHER         -> word

\* The word its first record starts at.
FirstWord(walk) == [TE |-> 2, TRAX |-> 3, EMCA |-> 3, PA |-> 1][walk]

\* Where each record of bank b starts, and after the last where it would end.
Start(b) ==
  LET s[k \in 1 .. Len(b.records) + 1] ==
        IF k = 1 THEN FirstWord(b.walk) ELSE s[k - 1] + b.records[k - 1].words
  IN  s

\* What may be read as a size word.  Those of a PA are in a table of its header.
SizeWords ==
  LET here == {k \in DOMAIN bank.records :
                 IF bank.walk = "PA" THEN k = round + 1 ELSE Start(bank)[k] = at}
  IN  IF here = {} THEN Foreign[bank.walk] ELSE {bank.records[k].word : k \in here}

-----------------------------------------------------------------------------
\* The bank is worth a walk.
Opens(b) ==
  /\ b.walk = "TE" => b.length >= 1 + kTerFixedWords
  /\ b.walk = "PA" => b.count \in 1 .. MaxBlocklets

Init ==
  /\ bank \in Banks
  /\ at = FirstWord(bank.walk) /\ round = 0
  /\ taken = <<>> /\ ok = FALSE
  /\ running = Opens(bank)

Going == IF bank.walk = "TE" THEN at <= bank.length ELSE round < bank.count

Round(walk) == running /\ bank.walk = walk /\ Going

Take(words) ==
  /\ taken' = Append(taken, [first |-> at, last |-> at + words - 1])
  /\ at' = at + words
  /\ round' = round + 1

Stop == running' = FALSE

WalkEnds ==
  /\ running /\ ~Going
  /\ Stop
  /\ UNCHANGED <<bank, at, round, taken, ok>>

\* The record would reach past the end of the bank.
MutReachesPast(words) == at + words - 1 > bank.length + 1

MutTouchesTheEnd(words) == at + words - 1 >= bank.length

ReachesPast(words) == at + words - 1 > bank.length

TeRound ==
  /\ Round("TE")
  /\ \E descriptor \in SizeWords : LET words == RecordWords("TE", descriptor) IN
       \/ /\ ReachesPast(words)
          /\ Stop
          /\ UNCHANGED <<at, round, taken, ok>>
       \/ /\ ~ReachesPast(words)
          /\ Take(words)
          /\ ok' = (at' = bank.length + 1)
          /\ UNCHANGED running
  /\ UNCHANGED bank

TraxRound ==
  /\ Round("TRAX")
  /\ \E n_words \in SizeWords : LET words == RecordWords("TRAX", n_words) IN
       \/ /\ n_words < kWordsNoCov \/ ReachesPast(words)
          /\ Stop
          /\ UNCHANGED <<at, round, taken>>
       \/ /\ ~(n_words < kWordsNoCov \/ ReachesPast(words))
          /\ Take(words)
          /\ UNCHANGED running
  /\ UNCHANGED <<bank, ok>>

\* A shower is read before its length is looked at, whatever the bank's is.
EmcaRound ==
  /\ Round("EMCA")
  /\ \E len \in SizeWords :
       /\ Take(RecordWords("EMCA", len))
       /\ IF len <= 0 THEN Stop ELSE UNCHANGED running
  /\ UNCHANGED <<bank, ok>>

PaRound ==
  /\ Round("PA")
  /\ \E len \in SizeWords :
       \/ /\ len <= 0
          /\ Stop
          /\ UNCHANGED <<at, round, taken>>
       \/ /\ len > 0
          /\ Take(RecordWords("PA", len))
          /\ UNCHANGED running
  /\ UNCHANGED <<bank, ok>>

Done == ~running /\ UNCHANGED vars

Next == WalkEnds \/ TeRound \/ TraxRound \/ EmcaRound \/ PaRound \/ Done

Spec == Init /\ [][Next]_vars
-----------------------------------------------------------------------------
TypeOK ==
  /\ BankShape(bank)
  /\ at \in Int /\ round \in Nat
  /\ taken \in Seq([first : Int, last : Int])
  /\ ok \in BOOLEAN /\ running \in BOOLEAN

\* Whatever the words hold, no track element and no extrapolated point is read
\* that reaches past its bank, each starts where the one before it ends, and a
\* module is ok exactly if its elements account for every word (TeBank.cpp,
\* 119-126; Trax.cpp, 110-114 and 139).
RecordsLieInTheBank ==
  /\ bank.walk \in {"TE", "TRAX"} =>
       /\ \A i \in DOMAIN taken : taken[i].last <= bank.length
       /\ \A i \in DOMAIN taken :
            taken[i].first = IF i = 1 THEN FirstWord(bank.walk) ELSE taken[i - 1].last + 1
  /\ ok <=> bank.walk = "TE" /\ taken # <<>> /\ taken[Len(taken)].last = bank.length

\* Record k says what it occupies and is one the walk is due to read.
Intact(k) ==
  LET r == bank.records[k] IN
  /\ RecordWords(bank.walk, r.word) = r.words
  /\ bank.walk \in {"TE", "TRAX"} => Start(bank)[k + 1] - 1 <= bank.length
  /\ bank.walk = "TRAX" => r.word >= kWordsNoCov
  /\ bank.walk # "TE" => k <= bank.count
  /\ bank.walk = "PA" => bank.count <= MaxBlocklets

\* Every record is read, at its place, that is intact and has only intact ones
\* before it, however the rest of the bank is damaged, cut or miscounted.
IntactRecordsAreRead ==
  ~running =>
    \A k \in DOMAIN bank.records : (\A j \in 1 .. k : Intact(j)) =>
      /\ k <= Len(taken)
      /\ taken[k] = [first |-> Start(bank)[k], last |-> Start(bank)[k + 1] - 1]
=============================================================================
