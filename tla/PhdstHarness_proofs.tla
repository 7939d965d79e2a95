------------------------- MODULE PhdstHarness_proofs -------------------------
(***************************************************************************)
(* Proofs about the event loop for any set of events, any tape, any        *)
(* configurations and any number of records and jobs.                      *)
(***************************************************************************)
EXTENDS PhdstHarness, LeastElement, SequenceTheorems, TLAPS

-----------------------------------------------------------------------------
(* The index of the intermediates.                                          *)

\* The entries of a list of files are pairs of numbers.
LEMMA EntriesType ==
  ASSUME NEW files \in Seq(File), NEW p \in Entries(files)
  PROVE  /\ p \in Nat \X Nat
         /\ p[1] \in DOMAIN files /\ p[2] \in DOMAIN files[p[1]]
         /\ files[p[1]][p[2]] \in Keys \cup {None}
<1>1. PICK r \in DOMAIN files : \E i \in DOMAIN files[r] : p = <<r, i>>
  BY DEF Entries
<1>2. DOMAIN files = 1 .. Len(files) /\ Len(files) \in Nat /\ files[r] \in File
  OBVIOUS
<1>3. DOMAIN files[r] = 1 .. Len(files[r]) /\ Len(files[r]) \in Nat
  BY <1>2 DEF File
<1>4. PICK i \in DOMAIN files[r] : p = <<r, i>>
  BY <1>1
<1>5. files[r][i] \in Keys \cup {None}
  BY <1>2, <1>3, <1>4 DEF File
<1> QED BY <1>2, <1>3, <1>4, <1>5

\* The keys of a list of files are those of its entries.
LEMMA KeysOfEntries ==
  ASSUME NEW files, NEW k
  PROVE  k \in KeysIn(files) <=>
           k # None /\ \E p \in Entries(files) : files[p[1]][p[2]] = k
<1> DEFINE Found == \E r \in DOMAIN files : \E i \in DOMAIN files[r] : files[r][i] = k
<1>1. k \in KeysIn(files) <=> k # None /\ Found
  BY DEF KeysIn
<1>2. ASSUME NEW p \in Entries(files), files[p[1]][p[2]] = k PROVE Found
  <2>1. PICK r \in DOMAIN files : \E i \in DOMAIN files[r] : p = <<r, i>>
    BY DEF Entries
  <2>2. PICK i \in DOMAIN files[r] : p = <<r, i>>
    BY <2>1
  <2>3. p[1] = r /\ p[2] = i
    BY <2>2
  <2> QED BY <1>2, <2>3
<1>3. ASSUME NEW r \in DOMAIN files, NEW i \in DOMAIN files[r], files[r][i] = k
      PROVE  \E p \in Entries(files) : files[p[1]][p[2]] = k
  <2>1. <<r, i>> \in Entries(files)
    BY DEF Entries
  <2> QED BY <1>3, <2>1
<1> HIDE DEF Found
<1>4. (\E p \in Entries(files) : files[p[1]][p[2]] = k) => Found
  BY <1>2
<1>5. Found => \E p \in Entries(files) : files[p[1]][p[2]] = k
  BY <1>3 DEF Found
<1> QED BY <1>1, <1>4, <1>5

LEMMA KeysInType ==
  ASSUME NEW files \in Seq(File)
  PROVE  KeysIn(files) \subseteq Keys
<1> SUFFICES ASSUME NEW k \in KeysIn(files) PROVE k \in Keys
  OBVIOUS
<1>1. PICK p \in Entries(files) : files[p[1]][p[2]] = k
  BY KeysOfEntries
<1> QED BY <1>1, EntriesType, KeysOfEntries

\* Every key has a first entry: the first reader that has it, and the first
\* entry of that reader.
LEMMA FirstEntryExists ==
  ASSUME NEW files \in Seq(File), NEW k \in KeysIn(files)
  PROVE  \E p \in Entries(files) : Earliest(files, k, p)
<1> DEFINE R == {r \in Nat : \E p \in Entries(files) : p[1] = r /\ files[p[1]][p[2]] = k}
<1>1. PICK q \in Entries(files) : files[q[1]][q[2]] = k
  BY KeysOfEntries
<1>2. q[1] \in R
  BY <1>1, EntriesType
<1>3. PICK r \in R : \A m \in R : r <= m
  <2> HIDE DEF R
  <2>1. R \in SUBSET Nat
    BY DEF R
  <2> QED BY <2>1, <1>2, LeastNat
<1> DEFINE I == {i \in Nat : \E p \in Entries(files) : p = <<r, i>> /\ files[r][i] = k}
<1>4. I # {}
  <2>1. PICK p \in Entries(files) : p[1] = r /\ files[p[1]][p[2]] = k
    OBVIOUS
  <2>2. p = <<r, p[2]>> /\ p[2] \in Nat
    BY <2>1, EntriesType
  <2> QED BY <2>1, <2>2
<1>5. PICK i \in I : \A m \in I : i <= m
  <2> HIDE DEF I
  <2>1. I \in SUBSET Nat
    BY DEF I
  <2> QED BY <2>1, <1>4, LeastNat
<1>6. <<r, i>> \in Entries(files) /\ files[r][i] = k
  OBVIOUS
<1>7. ASSUME NEW p \in Entries(files), files[p[1]][p[2]] = k
      PROVE  ~Before(p, <<r, i>>)
  <2>1. p[1] \in Nat /\ p[2] \in Nat /\ p = <<p[1], p[2]>>
    BY EntriesType
  <2>2. r <= p[1]
    BY <1>3, <1>7, <2>1
  <2>3. p[1] = r => i <= p[2]
    BY <1>5, <1>7, <2>1
  <2>4. r \in Nat /\ i \in Nat
    OBVIOUS
  <2> HIDE DEF R, I
  <2> QED BY <2>1, <2>2, <2>3, <2>4 DEF Before
<1> HIDE DEF R, I
<1> QED BY <1>6, <1>7 DEF Earliest

\* The index has the keys it had and those of the files.
LEMMA EmplaceDomain ==
  ASSUME NEW files, NEW index
  PROVE  DOMAIN Emplace(index, files) = DOMAIN index \cup KeysIn(files)
BY DEF Emplace

\* A key it had still leads where it did (emplace does not overwrite).
LEMMA EmplaceOld ==
  ASSUME NEW files, NEW index, NEW k \in DOMAIN index
  PROVE  Emplace(index, files)[k] = index[k]
BY DEF Emplace

\* A new key leads to its earliest entry.
LEMMA EmplaceNew ==
  ASSUME NEW files \in Seq(File), NEW index, NEW k \in KeysIn(files), k \notin DOMAIN index
  PROVE  Earliest(files, k, Emplace(index, files)[k])
<1>1. Emplace(index, files)[k] = CHOOSE p \in Entries(files) : Earliest(files, k, p)
  BY DEF Emplace
<1>2. \E p \in Entries(files) : Earliest(files, k, p)
  BY FirstEntryExists
<1> QED BY <1>1, <1>2

\* The index built from nothing leads every key of the files to its earliest entry.
LEMMA NewIndex ==
  ASSUME NEW files \in Seq(File)
  PROVE  /\ DOMAIN Emplace(NoIndex, files) = KeysIn(files)
         /\ \A k \in KeysIn(files) : Earliest(files, k, Emplace(NoIndex, files)[k])
<1>1. DOMAIN NoIndex = {}
  BY DEF NoIndex
<1>2. DOMAIN Emplace(NoIndex, files) = DOMAIN NoIndex \cup KeysIn(files)
  BY EmplaceDomain
<1>3. ASSUME NEW k \in KeysIn(files) PROVE Earliest(files, k, Emplace(NoIndex, files)[k])
  <2>1. k \notin DOMAIN NoIndex
    BY <1>1
  <2> QED BY <2>1, EmplaceNew
<1> QED BY <1>1, <1>2, <1>3

\* What has been scanned before a failure is a list of files too.
LEMMA ScannedType ==
  ASSUME NEW files \in Seq(File), NEW r \in 0 .. Len(files),
         NEW n \in 0 .. IF r = Len(files) THEN 0 ELSE Len(files[r + 1])
  PROVE  /\ SubSeq(files, 1, r) \in Seq(File)
         /\ Scanned(files, r, n) \in Seq(File)
<1>1. Len(files) \in Nat /\ \A i \in 1 .. Len(files) : files[i] \in File
  OBVIOUS
<1>2. SubSeq(files, 1, r) \in Seq(File)
  BY <1>1, SubSeqProperties
<1>3. ASSUME n # 0 PROVE SubSeq(files[r + 1], 1, n) \in File
  <2>1. r # Len(files)
    BY <1>3, <1>1
  <2>2. r + 1 \in 1 .. Len(files) /\ n \in 0 .. Len(files[r + 1])
    BY <2>1, <1>1
  <2>3. files[r + 1] \in Seq(Keys \cup {None})
    BY <2>2, <1>1 DEF File
  <2>4. /\ Len(files[r + 1]) \in Nat
        /\ \A i \in 1 .. Len(files[r + 1]) : files[r + 1][i] \in Keys \cup {None}
    BY <2>3
  <2> QED BY <2>2, <2>4, SubSeqProperties DEF File
<1> QED BY <1>2, <1>3 DEF Scanned

\* What HarnessAssumption says of the configuration of a job.
LEMMA ConfigType ==
  ASSUME NEW c \in Configs
  PROVE  /\ c.inter \in Seq(File)
         /\ c.emits \in SUBSET Collections
         /\ c.max_events \in Int
         /\ c.output \in BOOLEAN
BY HarnessAssumption

\* Indexing more files gives an index with keys and entry numbers.
LEMMA EmplaceType ==
  ASSUME NEW files \in Seq(File), NEW index,
         DOMAIN index \in SUBSET Keys, \A k \in DOMAIN index : index[k] \in Nat \X Nat
  PROVE  /\ DOMAIN Emplace(index, files) \in SUBSET Keys
         /\ \A k \in DOMAIN Emplace(index, files) : Emplace(index, files)[k] \in Nat \X Nat
<1>1. KeysIn(files) \subseteq Keys
  BY KeysInType
<1>2. DOMAIN Emplace(index, files) = DOMAIN index \cup KeysIn(files)
  BY EmplaceDomain
<1>3. ASSUME NEW k \in DOMAIN Emplace(index, files)
      PROVE  Emplace(index, files)[k] \in Nat \X Nat
  <2>1. CASE k \in DOMAIN index
    <3>1. Emplace(index, files)[k] = index[k]
      BY <2>1, EmplaceOld
    <3> QED BY <2>1, <3>1
  <2>2. CASE k \notin DOMAIN index
    <3>1. k \in KeysIn(files)
      BY <2>2, <1>2, <1>3
    <3>2. Earliest(files, k, Emplace(index, files)[k])
      BY <2>2, <3>1, EmplaceNew
    <3>3. Emplace(index, files)[k] \in Entries(files)
      BY <3>2 DEF Earliest
    <3> QED BY <3>3, EntriesType
  <2> QED BY <2>1, <2>2
<1> QED BY <1>1, <1>2, <1>3

-----------------------------------------------------------------------------
(* Type correctness, one step per action.                                   *)

LEMMA InitType == Init => TypeOK
<1> SUFFICES ASSUME Init PROVE TypeOK
  OBVIOUS
<1>1. JobType
  BY DEF Init, JobType, Control
<1>2. SdstType
  BY DEF Init, SdstType, NoIndex
<1>3. GlobalsType
  BY DEF Init, GlobalsType
<1>4. OutputType
  <2>1. out_events \in Seq(Frame)
    BY DEF Init
  <2> QED BY <2>1 DEF Init, OutputType
<1> QED BY <1>1, <1>2, <1>3, <1>4 DEF TypeOK

\* The record and the configuration user02 works on.
LEMMA User02Input ==
  ASSUME TypeOK, JobSetUp, pc = "record"
  PROVE  /\ rec \in Record /\ rec.key \in Keys /\ rec.mods \in SUBSET Modules
         /\ cfg \in Configs /\ cfg.emits \in SUBSET Collections
BY ConfigType DEF JobSetUp, Record

LEMMA NextJobType == TypeOK /\ JobSetUp /\ [Next]_vars => JobType'
<1> SUFFICES ASSUME TypeOK, JobSetUp, [Next]_vars PROVE JobType'
  OBVIOUS
<1> USE DEF Control
<1>0. JobType
  BY DEF TypeOK
<1>1. ASSUME NEW c \in Configs, Run(c) \/ RunRefused(c) PROVE JobType'
  <2>1. pc' \in {"idle", "start"} /\ exit' \in {None, 1}
    BY <1>1 DEF Run, RunRefused
  <2>2. /\ cfg' = c /\ rec' = None /\ footer' = None /\ jobs' = jobs + 1
        /\ delivered' = <<>>
    BY <1>1 DEF Run, RunRefused, Reset
  <2> QED BY <1>0, <2>1, <2>2 DEF JobType
<1>2. CASE User00NoOutput \/ User00 \/ User00Throws
  BY <1>0, <1>2 DEF User00NoOutput, User00, User00Throws, JobType
<1>3. CASE User01Stop \/ EndOfInput \/ PhdstGivesUp \/ Kill
  BY <1>0, <1>3 DEF User01Stop, EndOfInput, PhdstGivesUp, Kill, JobType
<1>4. ASSUME NEW r \in Tape, User01(r) \/ Unasked(r) PROVE JobType'
  <2>1. r \in Record
    BY HarnessAssumption
  <2> QED BY <1>0, <1>4, <2>1 DEF User01, Unasked, Deliver, JobType
<1>5. CASE User02Step
  <2>1. User02
    BY <1>5 DEF User02Step, AfterFailure, AfterCap, NotAnEvent, Redelivered, SkipSetup,
                SkipUnmatched, WriteEvent, EventThrows, Dropped
  <2>2. rec \in Record
    BY <2>1, User02Input DEF User02
  <2> QED BY <1>0, <2>1, <2>2 DEF User02, JobType
<1>6. ASSUME NEW failing, User99(failing) PROVE JobType'
  BY <1>0, <1>6 DEF User99, Footer, JobType
<1>7. ASSUME NEW throws, Return(throws) PROVE JobType'
  BY <1>0, <1>7 DEF Return, ExitCode, JobType
<1>8. CASE UNCHANGED vars
  BY <1>0, <1>8 DEF vars, JobType
<1> QED
  BY <1>1, <1>2, <1>3, <1>4, <1>5, <1>6, <1>7, <1>8 DEF Next, User99Step, ReturnStep

LEMMA NextSdstType == TypeOK /\ JobSetUp /\ [Next]_vars => SdstType'
<1> SUFFICES ASSUME TypeOK, JobSetUp, [Next]_vars PROVE SdstType'
  OBVIOUS
<1> USE DEF sdst
<1>0. SdstType
  BY DEF TypeOK
<1>1. ASSUME NEW c \in Configs, Run(c) \/ RunRefused(c) PROVE SdstType'
  <2>1. g_sdst_readers' = <<>> /\ g_sdst_index' = NoIndex
    BY <1>1 DEF Run, RunRefused, Reset, ResetSdst
  <2> QED BY <2>1 DEF NoIndex, SdstType
<1>2. CASE User00
  <2>1. cfg.inter \in Seq(File)
    BY <1>2, ConfigType DEF User00, JobSetUp
  <2>2. /\ DOMAIN g_sdst_index' \in SUBSET Keys
        /\ \A k \in DOMAIN g_sdst_index' : g_sdst_index'[k] \in Nat \X Nat
    BY <1>0, <1>2, <2>1, EmplaceType DEF User00, SdstType
  <2> QED BY <1>2, <2>1, <2>2 DEF User00, SdstType
<1>3. CASE User00Throws
  <2>1. cfg.inter \in Seq(File)
    BY <1>3, ConfigType DEF User00Throws, JobSetUp
  <2>2. CASE UNCHANGED sdst
    BY <1>0, <2>2 DEF SdstType
  <2>3. ASSUME NEW r \in 0 .. Len(cfg.inter),
               NEW n \in 0 .. IF r = Len(cfg.inter) THEN 0 ELSE Len(cfg.inter[r + 1]),
               g_sdst_readers' = SubSeq(cfg.inter, 1, r),
               g_sdst_index' = Emplace(g_sdst_index, Scanned(cfg.inter, r, n))
        PROVE  SdstType'
    <3>1. SubSeq(cfg.inter, 1, r) \in Seq(File) /\ Scanned(cfg.inter, r, n) \in Seq(File)
      BY <2>1, ScannedType
    <3>2. /\ DOMAIN g_sdst_index' \in SUBSET Keys
          /\ \A k \in DOMAIN g_sdst_index' : g_sdst_index'[k] \in Nat \X Nat
      BY <1>0, <2>3, <3>1, EmplaceType DEF SdstType
    <3> QED BY <2>3, <3>1, <3>2 DEF SdstType
  <2> QED BY <1>3, <2>2, <2>3 DEF User00Throws
<1>4. CASE User00NoOutput \/ User01Stop \/ EndOfInput \/ PhdstGivesUp \/ Kill \/ UNCHANGED vars
  BY <1>0, <1>4 DEF User00NoOutput, User01Stop, EndOfInput, PhdstGivesUp, Kill, vars, SdstType
<1>5. ASSUME NEW r \in Tape, User01(r) \/ Unasked(r) PROVE SdstType'
  BY <1>0, <1>5 DEF User01, Unasked, Deliver, SdstType
<1>6. CASE User02Step
  <2>1. User02
    BY <1>6 DEF User02Step, AfterFailure, AfterCap, NotAnEvent, Redelivered, SkipSetup,
                SkipUnmatched, WriteEvent, EventThrows, Dropped
  <2> QED BY <1>0, <2>1 DEF User02, SdstType
<1>7. ASSUME NEW failing, User99(failing) PROVE SdstType'
  BY <1>0, <1>7 DEF User99, SdstType
<1>8. ASSUME NEW throws, Return(throws) PROVE SdstType'
  BY <1>0, <1>8 DEF Return, SdstType
<1> QED
  BY <1>1, <1>2, <1>3, <1>4, <1>5, <1>6, <1>7, <1>8 DEF Next, User99Step, ReturnStep

\* Of the guarded calls of user99 that throw, one is the first.
LEMMA FirstOfFailing ==
  ASSUME NEW failing \in SUBSET {"finalize", "metadata", "finish", "summary"}, failing # {}
  PROVE  FirstOf(failing) \in failing
<1> DEFINE First(i) == /\ LastPhases[i] \in failing
                       /\ \A j \in 1 .. i - 1 : LastPhases[j] \notin failing
<1>1. /\ LastPhases[1] = "finalize" /\ LastPhases[2] = "metadata"
      /\ LastPhases[3] = "finish" /\ LastPhases[4] = "summary"
  BY DEF LastPhases
<1>2. \E i \in 1 .. 4 : First(i)
  <2>1. CASE "finalize" \in failing
    <3>1. First(1)
      BY <1>1, <2>1
    <3> QED BY <3>1
  <2>2. CASE "finalize" \notin failing /\ "metadata" \in failing
    <3>1. First(2)
      BY <1>1, <2>2
    <3> QED BY <3>1
  <2>3. CASE "finalize" \notin failing /\ "metadata" \notin failing /\ "finish" \in failing
    <3>1. First(3)
      BY <1>1, <2>3
    <3> QED BY <3>1
  <2>4. CASE failing = {"summary"}
    <3>1. First(4)
      BY <1>1, <2>4
    <3> QED BY <3>1
  <2> QED BY <2>1, <2>2, <2>3, <2>4
<1> QED BY <1>2 DEF FirstOf

LEMMA NextGlobalsType == TypeOK /\ JobSetUp /\ [Next]_vars => GlobalsType'
<1> SUFFICES ASSUME TypeOK, JobSetUp, [Next]_vars PROVE GlobalsType'
  OBVIOUS
<1> USE DEF counters, failure, registry
<1>0. GlobalsType
  BY DEF TypeOK
<1>1. ASSUME NEW c \in Configs, Run(c) \/ RunRefused(c) PROVE GlobalsType'
  <2>1. /\ g_writer' = FALSE /\ g_processed' = {}
        /\ g_n_seen' = 0 /\ g_n_written' = 0 /\ g_n_no_dst' = 0 /\ g_n_redelivered' = 0
        /\ g_callback_failed' = FALSE /\ g_callback_failure' = None
        /\ UNCHANGED registry
    BY <1>1 DEF Run, RunRefused, Reset
  <2> QED BY <1>0, <2>1 DEF GlobalsType
<1>2. CASE User00NoOutput \/ User01Stop \/ EndOfInput \/ PhdstGivesUp \/ Kill \/ UNCHANGED vars
  BY <1>0, <1>2 DEF User00NoOutput, User01Stop, EndOfInput, PhdstGivesUp, Kill, vars, GlobalsType
<1>3. CASE User00
  BY <1>0, <1>3 DEF User00, OpenOutput, GlobalsType
<1>4. CASE User00Throws
  <2>1. g_writer' \in BOOLEAN /\ UNCHANGED <<g_processed, counters, registry>>
    BY <1>0, <1>4 DEF User00Throws, OpenOutput, GlobalsType
  <2>2. g_callback_failed' \in BOOLEAN /\ g_callback_failure' \in Phases \cup {None}
    BY <1>0, <1>4 DEF User00Throws, Failure, Phases, GlobalsType
  <2> QED BY <1>0, <2>1, <2>2 DEF GlobalsType
<1>5. ASSUME NEW r \in Tape, User01(r) \/ Unasked(r) PROVE GlobalsType'
  BY <1>0, <1>5 DEF User01, Unasked, Deliver, GlobalsType
<1>6. CASE User02Step
  <2>1. User02
    BY <1>6 DEF User02Step, AfterFailure, AfterCap, NotAnEvent, Redelivered, SkipSetup,
                SkipUnmatched, WriteEvent, EventThrows, Dropped
  <2>2. rec.key \in Keys /\ rec.mods \in SUBSET Modules /\ cfg.emits \in SUBSET Collections
    BY <2>1, User02Input DEF User02
  <2>3. CASE AfterFailure \/ AfterCap \/ NotAnEvent \/ Redelivered
    BY <1>0, <2>3 DEF AfterFailure, AfterCap, NotAnEvent, Redelivered, Dropped, User02, Live,
                      GlobalsType
  <2>4. CASE SkipSetup \/ SkipUnmatched
    BY <1>0, <2>2, <2>4 DEF SkipSetup, SkipUnmatched, FirstDelivery, Remember, Dropped, User02,
                            Live, GlobalsType
  <2>5. CASE WriteEvent
    BY <1>0, <2>2, <2>5 DEF WriteEvent, FirstDelivery, Remember, ObserveEvent, User02, Live,
                            GlobalsType
  <2>6. CASE EventThrows
    <3>1. g_modules' \in SUBSET Modules /\ g_seen' \in SUBSET Collections
      BY <1>0, <2>2, <2>6 DEF EventThrows, ObserveEvent, GlobalsType
    <3>2. g_callback_failed' \in BOOLEAN /\ g_callback_failure' \in Phases \cup {None}
      BY <1>0, <2>6 DEF EventThrows, Failure, Phases, GlobalsType
    <3> QED BY <1>0, <2>2, <2>6, <3>1, <3>2 DEF EventThrows, FirstDelivery, Remember, User02,
                                                Live, GlobalsType
  <2> QED BY <1>6, <2>3, <2>4, <2>5, <2>6 DEF User02Step
<1>7. ASSUME NEW failing \in SUBSET {"finalize", "metadata", "finish", "summary"},
             User99(failing)
      PROVE  GlobalsType'
  <2>1. g_callback_failed' \in BOOLEAN /\ g_callback_failure' \in Phases \cup {None}
    <3>1. CASE failing = {}
      BY <1>0, <1>7, <3>1 DEF User99, GlobalsType
    <3>2. CASE failing # {}
      <4>1. FirstOf(failing) \in failing
        BY <3>2, FirstOfFailing
      <4> QED BY <1>0, <1>7, <3>2, <4>1 DEF User99, Failure, Phases, GlobalsType
    <3> QED BY <3>1, <3>2
  <2> QED BY <1>0, <1>7, <2>1 DEF User99, GlobalsType
<1>8. ASSUME NEW throws \in BOOLEAN, Return(throws) PROVE GlobalsType'
  <2>1. g_callback_failed' \in BOOLEAN /\ g_callback_failure' \in Phases \cup {None}
    BY <1>0, <1>8 DEF Return, Failure, Phases, GlobalsType
  <2> QED BY <1>0, <1>8, <2>1 DEF Return, GlobalsType
<1> QED
  BY <1>1, <1>2, <1>3, <1>4, <1>5, <1>6, <1>7, <1>8 DEF Next, User99Step, ReturnStep

LEMMA NextOutputType == TypeOK /\ JobSetUp /\ [Next]_vars => OutputType'
<1> SUFFICES ASSUME TypeOK, JobSetUp, [Next]_vars PROVE OutputType'
  OBVIOUS
<1> USE DEF output
<1>0. OutputType
  BY DEF TypeOK
<1>1. ASSUME NEW c \in Configs, Run(c) \/ RunRefused(c) PROVE OutputType'
  <2>1. out_exists' = FALSE /\ out_meta' = None /\ out_whole' = FALSE
    BY <1>1 DEF Run, RunRefused, Reset
  <2>2. out_events' \in Seq(Frame)
    <3>1. out_events' = <<>>
      BY <1>1 DEF Run, RunRefused, Reset
    <3> QED BY <3>1
  <2> QED BY <2>1, <2>2 DEF OutputType
<1>2. CASE User00NoOutput \/ User01Stop \/ EndOfInput \/ PhdstGivesUp \/ Kill \/ UNCHANGED vars
  BY <1>0, <1>2 DEF User00NoOutput, User01Stop, EndOfInput, PhdstGivesUp, Kill, vars, OutputType
<1>3. CASE User00 \/ User00Throws
  BY <1>0, <1>3 DEF User00, User00Throws, OpenOutput, OutputType
<1>4. ASSUME NEW r \in Tape, User01(r) \/ Unasked(r) PROVE OutputType'
  BY <1>0, <1>4 DEF User01, Unasked, Deliver, OutputType
<1>5. CASE User02Step
  <2>1. User02 /\ (UNCHANGED out_events \/ WriteEvent)
    BY <1>5 DEF User02Step, AfterFailure, AfterCap, NotAnEvent, Redelivered, SkipSetup,
                SkipUnmatched, WriteEvent, EventThrows, Dropped
  <2>2. ASSUME WriteEvent PROVE out_events' \in Seq(Frame)
    <3>1. rec.key \in Keys
      BY <2>1, User02Input DEF User02
    <3>2. ASSUME NEW p PROVE ReadEntry(p) \in (Nat \X Nat) \cup {None}
      BY EntriesType DEF ReadEntry, TypeOK, SdstType
    <3>3. StartingFrame \in (Nat \X Nat) \cup {None}
      BY <3>2 DEF StartingFrame
    <3>4. [key |-> rec.key, sdst |-> StartingFrame] \in Frame
      BY <3>1, <3>3 DEF Frame
    <3> QED BY <1>0, <2>2, <3>4 DEF WriteEvent, OutputType
  <2> QED BY <1>0, <2>1, <2>2 DEF User02, OutputType
<1>6. ASSUME NEW failing, User99(failing) PROVE OutputType'
  <2>1. out_meta' \in Meta \cup {None}
    BY <1>0, <1>6 DEF User99, Meta, TypeOK, GlobalsType, OutputType
  <2> QED BY <1>0, <1>6, <2>1 DEF User99, OutputType
<1>7. ASSUME NEW throws, Return(throws) PROVE OutputType'
  BY <1>0, <1>7 DEF Return, OutputType
<1> QED
  BY <1>1, <1>2, <1>3, <1>4, <1>5, <1>6, <1>7 DEF Next, User99Step, ReturnStep

-----------------------------------------------------------------------------
(* The other parts of the invariant, each with one step per action.         *)

\* What every way out of user02 has in common.
LEMMA User02Common ==
  ASSUME User02Step
  PROVE  /\ User02
         /\ \/ UNCHANGED <<g_n_written, failure, out_events>>
               /\ g_processed \subseteq g_processed'
            \/ WriteEvent
            \/ EventThrows
<1>1. CASE AfterFailure \/ AfterCap \/ NotAnEvent \/ Redelivered
  BY <1>1 DEF AfterFailure, AfterCap, NotAnEvent, Redelivered, Dropped, User02
<1>2. CASE SkipSetup \/ SkipUnmatched
  BY <1>2 DEF SkipSetup, SkipUnmatched, FirstDelivery, Remember, Dropped, User02
<1>3. CASE WriteEvent \/ EventThrows
  BY <1>3 DEF WriteEvent, EventThrows
<1> QED BY <1>1, <1>2, <1>3 DEF User02Step

LEMMA NextJobSetUp == IInv /\ [Next]_vars => JobSetUp'
<1> SUFFICES ASSUME IInv, [Next]_vars PROVE JobSetUp'
  OBVIOUS
<1>0. JobSetUp
  BY DEF IInv
<1>1. ASSUME NEW c \in Configs, Run(c) \/ RunRefused(c) PROVE JobSetUp'
  <2>1. cfg' = c /\ pc' \in {"idle", "start"} /\ (pc' = "start" => exit' = None)
    BY <1>1 DEF Run, RunRefused, Reset
  <2> QED BY <2>1 DEF JobSetUp, Asleep
<1>2. CASE User00NoOutput \/ User00 \/ User00Throws
  BY <1>0, <1>2 DEF User00NoOutput, User00, User00Throws, JobSetUp, Asleep
<1>3. CASE User01Stop \/ EndOfInput \/ PhdstGivesUp \/ Kill
  BY <1>0, <1>3 DEF User01Stop, EndOfInput, PhdstGivesUp, Kill, JobSetUp, Asleep
<1>4. ASSUME NEW r \in Tape, User01(r) \/ Unasked(r) PROVE JobSetUp'
  <2>1. r \in Record
    BY HarnessAssumption
  <2> QED BY <1>0, <1>4, <2>1 DEF User01, Unasked, Deliver, JobSetUp, Asleep
<1>5. CASE User02Step
  <2>1. User02
    BY <1>5, User02Common
  <2> QED BY <1>0, <2>1 DEF User02, JobSetUp, Asleep
<1>6. ASSUME NEW failing, User99(failing) PROVE JobSetUp'
  BY <1>0, <1>6 DEF User99, JobSetUp, Asleep
<1>7. ASSUME NEW throws, Return(throws) PROVE JobSetUp'
  BY <1>0, <1>7 DEF Return, JobSetUp, Asleep
<1>8. CASE UNCHANGED vars
  BY <1>0, <1>8 DEF vars, JobSetUp, Asleep
<1> QED
  BY <1>1, <1>2, <1>3, <1>4, <1>5, <1>6, <1>7, <1>8 DEF Next, User99Step, ReturnStep

LEMMA NextUntouched == IInv /\ [Next]_vars => Untouched'
<1> SUFFICES ASSUME IInv, [Next]_vars PROVE Untouched'
  OBVIOUS
<1>1. ASSUME NEW c \in Configs, Run(c) \/ RunRefused(c) PROVE Untouched'
  BY <1>1 DEF Run, RunRefused, Reset, ResetSdst, Untouched
<1>2. CASE User00NoOutput \/ User00 \/ User00Throws
  BY <1>2 DEF User00NoOutput, User00, User00Throws, Untouched
<1>3. CASE User01Stop \/ EndOfInput \/ PhdstGivesUp \/ Kill
  BY <1>3 DEF User01Stop, EndOfInput, PhdstGivesUp, Kill, Untouched
<1>4. ASSUME NEW r \in Tape, User01(r) \/ Unasked(r) PROVE Untouched'
  BY <1>4 DEF User01, Unasked, Deliver, Untouched
<1>5. CASE User02Step
  BY <1>5, User02Common DEF User02, Untouched
<1>6. ASSUME NEW failing, User99(failing) PROVE Untouched'
  BY <1>6 DEF User99, Untouched
<1>7. ASSUME NEW throws, Return(throws) PROVE Untouched'
  BY <1>7 DEF Return, Untouched
<1>8. CASE UNCHANGED vars
  BY <1>8 DEF vars, sdst, counters, failure, output, IInv, Untouched
<1> QED
  BY <1>1, <1>2, <1>3, <1>4, <1>5, <1>6, <1>7, <1>8 DEF Next, User99Step, ReturnStep

LEMMA NextIndexReady == IInv /\ [Next]_vars => IndexReady'
<1> SUFFICES ASSUME IInv, [Next]_vars PROVE IndexReady'
  OBVIOUS
<1>0. IndexReady
  BY DEF IInv
<1>1. ASSUME NEW c \in Configs, Run(c) \/ RunRefused(c) PROVE IndexReady'
  BY <1>1 DEF Run, RunRefused, IndexReady
<1>2. CASE User00
  <2>1. cfg.inter \in Seq(File)
    BY <1>2, ConfigType DEF User00, IInv, JobSetUp
  <2>2. g_sdst_index' = Emplace(NoIndex, cfg.inter) /\ g_sdst_readers' = cfg.inter /\ cfg' = cfg
    BY <1>2 DEF User00, IInv, Untouched
  <2>4. DOMAIN g_sdst_index' = KeysIn(cfg.inter)
    BY <2>1, <2>2, NewIndex
  <2>5. ASSUME NEW k \in DOMAIN g_sdst_index'
        PROVE  Earliest(cfg'.inter, k, g_sdst_index'[k])
    BY <2>1, <2>2, <2>4, <2>5, NewIndex
  <2> QED BY <2>2, <2>4, <2>5 DEF IndexReady
<1>3. CASE User00NoOutput \/ User00Throws
  BY <1>3 DEF User00NoOutput, User00Throws, Failure, IndexReady
<1>4. CASE User01Stop \/ EndOfInput \/ PhdstGivesUp \/ Kill
  BY <1>4 DEF User01Stop, EndOfInput, PhdstGivesUp, Kill, IndexReady
<1>5. ASSUME NEW r \in Tape, User01(r) \/ Unasked(r) PROVE IndexReady'
  BY <1>0, <1>5 DEF User01, Unasked, Deliver, sdst, failure, IndexReady
<1>6. CASE User02Step
  <2>1. pc = "record" /\ UNCHANGED <<cfg, sdst>>
    BY <1>6, User02Common DEF User02
  <2>2. g_callback_failed => g_callback_failed'
    BY <1>6, User02Common DEF failure, WriteEvent, EventThrows, Failure
  <2>3. g_callback_failed' \in BOOLEAN /\ g_callback_failed \in BOOLEAN
    BY NextGlobalsType DEF IInv, TypeOK, GlobalsType
  <2> QED BY <1>0, <2>1, <2>2, <2>3 DEF sdst, IndexReady
<1>7. ASSUME NEW failing, User99(failing) PROVE IndexReady'
  BY <1>7 DEF User99, IndexReady
<1>8. ASSUME NEW throws, Return(throws) PROVE IndexReady'
  BY <1>8 DEF Return, IndexReady
<1>9. CASE UNCHANGED vars
  BY <1>0, <1>9 DEF vars, sdst, failure, IndexReady
<1> QED
  BY <1>1, <1>2, <1>3, <1>4, <1>5, <1>6, <1>7, <1>8, <1>9 DEF Next, User99Step, ReturnStep

LEMMA NextFooterLast == IInv /\ [Next]_vars => FooterLast'
<1> SUFFICES ASSUME IInv, [Next]_vars PROVE FooterLast'
  OBVIOUS
<1>0. FooterLast /\ TypeOK /\ JobSetUp
  BY DEF IInv
<1>1. ASSUME NEW c \in Configs, Run(c) \/ RunRefused(c) PROVE FooterLast'
  <2>1. footer' = None
    BY <1>1 DEF Run, RunRefused, Reset
  <2> QED BY <2>1, HarnessAssumption DEF FooterLast
<1>2. CASE User00NoOutput \/ User00 \/ User00Throws
  BY <1>0, <1>2 DEF User00NoOutput, User00, User00Throws, failure, FooterLast
<1>3. CASE User01Stop \/ EndOfInput \/ PhdstGivesUp \/ Kill
  BY <1>0, <1>3 DEF User01Stop, EndOfInput, PhdstGivesUp, Kill, failure, FooterLast
<1>4. ASSUME NEW r \in Tape, User01(r) \/ Unasked(r) PROVE FooterLast'
  BY <1>0, <1>4 DEF User01, Unasked, Deliver, FooterLast
<1>5. CASE User02Step
  BY <1>0, <1>5, User02Common DEF User02, FooterLast
<1>6. ASSUME NEW failing, User99(failing) PROVE FooterLast'
  <2>1. pc = "end" /\ pc' = "return" /\ g_writer' = FALSE /\ exit' = exit /\ Footer
    BY <1>6 DEF User99
  <2>2. exit = None
    BY <1>0, <2>1 DEF JobSetUp, Asleep
  <2>3. footer' = "success" => ~g_callback_failed'
    BY <2>1 DEF Footer
  <2> QED BY <2>1, <2>2, <2>3, HarnessAssumption DEF FooterLast
<1>7. ASSUME NEW throws \in BOOLEAN, Return(throws) PROVE FooterLast'
  <2>1. SUFFICES ASSUME footer = "success" PROVE FooterLast'
    BY <1>7 DEF Return, FooterLast
  <2>2. pc' = "idle" /\ g_writer' = FALSE
    BY <1>7 DEF Return
  <2>3. ~throws
    BY <1>0, <1>7, <2>1 DEF Return, FooterLast
  <2>4. ~g_callback_failed'
    BY <1>0, <1>7, <2>1, <2>3 DEF Return, failure, FooterLast
  <2>5. exit' \in {0, 2}
    BY <1>7, <2>4 DEF Return, ExitCode
  <2> QED BY <2>2, <2>4, <2>5 DEF FooterLast
<1>8. CASE UNCHANGED vars
  BY <1>0, <1>8 DEF vars, failure, FooterLast
<1> QED
  BY <1>1, <1>2, <1>3, <1>4, <1>5, <1>6, <1>7, <1>8 DEF Next, User99Step, ReturnStep

LEMMA NextWriterAndFile == IInv /\ [Next]_vars => WriterAndFile'
<1> SUFFICES ASSUME IInv, [Next]_vars PROVE WriterAndFile'
  OBVIOUS
<1>0. WriterAndFile /\ TypeOK /\ JobSetUp /\ Untouched
  BY DEF IInv
<1> USE DEF output, failure, Asleep
<1>1. ASSUME NEW c \in Configs, Run(c) \/ RunRefused(c) PROVE WriterAndFile'
  <2>1. /\ pc' \in {"idle", "start"} /\ g_writer' = FALSE
        /\ out_exists' = FALSE /\ out_events' = <<>> /\ out_whole' = FALSE
    BY <1>1 DEF Run, RunRefused, Reset
  <2> QED BY <2>1 DEF WriterAndFile
<1>2. CASE User00NoOutput
  BY <1>0, <1>2 DEF User00NoOutput, WriterAndFile, Untouched
<1>3. CASE User00
  BY <1>0, <1>3 DEF User00, OpenOutput, WriterAndFile, Untouched, TypeOK, OutputType
<1>4. CASE User00Throws
  <2>1. pc = "start" /\ pc' = "loop" /\ g_callback_failed' /\ UNCHANGED <<out_events, out_whole>>
    BY <1>4 DEF User00Throws, Failure
  <2>2. g_writer' => out_exists'
    BY <1>0, <1>4, <2>1 DEF User00Throws, OpenOutput, Untouched
  <2> QED BY <1>0, <2>1, <2>2 DEF WriterAndFile, Untouched
<1>5. CASE User01Stop \/ EndOfInput \/ PhdstGivesUp \/ Kill
  BY <1>0, <1>5, HarnessAssumption
  DEF User01Stop, EndOfInput, PhdstGivesUp, Kill, WriterAndFile, JobSetUp
<1>6. ASSUME NEW r \in Tape, User01(r) \/ Unasked(r) PROVE WriterAndFile'
  BY <1>0, <1>6 DEF User01, Unasked, Deliver, WriterAndFile
<1>7. CASE User02Step
  <2>1. User02
    BY <1>7, User02Common
  <2>2. pc = "record" /\ pc' = "loop" /\ UNCHANGED <<g_writer, out_exists, out_whole>>
    BY <2>1 DEF User02
  <2>3. CASE UNCHANGED <<failure, out_events>>
    BY <1>0, <2>2, <2>3 DEF WriterAndFile
  <2>4. CASE WriteEvent
    <3>1. g_writer /\ UNCHANGED failure
      BY <1>0, <2>2, <2>4 DEF WriteEvent, FirstDelivery, Live, WriterAndFile
    <3> QED BY <1>0, <2>2, <3>1 DEF WriterAndFile
  <2>5. CASE EventThrows
    BY <1>0, <2>2, <2>5 DEF EventThrows, Failure, WriterAndFile
  <2> QED BY <1>7, <2>3, <2>4, <2>5, User02Common
<1>8. ASSUME NEW failing, User99(failing) PROVE WriterAndFile'
  <2>1. /\ pc = "end" /\ pc' = "return" /\ ~g_writer' /\ UNCHANGED <<out_exists, out_events>>
        /\ out_whole' = IF g_writer /\ "finish" \notin failing THEN TRUE ELSE out_whole
    BY <1>8 DEF User99
  <2>2. g_callback_failed \/ "finish" \in failing => g_callback_failed'
    BY <1>8 DEF User99, Failure
  <2> QED BY <1>0, <2>1, <2>2 DEF WriterAndFile
<1>9. ASSUME NEW throws \in BOOLEAN, Return(throws) PROVE WriterAndFile'
  <2>1. /\ pc = "return" /\ pc' = "idle" /\ ~g_writer' /\ UNCHANGED <<out_exists, out_events>>
        /\ out_whole' = IF g_writer /\ ~throws THEN TRUE ELSE out_whole
    BY <1>9 DEF Return
  <2>2. g_callback_failed \/ throws => g_callback_failed'
    BY <1>9 DEF Return, Failure
  <2> QED BY <1>0, <2>1, <2>2 DEF WriterAndFile
<1>10. CASE UNCHANGED vars
  BY <1>0, <1>10 DEF vars, WriterAndFile
<1> QED
  BY <1>1, <1>2, <1>3, <1>4, <1>5, <1>6, <1>7, <1>8, <1>9, <1>10
  DEF Next, User99Step, ReturnStep

\* An event that is written is one that was not yet processed, and its frame is
\* the one pass 1 has for it.
LEMMA WriteEventProperties ==
  ASSUME IInv, WriteEvent
  PROVE  LET f == [key |-> rec.key, sdst |-> StartingFrame]
         IN  /\ out_events' = Append(out_events, f)
             /\ f.key \notin g_processed /\ f.key \in g_processed'
             /\ IF cfg.inter = <<>> THEN f.sdst = None ELSE Earliest(cfg.inter, f.key, f.sdst)
             /\ UNCHANGED cfg /\ g_processed \subseteq g_processed'
<1>1. /\ pc = "record" /\ ~g_callback_failed /\ UNCHANGED cfg
      /\ out_events' = Append(out_events, [key |-> rec.key, sdst |-> StartingFrame])
      /\ rec.key \notin g_processed /\ g_processed' = g_processed \cup {rec.key}
      /\ Matched
  BY DEF WriteEvent, FirstDelivery, Live, User02, IsRedelivery, Remember
<1>2. /\ g_sdst_readers = cfg.inter
      /\ \A k \in DOMAIN g_sdst_index : Earliest(cfg.inter, k, g_sdst_index[k])
  BY <1>1 DEF IInv, IndexReady
<1>3. IF cfg.inter = <<>> THEN StartingFrame = None
                          ELSE Earliest(cfg.inter, rec.key, StartingFrame)
  <2>1. CASE cfg.inter = <<>>
    BY <1>2, <2>1 DEF StartingFrame
  <2>2. CASE cfg.inter # <<>>
    <3>1. Earliest(cfg.inter, rec.key, g_sdst_index[rec.key])
      BY <1>1, <1>2, <2>2 DEF Matched
    <3>2. g_sdst_index[rec.key] \in Entries(g_sdst_readers)
      BY <1>2, <3>1 DEF Earliest
    <3>3. StartingFrame = g_sdst_index[rec.key]
      BY <1>2, <2>2, <3>2 DEF StartingFrame, ReadEntry
    <3> QED BY <2>2, <3>1, <3>3
  <2> QED BY <2>1, <2>2
<1> QED BY <1>1, <1>3

LEMMA NextWritten ==
  IInv /\ [Next]_vars => (WrittenAndProcessed /\ OneFramePerEvent /\ OwnFrame)'
<1> SUFFICES ASSUME IInv, [Next]_vars
             PROVE  WrittenAndProcessed' /\ OneFramePerEvent' /\ OwnFrame'
  OBVIOUS
<1>0. /\ WrittenAndProcessed /\ OneFramePerEvent /\ OwnFrame
      /\ out_events \in Seq(Frame)
  BY DEF IInv, TypeOK, OutputType
<1>1. ASSUME NEW c \in Configs, Run(c) \/ RunRefused(c)
      PROVE  WrittenAndProcessed' /\ OneFramePerEvent' /\ OwnFrame'
  <2>1. out_events' = <<>> /\ g_n_written' = 0
    BY <1>1 DEF Run, RunRefused, Reset
  <2>2. DOMAIN out_events' = {} /\ Len(out_events') = 0
    BY <2>1
  <2> QED BY <2>1, <2>2 DEF WrittenAndProcessed, WrittenKeys, OneFramePerEvent, OwnFrame
<1>2. ASSUME UNCHANGED <<out_events, g_n_written, cfg>>, g_processed \subseteq g_processed'
      PROVE  WrittenAndProcessed' /\ OneFramePerEvent' /\ OwnFrame'
  BY <1>0, <1>2 DEF WrittenAndProcessed, WrittenKeys, OneFramePerEvent, OwnFrame
<1>3. CASE WriteEvent
  <2> DEFINE f == [key |-> rec.key, sdst |-> StartingFrame]
  <2>1. /\ out_events' = Append(out_events, f)
        /\ f.key \notin g_processed /\ f.key \in g_processed'
        /\ IF cfg.inter = <<>> THEN f.sdst = None ELSE Earliest(cfg.inter, f.key, f.sdst)
        /\ UNCHANGED cfg /\ g_processed \subseteq g_processed'
    BY <1>3, WriteEventProperties
  <2>2. g_n_written' = g_n_written + 1
    BY <1>3 DEF WriteEvent
  <2> HIDE DEF f
  <2>3. /\ Len(out_events) \in Nat /\ DOMAIN out_events = 1 .. Len(out_events)
        /\ Len(out_events') = Len(out_events) + 1
        /\ DOMAIN out_events' = 1 .. Len(out_events) + 1
        /\ \A i \in 1 .. Len(out_events) : out_events'[i] = out_events[i]
        /\ out_events'[Len(out_events) + 1] = f
    BY <1>0, <2>1
  <2>4. \A i \in 1 .. Len(out_events) : out_events[i].key \in g_processed
    BY <1>0, <2>3 DEF WrittenAndProcessed, WrittenKeys
  <2>5. WrittenAndProcessed'
    <3>1. \A i \in DOMAIN out_events' : out_events'[i].key \in g_processed'
      BY <2>1, <2>3, <2>4
    <3> QED BY <1>0, <2>2, <2>3, <3>1 DEF WrittenAndProcessed, WrittenKeys
  <2>6. OneFramePerEvent'
    BY <1>0, <2>1, <2>3, <2>4 DEF OneFramePerEvent
  <2>7. OwnFrame'
    BY <1>0, <2>1, <2>3 DEF OwnFrame
  <2> QED BY <2>5, <2>6, <2>7
<1>4. CASE EventThrows
  BY <1>2, <1>4 DEF EventThrows, FirstDelivery, Remember, User02
<1>5. CASE User02Step
  <2>1. UNCHANGED cfg
    BY <1>5, User02Common DEF User02
  <2> QED BY <1>2, <1>3, <1>4, <1>5, <2>1, User02Common
<1>6. CASE \/ User00NoOutput \/ User00 \/ User00Throws \/ User01Stop \/ EndOfInput
           \/ PhdstGivesUp \/ Kill \/ UNCHANGED vars
  <2>1. UNCHANGED <<out_events, g_n_written, cfg, g_processed>>
    BY <1>6 DEF User00NoOutput, User00, User00Throws, User01Stop, EndOfInput, PhdstGivesUp,
                Kill, vars, output, counters
  <2> QED BY <1>2, <2>1
<1>7. ASSUME NEW r \in Tape, User01(r) \/ Unasked(r)
      PROVE  WrittenAndProcessed' /\ OneFramePerEvent' /\ OwnFrame'
  <2>1. UNCHANGED <<out_events, g_n_written, cfg, g_processed>>
    BY <1>7 DEF User01, Unasked, Deliver, output, counters
  <2> QED BY <1>2, <2>1
<1>8. ASSUME NEW failing, User99(failing)
      PROVE  WrittenAndProcessed' /\ OneFramePerEvent' /\ OwnFrame'
  BY <1>2, <1>8 DEF User99, counters
<1>9. ASSUME NEW throws, Return(throws)
      PROVE  WrittenAndProcessed' /\ OneFramePerEvent' /\ OwnFrame'
  BY <1>2, <1>9 DEF Return, counters
<1> QED
  BY <1>1, <1>5, <1>6, <1>7, <1>8, <1>9 DEF Next, User99Step, ReturnStep

-----------------------------------------------------------------------------
LEMMA InitInv == Init => IInv
<1> SUFFICES ASSUME Init PROVE IInv
  OBVIOUS
<1>1. TypeOK
  BY InitType
<1>2. JobSetUp /\ Untouched /\ IndexReady
  BY DEF Init, JobSetUp, Untouched, IndexReady, Asleep
<1>3. WriterAndFile /\ FooterLast
  BY HarnessAssumption DEF Init, WriterAndFile, FooterLast
<1>4. out_events = <<>> /\ DOMAIN out_events = {} /\ Len(out_events) = 0
  BY DEF Init
<1>5. WrittenAndProcessed /\ OneFramePerEvent /\ OwnFrame
  BY <1>4 DEF Init, WrittenAndProcessed, WrittenKeys, OneFramePerEvent, OwnFrame
<1> QED BY <1>1, <1>2, <1>3, <1>5 DEF IInv

LEMMA NextInv == IInv /\ [Next]_vars => IInv'
<1> SUFFICES ASSUME IInv, [Next]_vars PROVE IInv'
  OBVIOUS
<1>1. TypeOK'
  BY NextJobType, NextSdstType, NextGlobalsType, NextOutputType DEF IInv, TypeOK
<1> QED
  BY <1>1, NextJobSetUp, NextUntouched, NextIndexReady, NextWriterAndFile, NextWritten,
     NextFooterLast
  DEF IInv

(***************************************************************************)
(* The globals of the harness keep the relation the callbacks rely on,     *)
(* PhdstHarness.cpp 46-73.                                                 *)
(***************************************************************************)
THEOREM Invariance == Spec => []IInv
BY InitInv, NextInv, PTL DEF Spec

(***************************************************************************)
(* The globals have the types of their declarations, 46-73.                *)
(***************************************************************************)
THEOREM TypeCorrect == Spec => []TypeOK
<1>1. IInv => TypeOK
  BY DEF IInv
<1> QED BY <1>1, Invariance, PTL

(***************************************************************************)
(* No event is written twice, 248-257, whatever the tape delivers.         *)
(***************************************************************************)
THEOREM NoEventTwice == Spec => []OneFramePerEvent
<1>1. IInv => OneFramePerEvent
  BY DEF IInv
<1> QED BY <1>1, Invariance, PTL

(***************************************************************************)
(* A pass-2 frame extends the pass-1 frame of its own event, 263-296, the  *)
(* earliest if the intermediates have several, whatever they hold and      *)
(* however often run() was called.                                         *)
(***************************************************************************)
THEOREM FramesAreJoinedByKey == Spec => []OwnFrame
<1>1. IInv => OwnFrame
  BY DEF IInv
<1> QED BY <1>1, Invariance, PTL

(***************************************************************************)
(* A job that returns 3 did not print the success footer, 367-376.         *)
(***************************************************************************)
THEOREM FooterIsHonest == Spec => []FooterAgreesWithExit
<1>1. IInv => FooterAgreesWithExit
  BY DEF IInv, FooterLast, FooterAgreesWithExit
<1> QED BY <1>1, Invariance, PTL

-----------------------------------------------------------------------------
(* A failure is final.                                                      *)

\* After a failure no step but the next run() changes the diagnostic or adds to
\* the file.
LEMMA FailureStep ==
  IInv /\ [Next]_vars =>
    [g_callback_failed /\ jobs' = jobs =>
       g_callback_failed' /\ UNCHANGED <<g_callback_failure, out_events>>]_vars
<1> SUFFICES ASSUME IInv, Next, g_callback_failed, jobs' = jobs
             PROVE  g_callback_failed' /\ UNCHANGED <<g_callback_failure, out_events>>
  OBVIOUS
<1> USE DEF failure, output
<1>1. ASSUME NEW c \in Configs, Run(c) \/ RunRefused(c) PROVE FALSE
  <2>1. jobs' = jobs + 1 /\ jobs \in Nat
    BY <1>1 DEF Run, RunRefused, Reset, IInv, TypeOK, JobType
  <2> QED BY <2>1
<1>2. CASE User00NoOutput \/ User00
  BY <1>2 DEF User00NoOutput, User00
<1>3. ~User00Throws
  BY DEF User00Throws, IInv, Untouched
<1>4. CASE User01Stop \/ EndOfInput \/ PhdstGivesUp \/ Kill
  BY <1>4 DEF User01Stop, EndOfInput, PhdstGivesUp, Kill
<1>5. ASSUME NEW r \in Tape, User01(r) \/ Unasked(r)
      PROVE  g_callback_failed' /\ UNCHANGED <<g_callback_failure, out_events>>
  BY <1>5 DEF User01, Unasked, Deliver
<1>6. CASE User02Step
  <2>1. ~WriteEvent /\ ~EventThrows
    BY DEF WriteEvent, EventThrows, FirstDelivery, Live
  <2> QED BY <1>6, <2>1, User02Common
<1>7. ASSUME NEW failing, User99(failing)
      PROVE  g_callback_failed' /\ UNCHANGED <<g_callback_failure, out_events>>
  BY <1>7 DEF User99, Failure
<1>8. ASSUME NEW throws, Return(throws)
      PROVE  g_callback_failed' /\ UNCHANGED <<g_callback_failure, out_events>>
  BY <1>8 DEF Return, Failure
<1> QED
  BY <1>1, <1>2, <1>3, <1>4, <1>5, <1>6, <1>7, <1>8 DEF Next, User99Step, ReturnStep

(***************************************************************************)
(* recordCallbackFailure 112-138: the first failure is the one reported,   *)
(* and the partial file does not grow after it.                            *)
(***************************************************************************)
THEOREM FirstFailureStays == Spec => FailureIsFinal
<1>1. IInv /\ [Next]_vars =>
        [g_callback_failed /\ jobs' = jobs =>
           g_callback_failed' /\ UNCHANGED <<g_callback_failure, out_events>>]_vars
  BY FailureStep
<1> QED BY <1>1, Invariance, PTL DEF Spec, FailureIsFinal

-----------------------------------------------------------------------------
(* The refinement: which step of the job each action is.                    *)

Running == {"start", "loop", "record", "end", "return"}

LEMMA RunningState ==
  ASSUME pc \in Running
  PROVE  JobState = "running"
BY DEF JobState, Running

LEMMA RunningState2 ==
  ASSUME pc' \in Running
  PROVE  JobState' = "running"
BY DEF JobState, Running

\* run() is called when no job is running.
LEMMA IdleIsFree ==
  ASSUME IInv, pc = "idle"
  PROVE  JobState \notin {"running", "killed"}
<1>1. exit \in {None, 0, 1, 2, 3}
  BY DEF IInv, TypeOK, JobType
<1> QED BY <1>1, HarnessAssumption DEF JobState, Outcome

\* A step that stays inside run() and leaves the file alone is a stutter.
LEMMA InsideStutter ==
  ASSUME pc \in Running, pc' \in Running, UNCHANGED <<out_exists, out_events, out_whole>>
  PROVE  UNCHANGED Job!vars
<1>1. JobState = "running" /\ JobState' = "running"
  BY RunningState, RunningState2
<1>2. WrittenKeys' = WrittenKeys
  BY DEF WrittenKeys
<1> QED BY <1>1, <1>2 DEF Job!vars

\* The file of a job that has written nothing holds no key, and conversely.
LEMMA EmptyFile ==
  ASSUME IInv
  PROVE  /\ out_events \in Seq(Frame) /\ g_n_written = Len(out_events)
         /\ WrittenKeys = {} <=> g_n_written = 0
         /\ WrittenKeys # {} => out_exists
<1>1. out_events \in Seq(Frame) /\ g_n_written = Len(out_events)
  BY DEF IInv, TypeOK, OutputType, WrittenAndProcessed
<1>2. DOMAIN out_events = 1 .. Len(out_events) /\ Len(out_events) \in Nat
  BY <1>1
<1>3. g_n_written = 0 => WrittenKeys = {}
  BY <1>1, <1>2 DEF WrittenKeys
<1>4. g_n_written # 0 => WrittenKeys # {}
  <2>1. g_n_written # 0 => 1 \in DOMAIN out_events
    BY <1>1, <1>2
  <2> QED BY <2>1 DEF WrittenKeys
<1>5. out_events = <<>> => WrittenKeys = {}
  BY DEF WrittenKeys
<1> QED BY <1>1, <1>3, <1>4, <1>5 DEF IInv, WriterAndFile

LEMMA JobInit == Init => Job!Init
<1> SUFFICES ASSUME Init PROVE Job!Init
  OBVIOUS
<1>1. JobState = "idle"
  BY HarnessAssumption DEF Init, JobState, Outcome
<1>2. WrittenKeys = {}
  <2>1. DOMAIN out_events = {}
    BY DEF Init
  <2> QED BY <2>1 DEF WrittenKeys
<1> QED BY <1>1, <1>2 DEF Init, Job!Init

LEMMA JobRun ==
  ASSUME IInv, NEW c \in Configs, Run(c) \/ RunRefused(c)
  PROVE  Job!Start \/ Job!Refuse
<1>1. Job!Free
  BY IdleIsFree DEF Run, RunRefused, Job!Free
<1>2. Job!NoFile
  <2>1. out_exists' = FALSE /\ out_events' = <<>> /\ out_whole' = FALSE
    BY DEF Run, RunRefused, Reset
  <2>2. WrittenKeys' = {}
    BY <2>1 DEF WrittenKeys
  <2> QED BY <2>1, <2>2 DEF Job!NoFile
<1>3. CASE Run(c)
  <2>1. JobState' = "running"
    BY <1>3, RunningState2 DEF Run, Running
  <2> QED BY <1>1, <1>2, <2>1 DEF Job!Start
<1>4. CASE RunRefused(c)
  <2>1. pc' = "idle" /\ exit' = 1
    BY <1>4 DEF RunRefused
  <2>2. JobState' = "refused"
    BY <2>1, HarnessAssumption DEF JobState, Outcome
  <2> QED BY <1>1, <1>2, <2>2 DEF Job!Refuse
<1> QED BY <1>3, <1>4

LEMMA JobUser00 ==
  ASSUME IInv, User00 \/ User00Throws
  PROVE  Job!Create \/ UNCHANGED Job!vars
<1>1. pc = "start" /\ pc' = "loop" /\ UNCHANGED <<out_events, out_whole>>
  BY DEF User00, User00Throws
<1>2. JobState = "running" /\ JobState' = "running" /\ WrittenKeys' = WrittenKeys
  BY <1>1, RunningState, RunningState2 DEF Running, WrittenKeys
<1>3. ~out_exists
  BY <1>1 DEF IInv, Untouched
<1>4. out_exists' = TRUE \/ out_exists' = out_exists
  BY DEF User00, User00Throws, OpenOutput
<1> QED BY <1>1, <1>2, <1>3, <1>4 DEF Job!Create, Job!vars

LEMMA JobWriteEvent ==
  ASSUME IInv, WriteEvent
  PROVE  \E k \in Keys : Job!Add(k)
<1>1. /\ pc = "record" /\ pc' = "loop" /\ ~g_callback_failed
      /\ UNCHANGED <<out_exists, out_whole>>
  BY DEF WriteEvent, FirstDelivery, Live, User02
<1>2. rec.key \in Keys
  BY <1>1, User02Input DEF IInv
<1>3. JobState = "running" /\ JobState' = "running"
  BY <1>1, RunningState, RunningState2 DEF Running
<1>4. g_writer /\ out_exists /\ ~out_whole
  BY <1>1 DEF IInv, WriterAndFile
<1> DEFINE f == [key |-> rec.key, sdst |-> StartingFrame]
<1>5. out_events' = Append(out_events, f) /\ f.key = rec.key /\ rec.key \notin g_processed
  BY DEF WriteEvent, FirstDelivery, IsRedelivery
<1>6. rec.key \notin WrittenKeys
  BY <1>5 DEF IInv, WrittenAndProcessed
<1>7. WrittenKeys' = WrittenKeys \cup {rec.key}
  <2> HIDE DEF f
  <2>1. out_events \in Seq(Frame)
    BY EmptyFile
  <2>2. /\ Len(out_events) \in Nat /\ DOMAIN out_events = 1 .. Len(out_events)
        /\ DOMAIN out_events' = 1 .. Len(out_events) + 1
        /\ \A i \in 1 .. Len(out_events) : out_events'[i] = out_events[i]
        /\ out_events'[Len(out_events) + 1] = f
    BY <1>5, <2>1
  <2>3. WrittenKeys' \subseteq WrittenKeys \cup {rec.key}
    BY <1>5, <2>2 DEF WrittenKeys
  <2>4. WrittenKeys \subseteq WrittenKeys'
    BY <2>2 DEF WrittenKeys
  <2>5. rec.key \in WrittenKeys'
    BY <1>5, <2>2 DEF WrittenKeys
  <2> QED BY <2>3, <2>4, <2>5
<1>8. Job!Add(rec.key)
  BY <1>1, <1>3, <1>4, <1>6, <1>7 DEF Job!Add
<1> QED BY <1>2, <1>8

LEMMA JobUser99 ==
  ASSUME IInv, NEW failing, User99(failing)
  PROVE  Job!Seal \/ UNCHANGED Job!vars
<1>1. /\ pc = "end" /\ pc' = "return" /\ UNCHANGED <<out_exists, out_events>>
      /\ out_whole' = IF g_writer /\ "finish" \notin failing THEN TRUE ELSE out_whole
  BY DEF User99
<1>2. JobState = "running" /\ JobState' = "running" /\ WrittenKeys' = WrittenKeys
  BY <1>1, RunningState, RunningState2 DEF Running, WrittenKeys
<1>3. g_writer => out_exists /\ ~out_whole
  BY DEF IInv, WriterAndFile
<1> QED BY <1>1, <1>2, <1>3 DEF Job!Seal, Job!vars

LEMMA JobReturn ==
  ASSUME IInv, NEW throws \in BOOLEAN, Return(throws)
  PROVE  Job!Succeed \/ Job!GiveUpEmpty \/ Job!Fail
<1>1. /\ pc = "return" /\ pc' = "idle" /\ UNCHANGED <<out_exists, out_events>>
      /\ out_whole' = IF g_writer /\ ~throws THEN TRUE ELSE out_whole
      /\ (throws => g_writer) /\ ExitCode
  BY DEF Return
<1>2. JobState = "running" /\ WrittenKeys' = WrittenKeys
  BY <1>1, RunningState DEF Running, WrittenKeys
<1>3. /\ g_writer => out_exists /\ ~out_whole
      /\ out_exists /\ ~g_writer /\ ~g_callback_failed => out_whole
      /\ out_whole => out_exists
      /\ out_exists \in BOOLEAN /\ out_whole \in BOOLEAN
  BY DEF IInv, WriterAndFile, TypeOK, OutputType
<1>4. throws \/ g_callback_failed => g_callback_failed'
  BY DEF Return, Failure, failure
<1>5. CASE g_callback_failed'
  <2>1. exit' = 3
    BY <1>1, <1>5 DEF ExitCode
  <2>2. JobState' = "failed"
    BY <1>1, <2>1, HarnessAssumption DEF JobState, Outcome
  <2>3. out_whole' \in {out_whole, out_exists}
    BY <1>1, <1>3
  <2> QED BY <1>1, <1>2, <2>2, <2>3 DEF Job!Fail
<1>6. CASE ~g_callback_failed'
  <2>1. ~throws /\ ~g_callback_failed
    BY <1>4, <1>6
  <2>2. out_whole' = out_exists
    BY <1>1, <1>3, <2>1
  <2>3. CASE g_n_written <= 0
    <3>1. exit' = 2
      BY <1>1, <1>6, <2>3 DEF ExitCode
    <3>2. JobState' = "empty"
      BY <1>1, <3>1, HarnessAssumption DEF JobState, Outcome
    <3>3. WrittenKeys = {}
      BY <2>3, EmptyFile
    <3> QED BY <1>1, <1>2, <2>2, <3>2, <3>3 DEF Job!GiveUpEmpty
  <2>4. CASE ~(g_n_written <= 0)
    <3>1. exit' = 0
      BY <1>1, <1>6, <2>4 DEF ExitCode
    <3>2. JobState' = "ok"
      BY <1>1, <3>1, HarnessAssumption DEF JobState, Outcome
    <3>3. WrittenKeys # {} /\ out_exists
      BY <2>4, EmptyFile
    <3> QED BY <1>1, <1>2, <1>3, <2>2, <3>2, <3>3 DEF Job!Succeed
  <2> QED BY <2>3, <2>4
<1> QED BY <1>5, <1>6

\* std::exit(2) in user00, and a process that is killed.
LEMMA JobDies ==
  ASSUME IInv, User00NoOutput \/ Kill
  PROVE  Job!GiveUpEmpty \/ Job!Kill
<1>1. pc' = "dead" /\ UNCHANGED <<out_exists, out_events, out_whole>>
  BY DEF User00NoOutput, Kill, output
<1>2. WrittenKeys' = WrittenKeys
  BY <1>1 DEF WrittenKeys
<1>3. CASE User00NoOutput
  <2>1. pc = "start" /\ exit' = 2
    BY <1>3 DEF User00NoOutput
  <2>2. JobState = "running"
    BY <2>1, RunningState DEF Running
  <2>3. JobState' = "empty"
    BY <1>1, <2>1, HarnessAssumption DEF JobState, Outcome
  <2>4. ~out_exists /\ g_n_written = 0
    BY <2>1 DEF IInv, Untouched
  <2>5. WrittenKeys = {}
    BY <2>4, EmptyFile
  <2>6. out_whole = out_exists
    BY <2>4 DEF IInv, WriterAndFile, TypeOK, OutputType
  <2> QED BY <1>1, <1>2, <2>2, <2>3, <2>5, <2>6 DEF Job!GiveUpEmpty
<1>4. CASE Kill
  <2>1. pc \in Running /\ exit' = None
    BY <1>4 DEF Kill, IInv, JobSetUp, Asleep, Running, TypeOK, JobType, Control
  <2>2. JobState = "running" /\ JobState' = "killed"
    BY <1>1, <2>1, RunningState DEF JobState
  <2> QED BY <1>1, <1>2, <2>2 DEF Job!Kill
<1> QED BY <1>3, <1>4

LEMMA JobStep == IInv /\ [Next]_vars => [Job!Next]_Job!vars
<1> SUFFICES ASSUME IInv, [Next]_vars PROVE [Job!Next]_Job!vars
  OBVIOUS
<1>1. ASSUME NEW c \in Configs, Run(c) \/ RunRefused(c) PROVE Job!Next
  BY <1>1, JobRun DEF Job!Next
<1>2. CASE User00 \/ User00Throws
  BY <1>2, JobUser00 DEF Job!Next
<1>3. CASE User00NoOutput \/ Kill
  BY <1>3, JobDies DEF Job!Next
<1>4. CASE User01Stop \/ EndOfInput \/ PhdstGivesUp
  BY <1>4, InsideStutter DEF User01Stop, EndOfInput, PhdstGivesUp, output, Running
<1>5. ASSUME NEW r \in Tape, User01(r) \/ Unasked(r) PROVE UNCHANGED Job!vars
  BY <1>5, InsideStutter DEF User01, Unasked, Deliver, output, Running
<1>6. CASE User02Step
  <2>1. CASE WriteEvent
    BY <2>1, JobWriteEvent DEF Job!Next
  <2>2. CASE ~WriteEvent
    <3>1. User02 /\ UNCHANGED out_events
      BY <1>6, <2>2, User02Common DEF EventThrows
    <3> QED BY <3>1, InsideStutter DEF User02, Running
  <2> QED BY <2>1, <2>2
<1>7. ASSUME NEW failing, User99(failing) PROVE [Job!Next]_Job!vars
  BY <1>7, JobUser99 DEF Job!Next
<1>8. ASSUME NEW throws \in BOOLEAN, Return(throws) PROVE Job!Next
  BY <1>8, JobReturn DEF Job!Next
<1>9. CASE UNCHANGED vars
  <2>1. UNCHANGED <<pc, exit, out_exists, out_events, out_whole>>
    BY <1>9 DEF vars, output
  <2>2. JobState' = JobState /\ WrittenKeys' = WrittenKeys
    BY <2>1 DEF JobState, Outcome, WrittenKeys
  <2> QED BY <2>1, <2>2 DEF Job!vars
<1> QED
  BY <1>1, <1>2, <1>3, <1>4, <1>5, <1>6, <1>7, <1>8, <1>9 DEF Next, User99Step, ReturnStep

(***************************************************************************)
(* A run of the harness is a conversion job: in particular exit code 0 is  *)
(* returned (513-529) only for a finalised file with events in it.         *)
(***************************************************************************)
THEOREM HarnessImplementsJob == Spec => ImplementsJob
BY JobInit, JobStep, Invariance, PTL DEF Spec, ImplementsJob, Job!Spec

-----------------------------------------------------------------------------
(* What the file lost and what the census saw: records delivered so far     *)
(* against frames written so far.                                           *)

\* A step that neither delivers a record nor starts a job.
Quiet ==
  /\ UNCHANGED <<cfg, jobs, g_processed, g_n_seen, g_n_written, g_modules, out_events, delivered>>
  /\ g_callback_failed => g_callback_failed'

LEMMA QuietHistory ==
  ASSUME History, Quiet
  PROVE  /\ ProcessedSoFar' /\ FramesFollow'
         /\ ~g_callback_failed' =>
              /\ CarriedByWritten' \subseteq g_modules'
              /\ jobs' = 1 => g_modules' = CarriedByWritten'
<1> USE DEF Quiet
<1>1. ProcessedSoFar'
  BY DEF History, ProcessedSoFar, CapReached
<1>2. \A i : (FirstDst(i)' <=> FirstDst(i)) /\ (Taken(i)' <=> Taken(i))
  BY DEF Taken, FirstDst, InPassOne
<1>3. FramesFollow'
  BY <1>2 DEF History, FramesFollow, FramesAt, InOrder, Served, Full
<1>4. CarriedByWritten' = CarriedByWritten
  BY <1>2 DEF CarriedByWritten, WrittenKeys
<1> QED BY <1>1, <1>3, <1>4 DEF History, CensusSoFar

\* The frames written so far are those of records processed so far.
LEMMA WrittenWereDelivered ==
  ASSUME IInv, ProcessedSoFar, jobs > 0, ~g_callback_failed, NEW k \in WrittenKeys
  PROVE  \E i \in DOMAIN delivered : delivered[i].dst /\ delivered[i].key = k
BY DEF IInv, WrittenAndProcessed, ProcessedSoFar

\* The record user02 is called with becomes the last one delivered.
LEMMA DeliveredGrows ==
  ASSUME IInv, User02
  PROVE  /\ Len(delivered) \in Nat /\ DOMAIN delivered = 1 .. Len(delivered)
         /\ Len(delivered') = Len(delivered) + 1
         /\ DOMAIN delivered' = 1 .. Len(delivered) + 1
         /\ \A i \in DOMAIN delivered :
              /\ delivered'[i] = delivered[i]
              /\ (FirstDst(i)' <=> FirstDst(i)) /\ (Taken(i)' <=> Taken(i))
         /\ delivered'[Len(delivered) + 1] = rec
<1>1. delivered \in Seq(Record) /\ rec \in Record /\ delivered' = Append(delivered, rec)
  BY User02Input DEF IInv, TypeOK, JobType, User02
<1>2. /\ Len(delivered) \in Nat /\ DOMAIN delivered = 1 .. Len(delivered)
      /\ Len(delivered') = Len(delivered) + 1
      /\ DOMAIN delivered' = 1 .. Len(delivered) + 1
      /\ \A i \in 1 .. Len(delivered) : delivered'[i] = delivered[i]
      /\ delivered'[Len(delivered) + 1] = rec
  BY <1>1, AppendProperties, LenProperties
<1>3. UNCHANGED cfg
  BY DEF User02
<1>4. ASSUME NEW i \in DOMAIN delivered
      PROVE  (FirstDst(i)' <=> FirstDst(i)) /\ (Taken(i)' <=> Taken(i))
  <2>1. \A j \in 1 .. i - 1 : delivered'[j] = delivered[j]
    BY <1>2
  <2>2. FirstDst(i)' <=> FirstDst(i)
    BY <1>2, <2>1 DEF FirstDst
  <2> QED BY <1>2, <1>3, <2>2 DEF Taken, InPassOne
<1> QED BY <1>2, <1>4

\* Before the cap, user02 finds out whether it takes the record.
LEMMA TakenNow ==
  ASSUME IInv, ProcessedSoFar, jobs > 0, User02, ~g_callback_failed, ~CapReached,
         NEW n, n = Len(delivered)
  PROVE  Taken(n + 1)' <=>
           /\ rec.dst /\ rec.key \notin g_processed
           /\ ~IsSetup /\ Matched
<1>1. /\ n \in Nat /\ DOMAIN delivered = 1 .. n
      /\ \A i \in DOMAIN delivered : delivered'[i] = delivered[i]
      /\ delivered'[n + 1] = rec /\ cfg' = cfg
  BY DeliveredGrows DEF User02
<1>2. /\ g_n_seen = n
      /\ \A k \in g_processed : \E i \in 1 .. n : delivered[i].dst /\ delivered[i].key = k
      /\ \A i \in 1 .. n : delivered[i].dst => delivered[i].key \in g_processed
  BY <1>1 DEF ProcessedSoFar
<1>3. (\E j \in 1 .. n : delivered'[j].dst /\ delivered'[j].key = rec.key)
        <=> rec.key \in g_processed
  BY <1>1, <1>2
<1>4. Matched <=> (cfg.inter # <<>> => rec.key \in KeysIn(cfg.inter))
  BY DEF User02, IInv, IndexReady, Matched
<1>5. IsSetup <=> n + 1 = 1 /\ ~rec.pv
  BY <1>1, <1>2 DEF IsSetup
<1>6. (n + 1) - 1 = n
  BY <1>1
<1>7. Taken(n + 1)' <=>
        /\ rec.dst
        /\ ~\E j \in 1 .. n : delivered'[j].dst /\ delivered'[j].key = rec.key
        /\ n + 1 = 1 => rec.pv
        /\ cfg.inter # <<>> => rec.key \in KeysIn(cfg.inter)
  BY <1>1, <1>6 DEF Taken, FirstDst, InPassOne
<1> QED BY <1>3, <1>4, <1>5, <1>7

\* What a call of user02 that gets past the failure test and does not throw
\* leaves behind: the frame of a record taken, or nothing.
LEMMA User02Outcome ==
  ASSUME IInv, ProcessedSoFar, jobs > 0, User02Step, ~g_callback_failed, ~g_callback_failed',
         NEW n, n = Len(delivered)
  PROVE  /\ User02 /\ UNCHANGED cfg
         /\ \/ /\ ~CapReached /\ Taken(n + 1)' /\ rec.key \notin g_processed
               /\ \E f : f.key = rec.key /\ out_events' = Append(out_events, f)
               /\ g_n_written' = g_n_written + 1
               /\ g_modules' = g_modules \cup rec.mods
            \/ /\ CapReached \/ ~Taken(n + 1)'
               /\ UNCHANGED <<out_events, g_n_written, g_modules>>
<1>1. User02 /\ UNCHANGED cfg
  BY User02Common DEF User02
<1>2. ~EventThrows /\ ~AfterFailure
  BY DEF EventThrows, Failure, AfterFailure
<1>3. CASE AfterCap
  BY <1>1, <1>3 DEF AfterCap, Dropped, registry
<1>4. CASE NotAnEvent \/ Redelivered \/ SkipSetup \/ SkipUnmatched
  <2>1. ~CapReached /\ UNCHANGED <<out_events, g_n_written, g_modules>>
    BY <1>4 DEF NotAnEvent, Redelivered, SkipSetup, SkipUnmatched, FirstDelivery, Dropped, registry
  <2>2. ~rec.dst \/ rec.key \in g_processed \/ IsSetup \/ ~Matched
    BY <1>4 DEF NotAnEvent, Redelivered, IsRedelivery, SkipSetup, SkipUnmatched
  <2> QED BY <1>1, <2>1, <2>2, TakenNow
<1>5. CASE WriteEvent
  <2>1. /\ ~CapReached /\ rec.dst /\ rec.key \notin g_processed /\ ~IsSetup /\ Matched
        /\ out_events' = Append(out_events, [key |-> rec.key, sdst |-> StartingFrame])
        /\ g_n_written' = g_n_written + 1 /\ g_modules' = g_modules \cup rec.mods
    BY <1>5 DEF WriteEvent, FirstDelivery, IsRedelivery, ObserveEvent
  <2>2. Taken(n + 1)'
    BY <1>1, <2>1, TakenNow
  <2> QED BY <1>1, <2>1, <2>2
<1> QED BY <1>2, <1>3, <1>4, <1>5 DEF User02Step

LEMMA User02Processed ==
  ASSUME IInv, ProcessedSoFar, jobs > 0, User02Step, ~g_callback_failed, ~g_callback_failed'
  PROVE  ProcessedSoFar'
<1> DEFINE n == Len(delivered)
<1>1. User02 /\ pc = "record"
  BY User02Common DEF User02
<1>2. /\ n \in Nat /\ DOMAIN delivered = 1 .. n
      /\ DOMAIN delivered' = 1 .. n + 1 /\ Len(delivered') = n + 1
      /\ \A i \in 1 .. n : delivered'[i] = delivered[i]
      /\ delivered'[n + 1] = rec /\ cfg' = cfg
  BY <1>1, DeliveredGrows DEF User02
<1>3. /\ g_n_seen = n
      /\ \A k \in g_processed : \E i \in 1 .. n : delivered[i].dst /\ delivered[i].key = k
      /\ CapReached \/ \A i \in 1 .. n : delivered[i].dst => delivered[i].key \in g_processed
  BY <1>2 DEF ProcessedSoFar
<1>4. ~EventThrows /\ ~AfterFailure
  BY DEF EventThrows, Failure, AfterFailure
<1>5. g_n_seen' = g_n_seen + 1
  BY <1>4 DEF User02Step, AfterCap, NotAnEvent, Redelivered, SkipSetup, SkipUnmatched,
              WriteEvent, FirstDelivery, Live
<1>6. \/ CapReached /\ UNCHANGED <<g_processed, g_n_written>>
      \/ (rec.dst => rec.key \in g_processed) /\ ~CapReached /\ UNCHANGED g_processed
      \/ rec.dst /\ ~CapReached /\ g_processed' = g_processed \cup {rec.key}
  BY <1>4 DEF User02Step, AfterCap, NotAnEvent, Redelivered, IsRedelivery, SkipSetup,
              SkipUnmatched, WriteEvent, FirstDelivery, Remember, Dropped
<1> HIDE DEF n
<1>7. \A k \in g_processed' : \E i \in 1 .. n + 1 : delivered'[i].dst /\ delivered'[i].key = k
  <2>1. ASSUME NEW k \in g_processed
        PROVE  \E i \in 1 .. n + 1 : delivered'[i].dst /\ delivered'[i].key = k
    <3>1. PICK i \in 1 .. n : delivered[i].dst /\ delivered[i].key = k
      BY <1>3
    <3>2. i \in 1 .. n + 1 /\ delivered'[i] = delivered[i]
      BY <1>2
    <3> QED BY <3>1, <3>2
  <2>2. n + 1 \in 1 .. n + 1
    BY <1>2
  <2> QED BY <1>2, <1>6, <2>1, <2>2
<1>8. CASE CapReached
  <2>1. CapReached'
    BY <1>2, <1>6, <1>8 DEF CapReached
  <2> QED BY <1>2, <1>3, <1>5, <1>7, <2>1 DEF ProcessedSoFar
<1>9. CASE ~CapReached
  <2>1. \A i \in 1 .. n + 1 : delivered'[i].dst => delivered'[i].key \in g_processed'
    <3> SUFFICES ASSUME NEW i \in 1 .. n + 1, delivered'[i].dst
                 PROVE  delivered'[i].key \in g_processed'
      OBVIOUS
    <3>1. g_processed \subseteq g_processed'
      BY <1>6
    <3>2. CASE i = n + 1
      BY <1>2, <1>6, <1>9, <3>2
    <3>3. CASE i # n + 1
      <4>1. i \in 1 .. n
        BY <1>2, <3>3
      <4> QED BY <1>2, <1>3, <1>9, <3>1, <4>1
    <3> QED BY <3>2, <3>3
  <2> QED BY <1>2, <1>3, <1>5, <1>7, <2>1 DEF ProcessedSoFar
<1> QED BY <1>8, <1>9

\* The places of the frames: unchanged, or with the new record for the new frame.
LEMMA User02FramesFollow ==
  ASSUME IInv, ProcessedSoFar, FramesFollow, jobs > 0, User02Step,
         ~g_callback_failed, ~g_callback_failed',
         NEW n, n = Len(delivered), NEW w, w = Len(out_events)
  PROVE  FramesFollow'
<1>1. User02 /\ cfg' = cfg /\ cfg \in Configs /\ cfg.max_events \in Int
  BY User02Common, ConfigType DEF User02, IInv, JobSetUp
<1>2. /\ n \in Nat /\ DOMAIN delivered = 1 .. n /\ DOMAIN delivered' = 1 .. n + 1
      /\ \A i \in 1 .. n : delivered'[i] = delivered[i] /\ (Taken(i)' <=> Taken(i))
      /\ delivered'[n + 1] = rec
  BY <1>1, DeliveredGrows
<1>3. out_events \in Seq(Frame) /\ w \in Nat /\ DOMAIN out_events = 1 .. w /\ g_n_written = w
  BY LenProperties DEF IInv, TypeOK, OutputType, WrittenAndProcessed
<1>4. PICK place \in [1 .. w -> 1 .. n] : FramesAt(place)
  BY <1>2, <1>3 DEF FramesFollow
<1>5. cfg.max_events > 0 => w <= cfg.max_events
  BY DEF FramesFollow
<1>6. /\ \A i, j \in 1 .. w : i < j => place[i] < place[j]
      /\ \A i \in 1 .. w : Taken(place[i]) /\ out_events[i].key = delivered[place[i]].key
      /\ \A r \in 1 .. n : Taken(r) =>
           \/ \E i \in 1 .. w : place[i] = r
           \/ Full /\ \A i \in 1 .. w : place[i] < r
  BY <1>2, <1>3, <1>4 DEF FramesAt, InOrder, Served
<1>7. CapReached <=> Full
  BY <1>1, <1>3, <1>5 DEF CapReached, Full
<1>8. CASE (CapReached \/ ~Taken(n + 1)') /\ out_events' = out_events
  <2>1. place \in [DOMAIN out_events' -> DOMAIN delivered']
    BY <1>2, <1>3, <1>8
  <2>2. Full' <=> Full
    BY <1>1, <1>8 DEF Full
  <2>3. \A i \in 1 .. w : Taken(place[i])' /\ out_events'[i].key = delivered'[place[i]].key
    BY <1>2, <1>4, <1>6, <1>8
  <2>4. ASSUME NEW r \in DOMAIN delivered', Taken(r)'
        PROVE  \/ \E i \in 1 .. w : place[i] = r
               \/ Full' /\ \A i \in 1 .. w : place[i] < r
    <3>1. CASE r \in 1 .. n
      BY <1>2, <1>6, <2>2, <2>4, <3>1
    <3>2. CASE r = n + 1
      <4>1. Full'
        BY <1>7, <1>8, <2>2, <2>4, <3>2
      <4>2. \A i \in 1 .. w : place[i] < r
        BY <1>2, <1>4, <3>2
      <4> QED BY <4>1, <4>2
    <3> QED BY <1>2, <3>1, <3>2
  <2>5. FramesAt(place)'
    BY <1>3, <1>6, <1>8, <2>3, <2>4 DEF FramesAt, InOrder, Served
  <2>6. cfg'.max_events > 0 => Len(out_events') <= cfg'.max_events
    BY <1>1, <1>5, <1>8
  <2> QED BY <2>1, <2>5, <2>6 DEF FramesFollow
<1>9. ASSUME ~CapReached, Taken(n + 1)',
             NEW f, f.key = rec.key, out_events' = Append(out_events, f)
      PROVE  FramesFollow'
  <2>1. /\ Len(out_events') = w + 1 /\ DOMAIN out_events' = 1 .. w + 1
        /\ \A i \in 1 .. w : out_events'[i] = out_events[i]
        /\ out_events'[w + 1] = f
    <3>1. out_events \in Seq(Frame \cup {f})
      BY <1>3, SeqMonotonic
    <3>2. DOMAIN out_events' = 1 .. Len(out_events')
      BY <1>9, <3>1, AppendProperties, LenProperties
    <3> QED BY <1>9, <3>1, <3>2, AppendProperties
  <2>2. PICK next \in [1 .. w + 1 -> 1 .. n + 1] :
          /\ next[w + 1] = n + 1
          /\ \A i \in 1 .. w : next[i] = place[i] /\ next[i] \in 1 .. n
    <3> DEFINE longer == [i \in 1 .. w + 1 |-> IF i = w + 1 THEN n + 1 ELSE place[i]]
    <3>1. n \in Nat /\ w \in Nat /\ place \in [1 .. w -> 1 .. n]
      BY <1>2, <1>3, <1>4
    <3>2. \A i \in 1 .. w : i \in 1 .. w + 1 /\ i # w + 1 /\ place[i] \in 1 .. n
      BY <3>1
    <3>3. longer[w + 1] = n + 1 /\ \A i \in 1 .. w : longer[i] = place[i] /\ longer[i] \in 1 .. n
      BY <3>1, <3>2
    <3>4. \A i \in 1 .. w + 1 : (IF i = w + 1 THEN n + 1 ELSE place[i]) \in 1 .. n + 1
      BY <3>1
    <3>5. longer \in [1 .. w + 1 -> 1 .. n + 1]
      BY <3>4
    <3> HIDE DEF longer
    <3> QED BY <3>3, <3>5
  <2>3. \A i, j \in 1 .. w + 1 : i < j => next[i] < next[j]
    <3> SUFFICES ASSUME NEW i \in 1 .. w + 1, NEW j \in 1 .. w + 1, i < j
                 PROVE  next[i] < next[j]
      OBVIOUS
    <3>0. w \in Nat
      BY <1>3
    <3>1. i \in 1 .. w
      BY <3>0
    <3>2. CASE j = w + 1
      BY <1>2, <2>2, <3>1, <3>2
    <3>3. CASE j # w + 1
      <4>1. j \in 1 .. w
        BY <3>0, <3>3
      <4> QED BY <1>6, <2>2, <3>1, <4>1
    <3> QED BY <3>2, <3>3
  <2>4. ASSUME NEW i \in 1 .. w + 1
        PROVE  Taken(next[i])' /\ out_events'[i].key = delivered'[next[i]].key
    <3>1. CASE i = w + 1
      BY <1>2, <1>9, <2>1, <2>2, <3>1
    <3>2. CASE i # w + 1
      <4>1. i \in 1 .. w /\ next[i] = place[i] /\ place[i] \in 1 .. n
        BY <1>3, <2>2, <3>2
      <4> QED BY <1>2, <1>6, <2>1, <4>1
    <3> QED BY <3>1, <3>2
  <2>5. ASSUME NEW r \in 1 .. n + 1, Taken(r)' PROVE \E i \in 1 .. w + 1 : next[i] = r
    <3>1. CASE r = n + 1
      <4>1. w + 1 \in 1 .. w + 1
        BY <1>3
      <4> QED BY <2>2, <3>1, <4>1
    <3>2. CASE r # n + 1
      <4>1. r \in 1 .. n
        BY <1>2, <3>2
      <4>2. PICK i \in 1 .. w : place[i] = r
        BY <1>2, <1>6, <1>7, <1>9, <2>5, <4>1
      <4>3. i \in 1 .. w + 1 /\ next[i] = r
        BY <1>3, <2>2, <4>2
      <4> QED BY <4>3
    <3> QED BY <3>1, <3>2
  <2>6. FramesAt(next)'
    BY <1>2, <2>1, <2>3, <2>4, <2>5 DEF FramesAt, InOrder, Served
  <2>7. cfg'.max_events > 0 => Len(out_events') <= cfg'.max_events
    BY <1>1, <1>3, <1>5, <1>9, <2>1 DEF CapReached
  <2>8. next \in [DOMAIN out_events' -> DOMAIN delivered']
    BY <1>2, <2>1, <2>2
  <2> QED BY <2>6, <2>7, <2>8 DEF FramesFollow
<1>10. /\ \/ /\ ~CapReached /\ Taken(n + 1)'
             /\ \E f : f.key = rec.key /\ out_events' = Append(out_events, f)
          \/ (CapReached \/ ~Taken(n + 1)') /\ out_events' = out_events
  BY User02Outcome
<1> QED BY <1>8, <1>9, <1>10

\* The keys of the file grow by that of the new frame.
LEMMA WrittenKeysGrow ==
  ASSUME out_events \in Seq(Frame), NEW f, out_events' = Append(out_events, f)
  PROVE  WrittenKeys' = WrittenKeys \cup {f.key}
<1>1. out_events \in Seq(Frame \cup {f})
  BY SeqMonotonic
<1>2. /\ Len(out_events) \in Nat /\ DOMAIN out_events = 1 .. Len(out_events)
      /\ DOMAIN out_events' = 1 .. Len(out_events) + 1
      /\ \A i \in 1 .. Len(out_events) : out_events'[i] = out_events[i]
      /\ out_events'[Len(out_events) + 1] = f
  BY <1>1, AppendProperties, LenProperties
<1> QED BY <1>2 DEF WrittenKeys

\* One more record behind a frame, or none.
LEMMA CarriedGrows ==
  ASSUME NEW n \in Nat, DOMAIN delivered = 1 .. n, DOMAIN delivered' = 1 .. n + 1,
         \A j \in 1 .. n : delivered'[j] = delivered[j],
         \A j \in 1 .. n : delivered'[j].key \in WrittenKeys' /\ FirstDst(j)'
                             <=> delivered[j].key \in WrittenKeys /\ FirstDst(j),
         delivered'[n + 1].key \in WrittenKeys' /\ FirstDst(n + 1)'
  PROVE  CarriedByWritten' = CarriedByWritten \cup delivered'[n + 1].mods
<1> DEFINE Old == {j \in 1 .. n : delivered[j].key \in WrittenKeys /\ FirstDst(j)}
           New == {j \in 1 .. n + 1 : delivered'[j].key \in WrittenKeys' /\ FirstDst(j)'}
<1>1. New = Old \cup {n + 1}
  OBVIOUS
<1>2. \A j \in Old : delivered'[j].mods = delivered[j].mods
  OBVIOUS
<1>3. CarriedByWritten = UNION {delivered[j].mods : j \in Old}
  BY DEF CarriedByWritten
<1>4. CarriedByWritten' = UNION {delivered'[j].mods : j \in New}
  BY DEF CarriedByWritten
<1> HIDE DEF Old, New
<1> QED BY <1>1, <1>2, <1>3, <1>4

LEMMA CarriedStays ==
  ASSUME NEW n \in Nat, DOMAIN delivered = 1 .. n, DOMAIN delivered' = 1 .. n + 1,
         \A j \in 1 .. n : delivered'[j] = delivered[j],
         \A j \in 1 .. n : delivered'[j].key \in WrittenKeys' /\ FirstDst(j)'
                             <=> delivered[j].key \in WrittenKeys /\ FirstDst(j),
         ~(delivered'[n + 1].key \in WrittenKeys' /\ FirstDst(n + 1)')
  PROVE  CarriedByWritten' = CarriedByWritten
<1> DEFINE Old == {j \in 1 .. n : delivered[j].key \in WrittenKeys /\ FirstDst(j)}
           New == {j \in 1 .. n + 1 : delivered'[j].key \in WrittenKeys' /\ FirstDst(j)'}
<1>1. New = Old
  OBVIOUS
<1>2. \A j \in Old : delivered'[j].mods = delivered[j].mods
  OBVIOUS
<1>3. CarriedByWritten = UNION {delivered[j].mods : j \in Old}
  BY DEF CarriedByWritten
<1>4. CarriedByWritten' = UNION {delivered'[j].mods : j \in New}
  BY DEF CarriedByWritten
<1> HIDE DEF Old, New
<1> QED BY <1>1, <1>2, <1>3, <1>4

\* The census grows as the records behind the frames do.
LEMMA User02Census ==
  ASSUME IInv, ProcessedSoFar, jobs > 0, User02Step,
         ~g_callback_failed, ~g_callback_failed', NEW n, n = Len(delivered)
  PROVE  \E more : /\ g_modules' = g_modules \cup more
                   /\ CarriedByWritten' = CarriedByWritten \cup more
<1>1. User02 /\ cfg' = cfg /\ rec \in Record /\ out_events \in Seq(Frame)
  BY User02Common, User02Input DEF User02, IInv, TypeOK, OutputType
<1>2. /\ n \in Nat /\ DOMAIN delivered = 1 .. n /\ DOMAIN delivered' = 1 .. n + 1
      /\ \A i \in 1 .. n : delivered'[i] = delivered[i] /\ (FirstDst(i)' <=> FirstDst(i))
      /\ delivered'[n + 1] = rec
  BY <1>1, DeliveredGrows
<1>3. CASE (~CapReached /\ FirstDst(n + 1)' /\ rec.key \notin g_processed)
           /\ (\E f : f.key = rec.key /\ out_events' = Append(out_events, f))
           /\ g_modules' = g_modules \cup rec.mods
  <2>1. WrittenKeys' = WrittenKeys \cup {rec.key}
    BY <1>1, <1>3, WrittenKeysGrow
  <2>2. \A j \in 1 .. n : delivered[j].dst => delivered[j].key # rec.key
    BY <1>2, <1>3 DEF ProcessedSoFar
  <2>3. \A j \in 1 .. n : delivered'[j].key \in WrittenKeys' /\ FirstDst(j)'
                            <=> delivered[j].key \in WrittenKeys /\ FirstDst(j)
    BY <1>2, <2>1, <2>2 DEF FirstDst
  <2>4. delivered'[n + 1].key \in WrittenKeys' /\ FirstDst(n + 1)'
    BY <1>2, <1>3, <2>1
  <2>5. CarriedByWritten' = CarriedByWritten \cup rec.mods
    BY <1>2, <2>3, <2>4, CarriedGrows
  <2> QED BY <1>3, <2>5
<1>4. CASE UNCHANGED <<out_events, g_modules>>
  <2>1. WrittenKeys' = WrittenKeys
    BY <1>4 DEF WrittenKeys
  <2>2. \A j \in 1 .. n : delivered'[j].key \in WrittenKeys' /\ FirstDst(j)'
                            <=> delivered[j].key \in WrittenKeys /\ FirstDst(j)
    BY <1>2, <2>1
  <2>3. ~(delivered'[n + 1].key \in WrittenKeys' /\ FirstDst(n + 1)')
    <3> SUFFICES ASSUME rec.key \in WrittenKeys PROVE ~FirstDst(n + 1)'
      BY <1>2, <2>1
    <3>1. PICK i \in 1 .. n : delivered[i].dst /\ delivered[i].key = rec.key
      BY <1>2, WrittenWereDelivered
    <3>2. i \in 1 .. (n + 1) - 1 /\ delivered'[i].dst /\ delivered'[i].key = delivered'[n + 1].key
      BY <1>2, <3>1
    <3> QED BY <3>2 DEF FirstDst
  <2>4. CarriedByWritten' = CarriedByWritten
    BY <1>2, <2>2, <2>3, CarriedStays
  <2>5. g_modules' = g_modules \cup {} /\ CarriedByWritten' = CarriedByWritten \cup {}
    BY <1>4, <2>4
  <2> QED BY <2>5
<1>5. Taken(n + 1)' => FirstDst(n + 1)'
  BY DEF Taken
<1> QED BY <1>3, <1>4, <1>5, User02Outcome

LEMMA EmptyDomain == DOMAIN <<>> = {} /\ Len(<<>>) = 0
OBVIOUS

LEMMA HistoryInit == Init => History
<1> SUFFICES ASSUME Init PROVE History
  OBVIOUS
<1>1. jobs = 0 /\ exit # 0 /\ out_meta = None /\ pc = "idle" /\ g_modules = {}
  BY HarnessAssumption DEF Init
<1>2. CarriedByWritten = {}
  BY EmptyDomain DEF Init, CarriedByWritten
<1> QED BY <1>1, <1>2 DEF History, ProcessedSoFar, FramesFollow, CensusSoFar

\* A new job has delivered and written nothing.
LEMMA ResetHistory ==
  ASSUME IInv, History, NEW c \in Configs, Run(c) \/ RunRefused(c)
  PROVE  History'
<1>1. Reset(c) /\ pc = "idle" /\ exit' # 0 /\ jobs \in Nat /\ jobs' = jobs + 1 /\ jobs' > 0
  BY HarnessAssumption DEF Run, RunRefused, Reset, IInv, TypeOK, JobType
<1>2. /\ delivered' = <<>> /\ out_events' = <<>> /\ g_n_seen' = 0 /\ out_meta' = None
      /\ g_processed' = {} /\ g_modules' = g_modules
  BY <1>1 DEF Reset, registry
<1>3. Len(delivered') = 0 /\ Len(out_events') = 0
      /\ DOMAIN delivered' = {} /\ DOMAIN out_events' = {}
  BY <1>2, EmptyDomain
<1>4. ProcessedSoFar'
  BY <1>2, <1>3 DEF ProcessedSoFar
<1>5. FramesFollow'
  <2>1. c.max_events \in Int /\ cfg' = c
    BY <1>1, HarnessAssumption DEF Reset
  <2>2. PICK place : place \in [{} -> {}]
    <3>1. [i \in {} |-> i] \in [{} -> {}]
      OBVIOUS
    <3> QED BY <3>1
  <2>3. place \in [DOMAIN out_events' -> DOMAIN delivered'] /\ FramesAt(place)'
    BY <1>3, <2>2 DEF FramesAt, InOrder, Served
  <2>4. cfg'.max_events > 0 => Len(out_events') <= cfg'.max_events
    BY <1>3, <2>1
  <2> QED BY <2>3, <2>4 DEF FramesFollow
<1>6. CensusSoFar'
  <2>1. jobs' = 1 => g_modules = {}
    BY <1>1 DEF History, CensusSoFar
  <2>2. CarriedByWritten' = {}
    BY <1>3 DEF CarriedByWritten
  <2> QED BY <1>1, <1>2, <2>1, <2>2 DEF CensusSoFar
<1> QED BY <1>4, <1>5, <1>6 DEF History

LEMMA User02History ==
  ASSUME IInv, History, User02Step
  PROVE  History'
<1>1. User02 /\ pc = "record" /\ pc' = "loop" /\ UNCHANGED <<jobs, out_meta, exit>>
  BY User02Common DEF User02
<1>2. jobs # 0 /\ jobs > 0 /\ out_meta = None /\ exit = None
  BY <1>1 DEF History, CensusSoFar, IInv, JobSetUp, TypeOK, JobType, Asleep
<1>3. g_callback_failed => g_callback_failed'
  BY DEF User02Step, AfterFailure, AfterCap, NotAnEvent, Redelivered, SkipSetup, SkipUnmatched,
         WriteEvent, EventThrows, Dropped, failure, Failure
<1>4. exit' # 0 /\ out_meta' = None
  BY <1>1, <1>2, HarnessAssumption
<1>5. CASE g_callback_failed'
  BY <1>1, <1>2, <1>4, <1>5 DEF History, ProcessedSoFar, FramesFollow, CensusSoFar
<1>6. CASE ~g_callback_failed'
  <2>1. ~g_callback_failed
    BY <1>3, <1>6
  <2>2. ProcessedSoFar'
    BY <1>2, <1>6, <2>1, User02Processed DEF History
  <2>3. FramesFollow'
    BY <1>2, <1>6, <2>1, User02FramesFollow DEF History
  <2>4. PICK more : /\ g_modules' = g_modules \cup more
                    /\ CarriedByWritten' = CarriedByWritten \cup more
    BY <1>2, <1>6, <2>1, User02Census DEF History
  <2>5. /\ CarriedByWritten' \subseteq g_modules'
        /\ jobs' = 1 => g_modules' = CarriedByWritten'
    BY <1>1, <1>2, <2>1, <2>4 DEF History, CensusSoFar
  <2> QED BY <1>1, <1>2, <1>4, <2>2, <2>3, <2>5 DEF History, CensusSoFar
<1> QED BY <1>5, <1>6

LEMMA QuietSteps ==
  ASSUME IInv, History, [Next]_vars,
         \A c \in Configs : ~Run(c) /\ ~RunRefused(c), ~User02Step
  PROVE  Quiet
<1> USE DEF Quiet, vars, counters, failure, registry, output
<1>1. CASE User00NoOutput \/ Kill
  BY <1>1 DEF User00NoOutput, Kill
<1>2. CASE User00 \/ User00Throws
  BY <1>2 DEF User00, User00Throws, Failure
<1>3. CASE User01Stop \/ EndOfInput \/ PhdstGivesUp
  BY <1>3 DEF User01Stop, EndOfInput, PhdstGivesUp
<1>4. ASSUME NEW r \in Tape, User01(r) \/ Unasked(r) PROVE Quiet
  BY <1>4 DEF User01, Unasked, Deliver
<1>5. ASSUME NEW failing, User99(failing) PROVE Quiet
  BY <1>5 DEF User99, Failure
<1>6. ASSUME NEW throws \in BOOLEAN, Return(throws) PROVE Quiet
  BY <1>6 DEF Return, Failure
<1>7. CASE UNCHANGED vars
  BY <1>7
<1> QED
  BY <1>1, <1>2, <1>3, <1>4, <1>5, <1>6, <1>7 DEF Next, User99Step, ReturnStep

\* Between two jobs nothing moves; the metadata is written last, and exit code 0
\* is given last.
LEMMA QuietControl ==
  ASSUME IInv, History, [Next]_vars, Quiet,
         \A c \in Configs : ~Run(c) /\ ~RunRefused(c), ~User02Step
  PROVE  /\ jobs' = 0 => pc' = "idle" /\ g_modules' = {}
         /\ out_meta' # None => pc' \in Asleep \cup {"return"} /\ out_meta'.modules = g_modules'
         /\ exit' = 0 => ~g_callback_failed'
<1>1. UNCHANGED <<jobs, g_modules>>
  BY DEF Quiet
<1>2. /\ jobs = 0 => pc = "idle" /\ g_modules = {}
      /\ out_meta # None => pc \in Asleep \cup {"return"} /\ out_meta.modules = g_modules
      /\ exit = 0 => ~g_callback_failed
  BY DEF History, CensusSoFar
<1>3. pc \in Control /\ (pc # "idle" => exit # 0)
  BY HarnessAssumption DEF IInv, TypeOK, JobType, JobSetUp, Asleep
<1>4. CASE User00NoOutput \/ User00 \/ User00Throws \/ User01Stop \/ EndOfInput \/ PhdstGivesUp
  <2>1. /\ pc \in {"start", "loop"} /\ pc' # "idle" /\ UNCHANGED out_meta
        /\ exit' \in {exit, 2}
    BY <1>4 DEF User00NoOutput, User00, User00Throws, User01Stop, EndOfInput, PhdstGivesUp, output
  <2>2. out_meta = None /\ exit' # 0 /\ jobs # 0
    BY <1>2, <1>3, <2>1 DEF Asleep
  <2> QED BY <1>1, <2>1, <2>2
<1>5. ASSUME NEW r \in Tape, User01(r) \/ Unasked(r)
      PROVE  pc = "loop" /\ UNCHANGED <<out_meta, exit>>
  BY <1>5 DEF User01, Unasked, Deliver, output
<1>6. CASE \E r \in Tape : User01(r) \/ Unasked(r)
  BY <1>1, <1>2, <1>3, <1>5, <1>6 DEF Asleep
<1>7. ASSUME NEW failing, User99(failing)
      PROVE  /\ pc = "end" /\ pc' = "return" /\ UNCHANGED exit
             /\ out_meta' = out_meta \/ out_meta'.modules = g_modules
  BY <1>7 DEF User99
<1>8. CASE User99Step
  BY <1>1, <1>2, <1>3, <1>7, <1>8 DEF User99Step, Asleep
<1>9. ASSUME NEW throws \in BOOLEAN, Return(throws)
      PROVE  /\ pc = "return" /\ pc' = "idle" /\ UNCHANGED out_meta
             /\ exit' = 0 => ~g_callback_failed'
  <2>1. pc = "return" /\ pc' = "idle" /\ out_meta' = out_meta
    BY <1>9 DEF Return
  <2>2. exit' = IF g_callback_failed' THEN 3 ELSE IF g_n_written <= 0 THEN 2 ELSE 0
    BY <1>9 DEF Return, ExitCode
  <2>3. g_callback_failed' => exit' = 3
    BY <2>2
  <2> QED BY <2>1, <2>3
<1>10. CASE ReturnStep
  BY <1>1, <1>2, <1>9, <1>10 DEF ReturnStep, Asleep
<1>11. CASE Kill
  <2>1. pc # "idle" /\ pc' = "dead" /\ UNCHANGED <<out_meta, exit>>
    BY <1>11 DEF Kill, output
  <2> QED BY <1>1, <1>2, <1>3, <2>1 DEF Asleep
<1>12. CASE UNCHANGED vars
  BY <1>1, <1>2, <1>12 DEF vars, output, failure
<1> QED BY <1>4, <1>6, <1>8, <1>10, <1>11, <1>12 DEF Next

LEMMA HistoryNext == IInv /\ History /\ [Next]_vars => History'
<1> SUFFICES ASSUME IInv, History, [Next]_vars PROVE History'
  OBVIOUS
<1>1. CASE \E c \in Configs : Run(c) \/ RunRefused(c)
  BY <1>1, ResetHistory
<1>2. CASE User02Step
  BY <1>2, User02History
<1>3. CASE (\A c \in Configs : ~Run(c) /\ ~RunRefused(c)) /\ ~User02Step
  <2>1. Quiet
    BY <1>3, QuietSteps
  <2>2. /\ ProcessedSoFar' /\ FramesFollow'
        /\ ~g_callback_failed' =>
             /\ CarriedByWritten' \subseteq g_modules'
             /\ jobs' = 1 => g_modules' = CarriedByWritten'
    BY <2>1, QuietHistory
  <2>3. /\ jobs' = 0 => pc' = "idle" /\ g_modules' = {}
        /\ out_meta' # None => pc' \in Asleep \cup {"return"} /\ out_meta'.modules = g_modules'
        /\ exit' = 0 => ~g_callback_failed'
    BY <1>3, <2>1, QuietControl
  <2> QED BY <2>2, <2>3 DEF History, CensusSoFar
<1> QED BY <1>1, <1>2, <1>3

\* At any moment of a job the counters and the sets of the harness tell what the
\* tape delivered so far.
THEOREM HistoryHolds == Spec => []History
BY HistoryInit, HistoryNext, Invariance, PTL DEF Spec

\* A wanted record is taken: the first of all has a PV chain.
LEMMA WantedIsTaken ==
  ASSUME NEW r \in DOMAIN delivered, Wanted(r)
  PROVE  Taken(r)
<1>1. r = 1 => ~\E j \in 1 .. r - 1 : delivered[j].dst
  OBVIOUS
<1> QED BY <1>1 DEF Wanted, IsPhysics, Taken

\* No unwanted record is: the set-up record has no PV chain.
LEMMA UnwantedIsNotTaken ==
  ASSUME TypeOK, NEW i \in DOMAIN delivered, Taken(i)
  PROVE  ~Unwanted(i)
<1>1. delivered[i] \in Record
  BY DEF TypeOK, JobType
<1>2. delivered[i].key \in SetupKeys => ~delivered[i].pv
  BY <1>1 DEF Record
<1> QED BY <1>2 DEF Taken, FirstDst, Unwanted, IsPhysics

(***************************************************************************)
(* user02: as long as no callback has failed, every physics event that a   *)
(* PV chain or an earlier DST record tells from the set-up record has its  *)
(* frame, up to the cap, in the order of delivery; no second record of an  *)
(* event, none pass 1 did not have and no set-up record that comes first   *)
(* has one; exit code 0 (513-529) is for such a file.                      *)
(***************************************************************************)
THEOREM NothingIsLost == Spec => []NothingLost
<1>1. ASSUME IInv, History, jobs > 0, ~g_callback_failed PROVE NothingLost
  <2>1. cfg.max_events > 0 => Len(out_events) <= cfg.max_events
    BY <1>1 DEF History, FramesFollow
  <2>2. PICK place \in [DOMAIN out_events -> DOMAIN delivered] : FramesAt(place)
    BY <1>1 DEF History, FramesFollow
  <2>3. \A r \in DOMAIN delivered : Wanted(r) => Served(place, r)
    BY <2>2, WantedIsTaken DEF FramesAt
  <2>4. \A i \in DOMAIN out_events : ~Unwanted(place[i])
    BY <1>1, <2>2, UnwantedIsNotTaken DEF FramesAt, IInv
  <2> QED BY <2>1, <2>2, <2>3, <2>4 DEF FramesAt, NothingLost
<1>2. IInv /\ History => NothingLost
  BY <1>1 DEF NothingLost
<1> QED BY <1>2, Invariance, HistoryHolds, PTL

(***************************************************************************)
(* user99 337-341: the metadata of a product lists what the events of the  *)
(* file carried, and in the first job of a process nothing else.           *)
(***************************************************************************)
THEOREM CensusIsRight == Spec => []CensusCoversWritten
<1>1. History => CensusCoversWritten
  BY DEF History, CensusSoFar, CensusCoversWritten
<1> QED BY <1>1, HistoryHolds, PTL
=============================================================================
