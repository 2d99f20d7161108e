-------------------------- MODULE RouteStoreProofs --------------------------
(***************************************************************************)
(* Theorems about RouteStore, for every value of its constants: journals of *)
(* any length, any number of routes, attempts and processes, each with      *)
(* either durability.                                                       *)
(***************************************************************************)
EXTENDS RouteStore, FiniteSetTheorems, WellFoundedInduction, SequenceTheorems, TLAPS

-----------------------------------------------------------------------------
(* The invariant.                                                            *)

\* A stored state is sound: no record is newer than mutation n, and the route of
\* an attempt exists.
Sound(state, n) ==
  /\ \A r \in Routes : state.routes[r] # None => state.routes[r].stamp <= n
  /\ \A a \in Attempts : state.attempts[a] # None =>
       state.routes[state.attempts[a].route] # None

\* The tables of an open runtime are what its files stand for.
OpenInStep ==
  status = "open" => /\ memory = Loaded
                     /\ acknowledged = Loaded
                     /\ Readable = DOMAIN journal

\* A snapshot renamed into place is sound and covers what the files, with the
\* journal that is still there, stand for.
SavingInStep ==
  status \in {"saving", "opening"} =>
    /\ saving # None
    /\ snapshot = saving
    /\ Sound(saving, stamp)
    /\ Covers(saving, Loaded)

StoreInv ==
  /\ Sound(Loaded, stamp)
  /\ OpenInStep
  /\ SavingInStep
  /\ Covers(Loaded, acknowledged)

-----------------------------------------------------------------------------
(* Greatest elements.                                                        *)

(* A set of naturals has a least element ...                                 *)
LEMMA LeastNatural ==
  ASSUME NEW T \in SUBSET Nat, T # {}
  PROVE  \E m \in T : \A k \in T : m <= k
<1>1. IsWellFoundedOn(OpToRel(<, Nat), Nat)
  BY NatLessThanWellFounded
<1>2. PICK m \in T : \A k \in T : ~(<<k, m>> \in OpToRel(<, Nat))
  BY <1>1, WFMin
<1>3. \A k \in Nat : k < m => <<k, m>> \in OpToRel(<, Nat)
  BY DEF OpToRel
<1>4. \A k \in T : ~(k < m)
  BY <1>2, <1>3, Zenon
<1> QED BY <1>4

(* ... and, when it is bounded, a greatest one.                              *)
LEMMA GreatestNatural ==
  ASSUME NEW S \in SUBSET Nat, NEW n \in Nat, S # {}, \A i \in S : i <= n
  PROVE  \E m \in S : \A i \in S : m >= i
<1> DEFINE T == {k \in Nat : \A i \in S : i <= k}
<1>1. T \in SUBSET Nat /\ T # {}
  OBVIOUS
<1>2. PICK m \in T : \A k \in T : m <= k
  BY <1>1, LeastNatural
<1>3. m \in S
  <2> SUFFICES ASSUME m \notin S PROVE FALSE
    OBVIOUS
  <2>1. \A j \in S : j < m
    BY <1>2
  <2>2. m - 1 \in Nat
    <3>1. PICK i \in S : TRUE
      OBVIOUS
    <3> QED BY <1>2, <2>1, <3>1
  <2>3. m - 1 \in T
    BY <2>1, <2>2
  <2> QED BY <1>2, <2>3
<1> QED BY <1>2, <1>3

-----------------------------------------------------------------------------
(* Load.                                                                     *)

FilesOK == snapshot \in States \cup {None} /\ journal \in Seq(Frames)

\* The frames Load reads are a prefix of the journal, and the truncated journal
\* consists of them.
ReadsPrefix(n) ==
  /\ Readable = 1..n
  /\ \A i \in 1..n : journal[i] \in Frames /\ journal[i].whole
  /\ n < Len(journal) => ~journal[n + 1].whole
  /\ Truncated \in Seq(Frames) /\ Len(Truncated) = n
  /\ \A i \in 1..n : Truncated[i] = journal[i]

LEMMA ReadablePrefix == FilesOK => \E n \in 0..Len(journal) : ReadsPrefix(n)
<1> SUFFICES ASSUME FilesOK PROVE \E n \in 0..Len(journal) : ReadsPrefix(n)
  OBVIOUS
<1>1. /\ journal \in Seq(Frames) /\ Len(journal) \in Nat
      /\ DOMAIN journal = 1..Len(journal)
      /\ \A i \in 1..Len(journal) : journal[i] \in Frames
  BY DEF FilesOK
<1>2. PICK n \in 0..Len(journal) : Readable = 1..n
  <2>1. CASE Readable = {}
    BY <1>1, <2>1
  <2>2. CASE Readable # {}
    <3>1. Readable \in SUBSET Nat /\ \A i \in Readable : i <= Len(journal)
      BY <1>1 DEF Readable
    <3>2. PICK n \in Readable : \A i \in Readable : n >= i
      BY <1>1, <2>2, <3>1, GreatestNatural
    <3>3. \A i \in 1..n : i \in Readable
      BY <1>1, <3>1, <3>2 DEF Readable
    <3>4. \A i \in Readable : i \in 1..n
      BY <1>1, <3>1, <3>2 DEF Readable
    <3>5. n \in 0..Len(journal)
      BY <1>1, <3>1
    <3>6. Readable = 1..n
      BY <3>3, <3>4
    <3> QED BY <3>5, <3>6
  <2> QED BY <2>1, <2>2
<1>3. \A i \in 1..n : journal[i].whole
  BY <1>1, <1>2 DEF Readable
<1>4. n < Len(journal) => ~journal[n + 1].whole
  <2> SUFFICES ASSUME n < Len(journal), journal[n + 1].whole PROVE FALSE
    OBVIOUS
  <2>1. n + 1 \in DOMAIN journal /\ \A k \in 1..(n + 1) : journal[k].whole
    BY <1>1, <1>3
  <2>2. n + 1 \in Readable
    BY <2>1 DEF Readable
  <2> QED BY <1>2, <2>2
<1>5. Cardinality(Readable) = n
  BY <1>2, FS_Interval
<1>6. /\ Truncated \in Seq(Frames) /\ Len(Truncated) = n
      /\ \A i \in 1..n : Truncated[i] = journal[i]
  BY <1>1, <1>5, SubSeqProperties DEF Truncated
<1> QED BY <1>1, <1>2, <1>3, <1>4, <1>6 DEF ReadsPrefix

(* The snapshot that is loaded first.                                        *)
LEMMA BaseType == FilesOK => Base \in States
<1>1. EmptyState \in States
  BY StoreAssumption DEF EmptyState, States, NoRoutes, NoAttempts
<1> QED BY <1>1 DEF FilesOK, Base

LEMMA StepTypes ==
  FilesOK =>
    /\ \A i \in {0} \cup Readable, r \in Routes : RouteAt(i, r) \in Records \cup {None}
    /\ \A i \in {0} \cup Readable, a \in Attempts :
         AttemptAt(i, a) \in AttemptRecords \cup {None}
    /\ Readable \subseteq Nat \ {0}
<1> SUFFICES ASSUME FilesOK
             PROVE  /\ \A i \in {0} \cup Readable, r \in Routes :
                         RouteAt(i, r) \in Records \cup {None}
                    /\ \A i \in {0} \cup Readable, a \in Attempts :
                         AttemptAt(i, a) \in AttemptRecords \cup {None}
                    /\ Readable \subseteq Nat \ {0}
  OBVIOUS
<1>1. \A i \in Readable : journal[i] \in Frames /\ i \in Nat \ {0}
  BY ReadablePrefix DEF ReadsPrefix
<1>2. /\ Base.routes \in [Routes -> Records \cup {None}]
      /\ Base.attempts \in [Attempts -> AttemptRecords \cup {None}]
  BY BaseType DEF States
<1>3. \A i \in Readable :
        /\ journal[i].routes \in [Routes -> Records \cup {None}]
        /\ journal[i].attempts \in [Attempts -> AttemptRecords \cup {None}]
  BY <1>1 DEF Frames
<1> QED BY <1>1, <1>2, <1>3 DEF RouteAt, AttemptAt

\* Step i of the loading decides what is loaded for route r, for attempt a.
RoutePrevails(i, r) ==
  /\ i \in {0} \cup Readable /\ RouteAt(i, r) # None
  /\ \A j \in {0} \cup Readable : RouteAt(j, r) # None => Beats(i, j, r)

AttemptPrevails(i, a) ==
  /\ i \in {0} \cup Readable /\ AttemptAt(i, a) # None
  /\ \A j \in {0} \cup Readable : AttemptAt(j, a) # None => i >= j

\* What is loaded for a route is the latest record of the highest generation.
LoadsRoute(r) ==
  /\ (\A i \in {0} \cup Readable : RouteAt(i, r) = None) => LoadedRoute(r) = None
  /\ (\E i \in {0} \cup Readable : RouteAt(i, r) # None)
       => \E i \in {0} \cup Readable : RoutePrevails(i, r)
  /\ \A i \in {0} \cup Readable : RoutePrevails(i, r) => LoadedRoute(r) = RouteAt(i, r)

LEMMA RouteLoaded == FilesOK => \A r \in Routes : LoadsRoute(r)
<1> SUFFICES ASSUME FilesOK, NEW r \in Routes PROVE LoadsRoute(r)
  OBVIOUS
<1> DEFINE steps == {i \in {0} \cup Readable : RouteAt(i, r) # None}
           gen(i) == RouteAt(i, r).generation
<1>0. LoadedRoute(r) = IF steps = {} THEN None
                       ELSE RouteAt(CHOOSE i \in steps : \A j \in steps : Beats(i, j, r), r)
  BY DEF LoadedRoute
<1>1. PICK n \in Nat : Readable = 1..n
  BY ReadablePrefix DEF FilesOK, ReadsPrefix
<1>2. /\ steps \in SUBSET Nat
      /\ \A i \in steps : gen(i) \in 1..MaxGeneration /\ i <= n
  BY <1>1, StepTypes DEF Records
<1>3. \A i, j : Beats(i, j, r) <=> \/ gen(i) > gen(j)
                                   \/ gen(i) = gen(j) /\ i >= j
  BY DEF Beats
<1>4. \A i : RoutePrevails(i, r) <=> i \in steps /\ \A j \in steps : Beats(i, j, r)
  BY DEF RoutePrevails
<1> HIDE DEF steps, gen
<1>5. ASSUME steps # {}
      PROVE  \E i \in steps : \A j \in steps : Beats(i, j, r)
  <2> DEFINE gens == {gen(i) : i \in steps}
  <2>1. PICK g \in gens : \A h \in gens : g >= h
    <3>1. gens # {}
      BY <1>5
    <3>2. ASSUME NEW h \in gens PROVE h \in Nat /\ h <= MaxGeneration
      <4>1. PICK i \in steps : h = gen(i)
        OBVIOUS
      <4> QED BY <1>2, <4>1, StoreAssumption
    <3> HIDE DEF gens
    <3> QED BY <3>1, <3>2, StoreAssumption, GreatestNatural
  <2> DEFINE top == {i \in steps : gen(i) = g}
  <2>2. PICK i \in top : \A j \in top : i >= j
    <3>1. top \in SUBSET Nat /\ top # {} /\ \A j \in top : j <= n
      BY <1>2, <2>1
    <3> QED BY <3>1, <1>1, GreatestNatural
  <2>3. ASSUME NEW j \in steps PROVE Beats(i, j, r)
    <3>1. gen(i) = g /\ gen(j) \in gens /\ g >= gen(j) /\ g \in Nat /\ gen(j) \in Nat
      BY <1>2, <2>1, <2>2, <2>3
    <3>2. CASE gen(j) = g
      BY <1>3, <2>2, <2>3, <3>1, <3>2
    <3>3. CASE gen(j) # g
      BY <1>3, <3>1, <3>3
    <3> QED BY <3>2, <3>3
  <2> QED BY <2>2, <2>3
<1>6. ASSUME NEW i \in steps, \A j \in steps : Beats(i, j, r),
             NEW k \in steps, \A j \in steps : Beats(k, j, r)
      PROVE  i = k
  BY <1>2, <1>3, <1>6
<1>7. steps # {} => LET c == CHOOSE i \in steps : \A j \in steps : Beats(i, j, r)
                    IN c \in steps /\ \A j \in steps : Beats(c, j, r)
  BY <1>5
<1>8. \A i \in {0} \cup Readable : i \in steps <=> RouteAt(i, r) # None
  BY DEF steps
<1>9. \A i : i \in steps => i \in {0} \cup Readable
  BY DEF steps
<1> QED
  <2>1. (\A i \in {0} \cup Readable : RouteAt(i, r) = None) => LoadedRoute(r) = None
    <3>1. ASSUME \A i \in {0} \cup Readable : RouteAt(i, r) = None PROVE steps = {}
      BY <3>1 DEF steps
    <3> QED BY <1>0, <3>1
  <2>2. (\E i \in {0} \cup Readable : RouteAt(i, r) # None)
           => \E i \in {0} \cup Readable : RoutePrevails(i, r)
    BY <1>4, <1>5, <1>8, <1>9
  <2>3. ASSUME NEW i \in {0} \cup Readable, RoutePrevails(i, r)
        PROVE  LoadedRoute(r) = RouteAt(i, r)
    BY <1>0, <1>4, <1>6, <1>7, <2>3
  <2> QED BY <2>1, <2>2, <2>3 DEF LoadsRoute

\* What is loaded for an attempt is its latest record.
LoadsAttempt(a) ==
  /\ (\A i \in {0} \cup Readable : AttemptAt(i, a) = None) => LoadedAttempt(a) = None
  /\ (\E i \in {0} \cup Readable : AttemptAt(i, a) # None)
       => \E i \in {0} \cup Readable : AttemptPrevails(i, a)
  /\ \A i \in {0} \cup Readable :
       AttemptPrevails(i, a) => LoadedAttempt(a) = AttemptAt(i, a)

LEMMA AttemptLoaded == FilesOK => \A a \in Attempts : LoadsAttempt(a)
<1> SUFFICES ASSUME FilesOK, NEW a \in Attempts PROVE LoadsAttempt(a)
  OBVIOUS
<1> DEFINE steps == {i \in {0} \cup Readable : AttemptAt(i, a) # None}
<1>0. LoadedAttempt(a) = IF steps = {} THEN None
                         ELSE AttemptAt(CHOOSE i \in steps : \A j \in steps : i >= j, a)
  BY DEF LoadedAttempt
<1>1. PICK n \in Nat : Readable = 1..n
  BY ReadablePrefix DEF FilesOK, ReadsPrefix
<1>2. steps \in SUBSET Nat /\ \A i \in steps : i <= n
  BY <1>1
<1>4. \A i : AttemptPrevails(i, a) <=> i \in steps /\ \A j \in steps : i >= j
  BY DEF AttemptPrevails
<1>7. (\A i \in {0} \cup Readable : AttemptAt(i, a) = None) => steps = {}
  OBVIOUS
<1>8. \A i \in {0} \cup Readable : i \in steps <=> AttemptAt(i, a) # None
  OBVIOUS
<1>9. \A i : i \in steps => i \in {0} \cup Readable
  OBVIOUS
<1> HIDE DEF steps
<1>5. steps # {} => \E i \in steps : \A j \in steps : i >= j
  BY <1>1, <1>2, GreatestNatural
<1>6. ASSUME NEW i \in steps, \A j \in steps : i >= j,
             NEW k \in steps, \A j \in steps : k >= j
      PROVE  i = k
  BY <1>2, <1>6
<1>10. steps # {} => LET c == CHOOSE i \in steps : \A j \in steps : i >= j
                     IN c \in steps /\ \A j \in steps : c >= j
  BY <1>5
<1> QED
  <2>1. (\A i \in {0} \cup Readable : AttemptAt(i, a) = None) => LoadedAttempt(a) = None
    BY <1>0, <1>7
  <2>2. (\E i \in {0} \cup Readable : AttemptAt(i, a) # None)
           => \E i \in {0} \cup Readable : AttemptPrevails(i, a)
    BY <1>4, <1>5, <1>8, <1>9
  <2>3. ASSUME NEW i \in {0} \cup Readable, AttemptPrevails(i, a)
        PROVE  LoadedAttempt(a) = AttemptAt(i, a)
    BY <1>0, <1>4, <1>6, <1>10, <2>3
  <2> QED BY <2>1, <2>2, <2>3 DEF LoadsAttempt

Epochs == {Base.epoch} \cup {journal[i].epoch : i \in Readable}

\* The epoch that is loaded is the highest one.
LoadsEpoch ==
  /\ Epochs \subseteq 1..MaxEpoch
  /\ LoadedEpoch \in Epochs
  /\ \A e \in Epochs : LoadedEpoch >= e

LEMMA EpochLoaded == FilesOK => LoadsEpoch
<1> SUFFICES ASSUME FilesOK PROVE LoadsEpoch
  OBVIOUS
<1>1. Epochs \subseteq 1..MaxEpoch /\ Epochs # {}
  <2>1. Base.epoch \in 1..MaxEpoch
    BY BaseType DEF States
  <2>2. \A i \in Readable : journal[i].epoch \in 1..MaxEpoch
    BY ReadablePrefix DEF ReadsPrefix, Frames
  <2> QED BY <2>1, <2>2 DEF Epochs
<1>2. LoadedEpoch = CHOOSE e \in Epochs : \A f \in Epochs : e >= f
  BY DEF LoadedEpoch, Epochs
<1>3. \E e \in Epochs : \A f \in Epochs : e >= f
  <2>1. Epochs \in SUBSET Nat /\ \A e \in Epochs : e <= MaxEpoch
    BY <1>1, StoreAssumption
  <2> QED BY <1>1, <2>1, StoreAssumption, GreatestNatural
<1> QED BY <1>1, <1>2, <1>3 DEF LoadsEpoch

LoadedFields ==
  /\ Loaded \in States
  /\ Loaded.epoch = LoadedEpoch
  /\ \A r \in Routes : Loaded.routes[r] = LoadedRoute(r)
  /\ \A a \in Attempts : Loaded.attempts[a] = LoadedAttempt(a)
  /\ Loaded.revocations = Base.revocations
                            \cup UNION {journal[i].revocations : i \in Readable}

LEMMA LoadedType == FilesOK => LoadedFields
<1> SUFFICES ASSUME FilesOK PROVE LoadedFields
  OBVIOUS
<1>1. LoadedEpoch \in 1..MaxEpoch
  BY EpochLoaded DEF LoadsEpoch
<1>2. \A r \in Routes : LoadedRoute(r) \in Records \cup {None}
  BY RouteLoaded, StepTypes DEF LoadsRoute
<1>3. \A a \in Attempts : LoadedAttempt(a) \in AttemptRecords \cup {None}
  BY AttemptLoaded, StepTypes DEF LoadsAttempt
<1>4. Base.revocations \cup UNION {journal[i].revocations : i \in Readable} \subseteq Routes
  <2>1. Base.revocations \subseteq Routes
    BY BaseType DEF States
  <2>2. \A i \in Readable : journal[i].revocations \subseteq Routes
    BY ReadablePrefix DEF ReadsPrefix, Frames
  <2> QED BY <2>1, <2>2
<1> QED BY <1>1, <1>2, <1>3, <1>4 DEF LoadedFields, Loaded, States

\* What Load does, step by step.
LoadFacts ==
  /\ \E n \in 0..Len(journal) : ReadsPrefix(n)
  /\ \A r \in Routes : LoadsRoute(r)
  /\ \A a \in Attempts : LoadsAttempt(a)
  /\ LoadsEpoch
  /\ LoadedFields
  /\ Base \in States
  /\ \A i \in {0} \cup Readable, r \in Routes : RouteAt(i, r) \in Records \cup {None}
  /\ \A i \in {0} \cup Readable, a \in Attempts :
       AttemptAt(i, a) \in AttemptRecords \cup {None}

LEMMA LoadFactsHold == FilesOK => LoadFacts
BY ReadablePrefix, RouteLoaded, AttemptLoaded, EpochLoaded, LoadedType, BaseType,
   StepTypes DEF LoadFacts

(* The same after a step.                                                    *)
LEMMA LoadFactsHoldNext == FilesOK' => LoadFacts'
BY LoadFactsHold, PTL

(* States are equal when their fields are.                                   *)
LEMMA StatesEqual ==
  ASSUME NEW s \in States, NEW t \in States,
         s.epoch = t.epoch, s.revocations = t.revocations,
         \A r \in Routes : s.routes[r] = t.routes[r],
         \A a \in Attempts : s.attempts[a] = t.attempts[a]
  PROVE  s = t
<1>1. s.routes = t.routes /\ s.attempts = t.attempts
  BY DEF States
<1> QED BY <1>1 DEF States

\* The next step reads the first n frames of the journal, which stay.
KeepsFrames(n) ==
  /\ n \in Nat /\ Readable = 1..n
  /\ 1..n \subseteq Readable' /\ \A i \in 1..n : journal'[i] = journal[i]

LEMMA KeptFrames ==
  ASSUME FilesOK, FilesOK', NEW n, KeepsFrames(n)
  PROVE  /\ \A i \in 1..n, r \in Routes : RouteAt(i, r)' = RouteAt(i, r)
         /\ \A i \in 1..n, a \in Attempts : AttemptAt(i, a)' = AttemptAt(i, a)
         /\ UNCHANGED snapshot =>
              /\ Base' = Base
              /\ \A r \in Routes : RouteAt(0, r)' = RouteAt(0, r)
              /\ \A a \in Attempts : AttemptAt(0, a)' = AttemptAt(0, a)
BY DEF KeepsFrames, RouteAt, AttemptAt, Base

(* A torn frame, and its truncation, leave what is loaded alone.             *)
LEMMA LoadSame ==
  ASSUME FilesOK, FilesOK', UNCHANGED snapshot, NEW n, KeepsFrames(n), Readable' = Readable
  PROVE  Loaded' = Loaded
<1>1. LoadFacts /\ LoadFacts'
  BY LoadFactsHold, LoadFactsHoldNext
<1>2. /\ \A i \in {0} \cup Readable, r \in Routes : RouteAt(i, r)' = RouteAt(i, r)
      /\ \A i \in {0} \cup Readable, a \in Attempts : AttemptAt(i, a)' = AttemptAt(i, a)
      /\ Base' = Base
  BY KeptFrames DEF KeepsFrames
<1>3. ASSUME NEW r \in Routes PROVE LoadedRoute(r)' = LoadedRoute(r)
  <2>0. LoadsRoute(r) /\ LoadsRoute(r)'
    BY <1>1 DEF LoadFacts
  <2>1. CASE \A i \in {0} \cup Readable : RouteAt(i, r) = None
    BY <1>2, <2>0, <2>1 DEF LoadsRoute
  <2>2. CASE \E i \in {0} \cup Readable : RouteAt(i, r) # None
    <3>1. PICK i \in {0} \cup Readable : RoutePrevails(i, r)
      BY <2>0, <2>2 DEF LoadsRoute
    <3>2. RoutePrevails(i, r)'
      BY <1>2, <3>1 DEF RoutePrevails, Beats
    <3> QED BY <1>2, <2>0, <3>1, <3>2 DEF LoadsRoute
  <2> QED BY <2>1, <2>2
<1>4. ASSUME NEW a \in Attempts PROVE LoadedAttempt(a)' = LoadedAttempt(a)
  <2>0. LoadsAttempt(a) /\ LoadsAttempt(a)'
    BY <1>1 DEF LoadFacts
  <2>1. CASE \A i \in {0} \cup Readable : AttemptAt(i, a) = None
    BY <1>2, <2>0, <2>1 DEF LoadsAttempt
  <2>2. CASE \E i \in {0} \cup Readable : AttemptAt(i, a) # None
    <3>1. PICK i \in {0} \cup Readable : AttemptPrevails(i, a)
      BY <2>0, <2>2 DEF LoadsAttempt
    <3>2. AttemptPrevails(i, a)'
      BY <1>2, <3>1 DEF AttemptPrevails
    <3> QED BY <1>2, <2>0, <3>1, <3>2 DEF LoadsAttempt
  <2> QED BY <2>1, <2>2
<1>5. LoadedEpoch' = LoadedEpoch
  <2>1. Epochs' = Epochs
    BY <1>2 DEF Epochs, KeepsFrames
  <2>2. LoadsEpoch /\ LoadsEpoch'
    BY <1>1 DEF LoadFacts
  <2> QED BY <2>1, <2>2, StoreAssumption DEF LoadsEpoch
<1>6. {journal[i].revocations : i \in Readable}' = {journal[i].revocations : i \in Readable}
  BY DEF KeepsFrames
<1>7. LoadedFields /\ LoadedFields'
  BY <1>1 DEF LoadFacts
<1>8. /\ Loaded'.epoch = Loaded.epoch /\ Loaded'.revocations = Loaded.revocations
      /\ \A r \in Routes : Loaded'.routes[r] = Loaded.routes[r]
      /\ \A a \in Attempts : Loaded'.attempts[a] = Loaded.attempts[a]
      /\ Loaded \in States /\ Loaded' \in States
  BY <1>2, <1>3, <1>4, <1>5, <1>6, <1>7 DEF LoadedFields
<1> QED BY <1>8, StatesEqual

(* The fields of the tables after a mutation.                                *)
LEMMA MergedFields ==
  ASSUME NEW s \in States, NEW e \in Frames
  PROVE  /\ Merged(s, e) \in States
         /\ Merged(s, e).epoch = s.epoch
         /\ \A r \in Routes : Merged(s, e).routes[r] =
              IF e.routes[r] # None THEN e.routes[r] ELSE s.routes[r]
         /\ \A a \in Attempts : Merged(s, e).attempts[a] =
              IF e.attempts[a] # None THEN e.attempts[a] ELSE s.attempts[a]
         /\ Merged(s, e).revocations = s.revocations \cup e.revocations
<1>1. /\ s.routes \in [Routes -> Records \cup {None}]
      /\ s.attempts \in [Attempts -> AttemptRecords \cup {None}]
      /\ s.revocations \subseteq Routes /\ s.epoch \in 1..MaxEpoch
  BY DEF States
<1>2. /\ e.routes \in [Routes -> Records \cup {None}]
      /\ e.attempts \in [Attempts -> AttemptRecords \cup {None}]
      /\ e.revocations \subseteq Routes
  BY DEF Frames
<1>3. /\ Over(e.routes, s.routes) \in [Routes -> Records \cup {None}]
      /\ \A r \in Routes : Over(e.routes, s.routes)[r] =
           IF e.routes[r] # None THEN e.routes[r] ELSE s.routes[r]
  BY <1>1, <1>2 DEF Over
<1>4. /\ Over(e.attempts, s.attempts) \in [Attempts -> AttemptRecords \cup {None}]
      /\ \A a \in Attempts : Over(e.attempts, s.attempts)[a] =
           IF e.attempts[a] # None THEN e.attempts[a] ELSE s.attempts[a]
  BY <1>1, <1>2 DEF Over
<1> DEFINE rs == Over(e.routes, s.routes)
           as == Over(e.attempts, s.attempts)
           rv == s.revocations \cup e.revocations
<1> HIDE DEF rs, as, rv
<1>5. Merged(s, e) = [s EXCEPT !.routes = rs, !.attempts = as, !.revocations = rv]
  BY DEF Merged, rs, as, rv
<1>6. /\ Merged(s, e).epoch = s.epoch /\ Merged(s, e).routes = rs
      /\ Merged(s, e).attempts = as /\ Merged(s, e).revocations = rv
  BY <1>5 DEF States
<1>7. Merged(s, e) \in States
  <2>1. rv \subseteq Routes
    BY <1>1, <1>2 DEF rv
  <2>2. rs \in [Routes -> Records \cup {None}] /\ as \in [Attempts -> AttemptRecords \cup {None}]
    BY <1>3, <1>4 DEF rs, as
  <2> QED BY <1>5, <2>1, <2>2 DEF States
<1> QED BY <1>3, <1>4, <1>6, <1>7 DEF rs, as, rv

(* A whole frame whose records are of no older generation than what is       *)
(* loaded: Load gives the mutated tables.                                    *)
LEMMA LoadAppend ==
  ASSUME FilesOK, FilesOK', UNCHANGED snapshot, NEW n, KeepsFrames(n),
         Readable' = 1..(n + 1), NEW e \in Frames, journal'[n + 1] = e,
         e.epoch = Loaded.epoch,
         \A r \in Routes : e.routes[r] # None =>
           \/ Loaded.routes[r] = None
           \/ e.routes[r].generation >= Loaded.routes[r].generation
  PROVE  Loaded' = Merged(Loaded, e)
<1>0. n \in Nat /\ Readable = 1..n
  BY DEF KeepsFrames
<1>1. LoadFacts /\ LoadFacts'
  BY LoadFactsHold, LoadFactsHoldNext
<1>2. /\ \A i \in {0} \cup Readable, r \in Routes : RouteAt(i, r)' = RouteAt(i, r)
      /\ \A i \in {0} \cup Readable, a \in Attempts : AttemptAt(i, a)' = AttemptAt(i, a)
      /\ Base' = Base
  BY KeptFrames DEF KeepsFrames
<1>3. /\ \A r \in Routes : RouteAt(n + 1, r)' = e.routes[r]
      /\ \A a \in Attempts : AttemptAt(n + 1, a)' = e.attempts[a]
  BY <1>0 DEF RouteAt, AttemptAt
<1>4. /\ ({0} \cup Readable)' = {0} \cup Readable \cup {n + 1}
      /\ {0} \cup Readable \subseteq Nat
      /\ \A i \in {0} \cup Readable : i < n + 1
  BY <1>0
<1>5. LoadedFields /\ LoadedFields'
  BY <1>1 DEF LoadFacts
<1>6. ASSUME NEW r \in Routes
      PROVE  LoadedRoute(r)' = IF e.routes[r] # None THEN e.routes[r] ELSE LoadedRoute(r)
  <2>0. LoadsRoute(r) /\ LoadsRoute(r)' /\ Loaded.routes[r] = LoadedRoute(r)
    BY <1>1, <1>5 DEF LoadFacts, LoadedFields
  <2>1. CASE e.routes[r] # None
    <3>1. ASSUME NEW j \in {0} \cup Readable, RouteAt(j, r) # None
          PROVE  e.routes[r].generation >= RouteAt(j, r).generation
      <4>1. PICK i \in {0} \cup Readable : RoutePrevails(i, r)
        BY <2>0, <3>1 DEF LoadsRoute
      <4>2. LoadedRoute(r) = RouteAt(i, r) /\ RouteAt(i, r) # None /\ Beats(i, j, r)
        BY <2>0, <3>1, <4>1 DEF LoadsRoute, RoutePrevails
      <4>3. e.routes[r].generation >= RouteAt(i, r).generation
        BY <2>0, <2>1, <4>2
      <4>4. RouteAt(i, r) \in Records /\ RouteAt(j, r) \in Records /\ e.routes[r] \in Records
        BY <1>1, <2>1, <3>1, <4>2 DEF LoadFacts, Frames
      <4>5. /\ RouteAt(i, r).generation \in Nat /\ RouteAt(j, r).generation \in Nat
            /\ e.routes[r].generation \in Nat
        BY <4>4, StoreAssumption DEF Records
      <4> QED BY <4>2, <4>3, <4>5 DEF Beats
    <3>2. e.routes[r].generation \in Nat
      BY <2>1, StoreAssumption DEF Frames, Records
    <3>3. ASSUME NEW j \in {0} \cup Readable, RouteAt(j, r) # None
          PROVE  RouteAt(j, r).generation \in Nat
      <4>1. RouteAt(j, r) \in Records
        BY <1>1, <3>3 DEF LoadFacts
      <4>2. \A record \in Records : record.generation \in Nat
        BY StoreAssumption DEF Records
      <4> QED BY <4>1, <4>2
    <3>4. ASSUME NEW j \in ({0} \cup Readable)', RouteAt(j, r)' # None
          PROVE  Beats(n + 1, j, r)'
      <4>1. CASE j = n + 1
        BY <1>0, <4>1 DEF Beats
      <4>2. CASE j \in {0} \cup Readable
        <5>1. RouteAt(j, r)' = RouteAt(j, r) /\ RouteAt(n + 1, r)' = e.routes[r]
          BY <1>2, <1>3, <4>2
        <5>2. n + 1 >= j
          BY <1>0, <1>4, <4>2
        <5>3. e.routes[r].generation >= RouteAt(j, r).generation
          BY <3>1, <3>4, <4>2, <5>1
        <5> QED BY <3>2, <3>3, <3>4, <4>2, <5>1, <5>2, <5>3 DEF Beats
      <4> QED BY <1>4, <3>4, <4>1, <4>2
    <3>5. RoutePrevails(n + 1, r)'
      BY <1>3, <1>4, <2>1, <3>4 DEF RoutePrevails
    <3> QED BY <1>3, <1>4, <2>0, <2>1, <3>5 DEF LoadsRoute
  <2>2. CASE e.routes[r] = None
    <3>1. CASE \A i \in {0} \cup Readable : RouteAt(i, r) = None
      BY <1>2, <1>3, <1>4, <2>0, <2>2, <3>1 DEF LoadsRoute
    <3>2. CASE \E i \in {0} \cup Readable : RouteAt(i, r) # None
      <4>1. PICK i \in {0} \cup Readable : RoutePrevails(i, r)
        BY <2>0, <3>2 DEF LoadsRoute
      <4>2. RoutePrevails(i, r)'
        BY <1>2, <1>3, <1>4, <2>2, <4>1 DEF RoutePrevails, Beats
      <4> QED BY <1>2, <1>4, <2>0, <2>2, <4>1, <4>2 DEF LoadsRoute
    <3> QED BY <3>1, <3>2
  <2> QED BY <2>1, <2>2
<1>7. ASSUME NEW a \in Attempts
      PROVE  LoadedAttempt(a)' = IF e.attempts[a] # None THEN e.attempts[a]
                                 ELSE LoadedAttempt(a)
  <2>0. LoadsAttempt(a) /\ LoadsAttempt(a)'
    BY <1>1 DEF LoadFacts
  <2>1. CASE e.attempts[a] # None
    <3>1. AttemptPrevails(n + 1, a)'
      BY <1>0, <1>3, <1>4, <2>1 DEF AttemptPrevails
    <3> QED BY <1>3, <1>4, <2>0, <2>1, <3>1 DEF LoadsAttempt
  <2>2. CASE e.attempts[a] = None
    <3>1. CASE \A i \in {0} \cup Readable : AttemptAt(i, a) = None
      BY <1>2, <1>3, <1>4, <2>0, <2>2, <3>1 DEF LoadsAttempt
    <3>2. CASE \E i \in {0} \cup Readable : AttemptAt(i, a) # None
      <4>1. PICK i \in {0} \cup Readable : AttemptPrevails(i, a)
        BY <2>0, <3>2 DEF LoadsAttempt
      <4>2. AttemptPrevails(i, a)'
        BY <1>2, <1>3, <1>4, <2>2, <4>1 DEF AttemptPrevails
      <4> QED BY <1>2, <1>4, <2>0, <2>2, <4>1, <4>2 DEF LoadsAttempt
    <3> QED BY <3>1, <3>2
  <2> QED BY <2>1, <2>2
<1>8. LoadedEpoch' = LoadedEpoch
  <2>1. {journal[i].epoch : i \in Readable}' = {journal[i].epoch : i \in Readable} \cup {e.epoch}
    BY <1>0 DEF KeepsFrames
  <2>2. LoadsEpoch /\ LoadsEpoch' /\ e.epoch = LoadedEpoch
    BY <1>1, <1>5 DEF LoadFacts, LoadedFields
  <2>3. Epochs' = Epochs
    BY <1>2, <2>1, <2>2 DEF Epochs, LoadsEpoch
  <2> QED BY <2>2, <2>3, StoreAssumption DEF LoadsEpoch
<1>9. Loaded'.revocations = Loaded.revocations \cup e.revocations
  <2>1. {journal[i].revocations : i \in Readable}'
          = {journal[i].revocations : i \in Readable} \cup {e.revocations}
    BY <1>0 DEF KeepsFrames
  <2> QED BY <1>2, <1>5, <2>1 DEF LoadedFields
<1> DEFINE m == Merged(Loaded, e)
<1>10. /\ m \in States /\ Loaded \in States /\ Loaded' \in States
       /\ Loaded'.epoch = m.epoch /\ Loaded'.revocations = m.revocations
       /\ \A r \in Routes : Loaded'.routes[r] = m.routes[r]
       /\ \A a \in Attempts : Loaded'.attempts[a] = m.attempts[a]
  BY <1>5, <1>6, <1>7, <1>8, <1>9, MergedFields DEF LoadedFields
<1> HIDE DEF m
<1> QED BY <1>10, StatesEqual DEF m

\* The journal, as far as it is read, says something of attempt a.
JournalAttempt(a) == \E i \in Readable : journal[i].attempts[a] # None

\* What is loaded after the rename of snapshot s, with the journal still there:
\* attempts in the journal are as before, and a route in the journal may be.
RenamedOver(s) ==
  /\ Loaded' \in States
  /\ Loaded'.epoch = s.epoch /\ Loaded'.revocations = s.revocations
  /\ \A r \in Routes :
       \/ Loaded'.routes[r] = s.routes[r]
       \/ /\ Loaded'.routes[r] = Loaded.routes[r]
          /\ \E i \in Readable : /\ journal[i].routes[r] = Loaded.routes[r]
                                 /\ Loaded.routes[r] # None
  /\ \A a \in Attempts :
       Loaded'.attempts[a] = IF JournalAttempt(a) THEN Loaded.attempts[a]
                             ELSE s.attempts[a]

(* A snapshot that holds everything that is loaded, in the same or a newer   *)
(* generation, is renamed into place.                                        *)
LEMMA LoadRename ==
  ASSUME FilesOK, FilesOK', NEW n, KeepsFrames(n), Readable' = Readable,
         NEW s \in States, snapshot' = s,
         s.epoch >= Loaded.epoch, Loaded.revocations \subseteq s.revocations,
         \A r \in Routes : Loaded.routes[r] # None =>
           s.routes[r] # None /\ s.routes[r].generation >= Loaded.routes[r].generation
  PROVE  RenamedOver(s)
<1>0. n \in Nat /\ Readable = 1..n
  BY DEF KeepsFrames
<1>1. LoadFacts /\ LoadFacts'
  BY LoadFactsHold, LoadFactsHoldNext
<1>2. /\ \A i \in Readable, r \in Routes : RouteAt(i, r)' = RouteAt(i, r)
      /\ \A i \in Readable, a \in Attempts : AttemptAt(i, a)' = AttemptAt(i, a)
      /\ \A i \in Readable, r \in Routes : RouteAt(i, r) = journal[i].routes[r]
      /\ \A i \in Readable, a \in Attempts : AttemptAt(i, a) = journal[i].attempts[a]
  BY <1>0, KeptFrames DEF RouteAt, AttemptAt
<1>3. /\ Base' = s
      /\ \A r \in Routes : RouteAt(0, r)' = s.routes[r]
      /\ \A a \in Attempts : AttemptAt(0, a)' = s.attempts[a]
  BY StateAssumption DEF Base, RouteAt, AttemptAt
<1>4. LoadedFields /\ LoadedFields'
  BY <1>1 DEF LoadFacts
<1>5. ASSUME NEW r \in Routes
      PROVE  \/ LoadedRoute(r)' = s.routes[r]
             \/ /\ LoadedRoute(r)' = LoadedRoute(r)
                /\ \E i \in Readable : /\ journal[i].routes[r] = LoadedRoute(r)
                                       /\ LoadedRoute(r) # None
  <2>0. LoadsRoute(r) /\ LoadsRoute(r)' /\ Loaded.routes[r] = LoadedRoute(r)
    BY <1>1, <1>4 DEF LoadFacts, LoadedFields
  <2>1. CASE \A i \in {0} \cup Readable : RouteAt(i, r)' = None
    BY <1>3, <2>0, <2>1 DEF LoadsRoute
  <2>2. CASE \E i \in {0} \cup Readable : RouteAt(i, r)' # None
    <3>1. PICK i \in {0} \cup Readable : RoutePrevails(i, r)'
      BY <2>0, <2>2 DEF LoadsRoute
    <3>2. LoadedRoute(r)' = RouteAt(i, r)'
      BY <2>0, <3>1 DEF LoadsRoute
    <3>3. CASE i = 0
      BY <1>3, <3>2, <3>3
    <3>4. CASE i \in Readable
      <4>1. RouteAt(i, r) # None /\ RouteAt(i, r)' = RouteAt(i, r)
        BY <1>2, <3>1, <3>4 DEF RoutePrevails
      <4>2. PICK k \in {0} \cup Readable : RoutePrevails(k, r)
        BY <2>0, <3>4, <4>1 DEF LoadsRoute
      <4>3. LoadedRoute(r) = RouteAt(k, r) /\ RouteAt(k, r) # None
        BY <2>0, <4>2 DEF LoadsRoute, RoutePrevails
      <4> DEFINE g == RouteAt(i, r).generation
                 h == RouteAt(k, r).generation
                 q == s.routes[r].generation
      <4>4. g \in Nat /\ h \in Nat /\ q \in Nat /\ q >= h /\ s.routes[r] # None
        <5>1. RouteAt(i, r) \in Records /\ RouteAt(k, r) \in Records
          BY <1>1, <4>1, <4>2, <4>3 DEF LoadFacts
        <5>2. s.routes[r] \in Records /\ q >= h
          BY <2>0, <4>3 DEF States
        <5> QED BY <2>0, <4>3, <5>1, <5>2, StoreAssumption DEF Records
      <4>5. Beats(i, 0, r)' /\ RouteAt(0, r)' = s.routes[r]
        BY <1>3, <3>1, <4>4 DEF RoutePrevails
      <4>6. g >= q
        BY <4>1, <4>4, <4>5 DEF Beats
      <4>7. Beats(k, i, r)
        BY <4>1, <4>2 DEF RoutePrevails
      <4>8. h = g /\ k >= i
        BY <1>0, <4>4, <4>6, <4>7 DEF Beats
      <4>9. k \in Readable
        BY <1>0, <3>4, <4>2, <4>8
      <4>10. Beats(i, k, r)'
        BY <1>2, <3>1, <4>3, <4>9 DEF RoutePrevails
      <4>11. i >= k
        BY <1>0, <1>2, <3>4, <4>4, <4>8, <4>9, <4>10 DEF Beats
      <4>12. i = k
        BY <1>0, <3>4, <4>8, <4>9, <4>11
      <4> QED BY <1>2, <3>2, <3>4, <4>1, <4>3, <4>12
    <3> QED BY <3>3, <3>4
  <2> QED BY <2>1, <2>2
<1>6. ASSUME NEW a \in Attempts
      PROVE  LoadedAttempt(a)' = IF JournalAttempt(a) THEN LoadedAttempt(a)
                                 ELSE s.attempts[a]
  <2>0. LoadsAttempt(a) /\ LoadsAttempt(a)'
    BY <1>1 DEF LoadFacts
  <2>1. CASE JournalAttempt(a)
    <3>1. PICK k \in Readable : AttemptAt(k, a) # None
      BY <1>2, <2>1 DEF JournalAttempt
    <3>2. PICK i \in {0} \cup Readable : AttemptPrevails(i, a)
      BY <2>0, <3>1 DEF LoadsAttempt
    <3>3. i >= k
      BY <3>1, <3>2 DEF AttemptPrevails
    <3>4. i \in Readable
      BY <1>0, <3>1, <3>2, <3>3
    <3>5. \A j \in {0} \cup Readable : AttemptAt(j, a)' # None => i >= j
      <4>1. i >= 0
        BY <1>0, <3>4
      <4> QED BY <1>2, <3>2, <4>1 DEF AttemptPrevails
    <3>6. AttemptPrevails(i, a)'
      BY <1>2, <3>2, <3>4, <3>5 DEF AttemptPrevails
    <3>7. LoadedAttempt(a) = AttemptAt(i, a)
      BY <2>0, <3>2 DEF LoadsAttempt
    <3>8. LoadedAttempt(a)' = AttemptAt(i, a)'
      BY <2>0, <3>6 DEF LoadsAttempt
    <3> QED BY <1>2, <2>1, <3>4, <3>7, <3>8
  <2>2. CASE ~JournalAttempt(a)
    <3>1. \A i \in Readable : AttemptAt(i, a)' = None
      BY <1>2, <2>2 DEF JournalAttempt
    <3>2. CASE s.attempts[a] = None
      BY <1>3, <2>0, <2>2, <3>1, <3>2 DEF LoadsAttempt
    <3>3. CASE s.attempts[a] # None
      <4>1. AttemptPrevails(0, a)'
        BY <1>3, <3>1, <3>3 DEF AttemptPrevails
      <4> QED BY <1>3, <2>0, <2>2, <4>1 DEF LoadsAttempt
    <3> QED BY <3>2, <3>3
  <2> QED BY <2>1, <2>2
<1>7. LoadedEpoch' = s.epoch
  <2>1. LoadsEpoch /\ LoadsEpoch' /\ s.epoch >= LoadedEpoch
    BY <1>1, <1>4 DEF LoadFacts, LoadedFields
  <2>2. {journal[i].epoch : i \in Readable}' = {journal[i].epoch : i \in Readable}
    BY DEF KeepsFrames
  <2>3. Epochs' = {s.epoch} \cup {journal[i].epoch : i \in Readable}
    BY <1>3, <2>2 DEF Epochs
  <2>4. \A e \in {journal[i].epoch : i \in Readable} : LoadedEpoch >= e /\ e \in Nat
    BY <2>1, StoreAssumption DEF LoadsEpoch, Epochs
  <2>5. s.epoch \in Nat /\ LoadedEpoch \in Nat /\ LoadedEpoch' \in Nat
    <3>1. LoadedEpoch \in 1..MaxEpoch /\ LoadedEpoch' \in 1..MaxEpoch
      BY <2>1 DEF LoadsEpoch
    <3>2. s.epoch \in 1..MaxEpoch
      BY DEF States
    <3> QED BY <3>1, <3>2, StoreAssumption
  <2>6. LoadedEpoch' >= s.epoch
    BY <2>1, <2>3 DEF LoadsEpoch
  <2>7. LoadedEpoch' \in Epochs'
    BY <2>1 DEF LoadsEpoch
  <2> QED BY <2>1, <2>3, <2>4, <2>5, <2>6, <2>7
<1>8. Loaded'.revocations = s.revocations
  <2>1. {journal[i].revocations : i \in Readable}' = {journal[i].revocations : i \in Readable}
    BY DEF KeepsFrames
  <2>2. UNION {journal[i].revocations : i \in Readable} \subseteq s.revocations
    BY <1>4 DEF LoadedFields
  <2> QED BY <1>3, <1>4, <2>1, <2>2 DEF LoadedFields
<1> QED BY <1>4, <1>5, <1>6, <1>7, <1>8 DEF LoadedFields, RenamedOver

(* Without a journal the snapshot is loaded.                                 *)
LEMMA LoadBase == FilesOK /\ journal = <<>> => Loaded = Base
<1> SUFFICES ASSUME FilesOK, journal = <<>> PROVE Loaded = Base
  OBVIOUS
<1>1. LoadFacts
  BY LoadFactsHold
<1>2. Readable = {}
  BY DEF Readable
<1>3. /\ \A r \in Routes : RouteAt(0, r) = Base.routes[r]
      /\ \A a \in Attempts : AttemptAt(0, a) = Base.attempts[a]
  BY DEF RouteAt, AttemptAt
<1>4. LoadedFields /\ Base \in States
  BY <1>1 DEF LoadFacts
<1>5. ASSUME NEW r \in Routes PROVE LoadedRoute(r) = Base.routes[r]
  <2>0. LoadsRoute(r)
    BY <1>1 DEF LoadFacts
  <2>1. CASE Base.routes[r] = None
    BY <1>2, <1>3, <2>0, <2>1 DEF LoadsRoute
  <2>2. CASE Base.routes[r] # None
    <3>1. RoutePrevails(0, r)
      BY <1>2, <1>3, <2>2 DEF RoutePrevails, Beats
    <3> QED BY <1>2, <1>3, <2>0, <3>1 DEF LoadsRoute
  <2> QED BY <2>1, <2>2
<1>6. ASSUME NEW a \in Attempts PROVE LoadedAttempt(a) = Base.attempts[a]
  <2>0. LoadsAttempt(a)
    BY <1>1 DEF LoadFacts
  <2>1. CASE Base.attempts[a] = None
    BY <1>2, <1>3, <2>0, <2>1 DEF LoadsAttempt
  <2>2. CASE Base.attempts[a] # None
    <3>1. AttemptPrevails(0, a)
      BY <1>2, <1>3, <2>2 DEF AttemptPrevails
    <3> QED BY <1>2, <1>3, <2>0, <3>1 DEF LoadsAttempt
  <2> QED BY <2>1, <2>2
<1>7. LoadedEpoch = Base.epoch
  <2>1. Epochs = {Base.epoch}
    BY <1>2 DEF Epochs
  <2> QED BY <1>1, <2>1 DEF LoadFacts, LoadsEpoch
<1>8. Loaded.revocations = Base.revocations
  BY <1>2, <1>4 DEF LoadedFields
<1>9. /\ Loaded \in States /\ Loaded.epoch = Base.epoch
      /\ \A r \in Routes : Loaded.routes[r] = Base.routes[r]
      /\ \A a \in Attempts : Loaded.attempts[a] = Base.attempts[a]
  BY <1>4, <1>5, <1>6, <1>7 DEF LoadedFields
<1> HIDE DEF Loaded, Base
<1> QED BY <1>4, <1>8, <1>9, StatesEqual

LEMMA LoadEmpty ==
  ASSUME FilesOK', journal' = <<>>, NEW s \in States, snapshot' = s
  PROVE  Loaded' = s
<1>1. (FilesOK /\ journal = <<>>)' => (Loaded = Base)'
  BY LoadBase, PTL
<1>2. Base' = s
  BY StateAssumption DEF Base
<1> QED BY <1>1, <1>2

-----------------------------------------------------------------------------
(* States that cover one another.                                            *)

LEMMA CoversFields ==
  ASSUME NEW s, NEW t
  PROVE  Covers(s, t) <=> /\ s.epoch >= t.epoch
                          /\ t.revocations \subseteq s.revocations
                          /\ \A a \in Attempts : AttemptCovered(s, t, a)
                          /\ \A r \in Routes : RouteCovered(s, t, r)
BY DEF Covers

LEMMA StateFields ==
  ASSUME NEW s \in States
  PROVE  /\ s.epoch \in Nat
         /\ \A r \in Routes : s.routes[r] \in Records \cup {None}
         /\ \A a \in Attempts : s.attempts[a] \in AttemptRecords \cup {None}
         /\ \A r \in Routes : s.routes[r] # None =>
              /\ s.routes[r].stamp \in Nat /\ s.routes[r].generation \in Nat
              /\ s.routes[r].waiting \in Attempts \cup {None}
         /\ \A a \in Attempts : s.attempts[a] # None =>
              s.attempts[a].route \in Routes /\ s.attempts[a].resolved \in BOOLEAN
<1>1. /\ s.epoch \in 1..MaxEpoch
      /\ \A r \in Routes : s.routes[r] \in Records \cup {None}
      /\ \A a \in Attempts : s.attempts[a] \in AttemptRecords \cup {None}
  BY DEF States
<1>2. \A rec \in Records : /\ rec.stamp \in Nat /\ rec.generation \in Nat
                           /\ rec.waiting \in Attempts \cup {None}
  BY StoreAssumption DEF Records
<1>3. \A rec \in AttemptRecords : rec.route \in Routes /\ rec.resolved \in BOOLEAN
  BY DEF AttemptRecords
<1> QED BY <1>1, <1>2, <1>3, StoreAssumption

LEMMA CoversItself ==
  ASSUME NEW s \in States
  PROVE  Covers(s, s)
<1>1. s.epoch \in Nat /\ \A r \in Routes : s.routes[r] # None => s.routes[r].stamp \in Nat
  BY StateFields
<1> QED BY <1>1 DEF Covers, AttemptCovered, RouteCovered

(* Resolving an attempt.                                                     *)
LEMMA ResolvedAttempt ==
  ASSUME NEW x \in AttemptRecords
  PROVE  /\ [x EXCEPT !.resolved = TRUE] \in AttemptRecords
         /\ [x EXCEPT !.resolved = TRUE].route = x.route
         /\ [x EXCEPT !.resolved = TRUE].resolved = TRUE
         /\ [[x EXCEPT !.resolved = TRUE] EXCEPT !.resolved = TRUE]
              = [x EXCEPT !.resolved = TRUE]
BY DEF AttemptRecords

LEMMA CoversTransitive ==
  ASSUME NEW s \in States, NEW t \in States, NEW u \in States,
         Covers(s, t), Covers(t, u)
  PROVE  Covers(s, u)
<1>1. s.epoch >= u.epoch /\ u.revocations \subseteq s.revocations
  <2>1. s.epoch \in Nat /\ t.epoch \in Nat /\ u.epoch \in Nat
    BY StateFields
  <2> QED BY <2>1, CoversFields
<1>2. ASSUME NEW a \in Attempts PROVE AttemptCovered(s, u, a)
  <2>1. AttemptCovered(s, t, a) /\ AttemptCovered(t, u, a)
    BY CoversFields
  <2>2. u.attempts[a] \in AttemptRecords \cup {None}
    BY StateFields
  <2>3. CASE u.attempts[a] = None
    BY <2>3 DEF AttemptCovered
  <2>4. CASE u.attempts[a] # None
    <3>1. u.attempts[a] \in AttemptRecords
      BY <2>2, <2>4
    <3>2. [u.attempts[a] EXCEPT !.resolved = TRUE] # None
      BY <3>1, ResolvedAttempt, RecordAssumption
    <3>3. CASE t.attempts[a] = u.attempts[a]
      BY <2>1, <2>4, <3>3 DEF AttemptCovered
    <3>4. CASE t.attempts[a] = [u.attempts[a] EXCEPT !.resolved = TRUE]
      BY <2>1, <3>1, <3>2, <3>4, ResolvedAttempt DEF AttemptCovered
    <3> QED BY <2>1, <2>4, <3>3, <3>4 DEF AttemptCovered
  <2> QED BY <2>3, <2>4
<1>3. ASSUME NEW r \in Routes PROVE RouteCovered(s, u, r)
  <2>1. RouteCovered(s, t, r) /\ RouteCovered(t, u, r)
    BY CoversFields
  <2>2. /\ s.routes[r] # None => s.routes[r].stamp \in Nat
        /\ t.routes[r] # None => t.routes[r].stamp \in Nat
        /\ u.routes[r] # None => u.routes[r].stamp \in Nat
    BY StateFields
  <2> QED BY <2>1, <2>2 DEF RouteCovered
<1> QED BY <1>1, <1>2, <1>3, CoversFields

\* Entry e is one that a mutation or the recovery of state s persists, and
\* mutation n is the latest.
Fits(s, e, n) ==
  /\ e.epoch = s.epoch
  /\ \A r \in Routes : e.routes[r] # None =>
       /\ e.routes[r].stamp <= n
       /\ s.routes[r] # None =>
            /\ e.routes[r].generation >= s.routes[r].generation
            /\ \/ e.routes[r].stamp > s.routes[r].stamp
               \/ e.routes[r].stamp = s.routes[r].stamp /\ e.routes[r].waiting = None
  /\ \A a \in Attempts : e.attempts[a] # None =>
       /\ \/ s.routes[e.attempts[a].route] # None
          \/ e.routes[e.attempts[a].route] # None
       /\ \/ s.attempts[a] = None
          \/ e.attempts[a] = [s.attempts[a] EXCEPT !.resolved = TRUE]

(* Such an entry keeps the tables sound and moves them forward.              *)
LEMMA MergeSound ==
  ASSUME NEW s \in States, NEW e \in Frames, NEW k \in Nat, NEW n \in Nat, k <= n,
         Sound(s, k), Fits(s, e, n)
  PROVE  Sound(Merged(s, e), n) /\ Covers(Merged(s, e), s)
<1> DEFINE m == Merged(s, e)
<1>1. /\ m \in States /\ m.epoch = s.epoch
      /\ \A r \in Routes : m.routes[r] = IF e.routes[r] # None THEN e.routes[r]
                                         ELSE s.routes[r]
      /\ \A a \in Attempts : m.attempts[a] = IF e.attempts[a] # None THEN e.attempts[a]
                                             ELSE s.attempts[a]
      /\ m.revocations = s.revocations \cup e.revocations
  BY MergedFields
<1> HIDE DEF m
<1>2. /\ \A r \in Routes : e.routes[r] # None =>
           e.routes[r].stamp \in Nat /\ e.routes[r].waiting \in Attempts \cup {None}
      /\ \A a \in Attempts : e.attempts[a] # None => e.attempts[a].route \in Routes
  <2>1. /\ \A r \in Routes : e.routes[r] \in Records \cup {None}
        /\ \A a \in Attempts : e.attempts[a] \in AttemptRecords \cup {None}
    BY DEF Frames
  <2>2. \A rec \in Records : rec.stamp \in Nat /\ rec.waiting \in Attempts \cup {None}
    BY StoreAssumption DEF Records
  <2>3. \A rec \in AttemptRecords : rec.route \in Routes
    BY DEF AttemptRecords
  <2> QED BY <2>1, <2>2, <2>3
<1>4. ASSUME NEW r \in Routes, m.routes[r] # None
      PROVE  m.routes[r].stamp <= n
  <2>1. CASE e.routes[r] # None
    BY <1>1, <2>1 DEF Fits
  <2>2. CASE e.routes[r] = None
    <3>1. s.routes[r] # None /\ m.routes[r] = s.routes[r]
      BY <1>1, <1>4, <2>2
    <3>2. s.routes[r].stamp \in Nat /\ s.routes[r].stamp <= k
      BY <3>1, StateFields DEF Sound
    <3> QED BY <3>1, <3>2
  <2> QED BY <2>1, <2>2
<1>5. ASSUME NEW a \in Attempts, m.attempts[a] # None
      PROVE  m.routes[m.attempts[a].route] # None
  <2>1. CASE e.attempts[a] # None
    <3>1. m.attempts[a] = e.attempts[a] /\ e.attempts[a].route \in Routes
      BY <1>1, <1>2, <2>1
    <3>2. \/ s.routes[e.attempts[a].route] # None
          \/ e.routes[e.attempts[a].route] # None
      BY <2>1 DEF Fits
    <3> QED BY <1>1, <3>1, <3>2
  <2>2. CASE e.attempts[a] = None
    <3>1. s.attempts[a] # None /\ m.attempts[a] = s.attempts[a]
      BY <1>1, <1>5, <2>2
    <3>2. s.attempts[a].route \in Routes /\ s.routes[s.attempts[a].route] # None
      BY <3>1, StateFields DEF Sound
    <3> QED BY <1>1, <3>1, <3>2
  <2> QED BY <2>1, <2>2
<1>6. ASSUME NEW a \in Attempts PROVE AttemptCovered(m, s, a)
  BY <1>1 DEF AttemptCovered, Fits
<1>7. ASSUME NEW r \in Routes PROVE RouteCovered(m, s, r)
  BY <1>1 DEF RouteCovered, Fits
<1>8. Covers(m, s)
  <2>1. s.epoch \in Nat
    BY StateFields
  <2> QED BY <1>1, <1>6, <1>7, <2>1, CoversFields
<1>9. Sound(m, n)
  BY <1>4, <1>5 DEF Sound
<1> QED BY <1>8, <1>9 DEF m

(* The rename of a sound snapshot that covers what is loaded: whether Load   *)
(* takes a record from it or from the journal that is still there, the       *)
(* result is sound, and between the two.                                     *)
LEMMA RenameSound ==
  ASSUME NEW s \in States, NEW k \in Nat, NEW n \in Nat, k <= n,
         Loaded \in States, RenamedOver(s),
         Readable \subseteq DOMAIN journal,
         Sound(Loaded, k), Sound(s, n), Covers(s, Loaded)
  PROVE  Sound(Loaded', n) /\ Covers(Loaded', Loaded) /\ Covers(s, Loaded')
<1> DEFINE l == Loaded
           m == Loaded'
<1>1. /\ m \in States /\ m.epoch = s.epoch /\ m.revocations = s.revocations
      /\ \A r \in Routes :
           \/ m.routes[r] = s.routes[r]
           \/ /\ m.routes[r] = l.routes[r]
              /\ \E i \in Readable : /\ journal[i].routes[r] = l.routes[r]
                                     /\ l.routes[r] # None
      /\ \A a \in Attempts :
           m.attempts[a] = IF JournalAttempt(a) THEN l.attempts[a] ELSE s.attempts[a]
  BY DEF RenamedOver
<1>2. /\ s.epoch >= l.epoch /\ l.revocations \subseteq s.revocations
      /\ \A a \in Attempts : AttemptCovered(s, l, a)
      /\ \A r \in Routes : RouteCovered(s, l, r)
  BY CoversFields
<1>3. \A r \in Routes : l.routes[r] # None => s.routes[r] # None
  BY <1>2 DEF RouteCovered
<1>4. Sound(l, k) /\ l \in States
  OBVIOUS
<1> HIDE DEF l, m
<1>5. ASSUME NEW r \in Routes, m.routes[r] # None
      PROVE  m.routes[r].stamp <= n
  <2>1. CASE m.routes[r] = s.routes[r]
    BY <1>5, <2>1 DEF Sound
  <2>2. CASE m.routes[r] = l.routes[r]
    <3>1. l.routes[r].stamp \in Nat /\ l.routes[r].stamp <= k
      BY <1>4, <1>5, <2>2, StateFields DEF Sound
    <3> QED BY <2>2, <3>1
  <2> QED BY <1>1, <2>1, <2>2
<1>6. \A r \in Routes : s.routes[r] # None => m.routes[r] # None
  BY <1>1
<1>7. ASSUME NEW a \in Attempts, m.attempts[a] # None
      PROVE  m.routes[m.attempts[a].route] # None
  <2>1. CASE m.attempts[a] = s.attempts[a]
    <3>1. s.attempts[a].route \in Routes /\ s.routes[s.attempts[a].route] # None
      BY <1>7, <2>1, StateFields DEF Sound
    <3> QED BY <1>6, <2>1, <3>1
  <2>2. CASE m.attempts[a] = l.attempts[a]
    <3>1. l.attempts[a].route \in Routes /\ l.routes[l.attempts[a].route] # None
      BY <1>4, <1>7, <2>2, StateFields DEF Sound
    <3> QED BY <1>3, <1>6, <2>2, <3>1
  <2> QED BY <1>1, <2>1, <2>2
<1>8. Sound(m, n)
  BY <1>5, <1>7 DEF Sound
<1>9. Covers(m, l) /\ Covers(s, m)
  <2>1. /\ m.epoch >= l.epoch /\ s.epoch >= m.epoch
        /\ l.revocations \subseteq m.revocations /\ m.revocations \subseteq s.revocations
    <3>1. s.epoch \in Nat
      BY StateFields
    <3> QED BY <1>1, <1>2, <3>1
  <2>2. ASSUME NEW a \in Attempts PROVE AttemptCovered(m, l, a) /\ AttemptCovered(s, m, a)
    BY <1>1, <1>2 DEF AttemptCovered
  <2>3. ASSUME NEW r \in Routes PROVE RouteCovered(m, l, r) /\ RouteCovered(s, m, r)
    <3>1. CASE m.routes[r] = s.routes[r]
      <4>1. s.routes[r] # None => s.routes[r].stamp \in Nat
        BY StateFields
      <4> QED BY <1>2, <3>1, <4>1 DEF RouteCovered
    <3>2. CASE m.routes[r] = l.routes[r]
      <4>1. l.routes[r] # None => l.routes[r].stamp \in Nat
        BY <1>4, StateFields
      <4> QED BY <1>2, <3>2, <4>1 DEF RouteCovered
    <3> QED BY <1>1, <3>1, <3>2
  <2> QED BY <2>1, <2>2, <2>3, CoversFields
<1> QED BY <1>8, <1>9 DEF l, m

-----------------------------------------------------------------------------
(* The file operations.                                                      *)

(* The truncated journal.                                                    *)
LEMMA TruncateReads ==
  ASSUME FilesOK, journal' = Truncated
  PROVE  /\ journal' \in Seq(Frames)
         /\ \E n \in Nat : KeepsFrames(n)
         /\ Readable' = Readable /\ Readable' = DOMAIN journal'
<1>1. PICK n \in 0..Len(journal) : ReadsPrefix(n)
  BY ReadablePrefix
<1>2. /\ n \in Nat /\ Len(journal) \in Nat /\ DOMAIN journal = 1..Len(journal)
      /\ DOMAIN journal' = 1..n
      /\ Readable = 1..n
      /\ \A i \in 1..n : journal'[i] = journal[i] /\ journal[i].whole
      /\ journal' \in Seq(Frames)
  BY <1>1 DEF ReadsPrefix, FilesOK
<1>3. Readable' = 1..n
  BY <1>2 DEF Readable
<1> QED BY <1>2, <1>3 DEF KeepsFrames

(* The truncated journal with one more frame, whole or torn.                 *)
LEMMA AppendReads ==
  ASSUME FilesOK, NEW f \in Frames,
         journal' = Append(Truncated, f)
  PROVE  /\ journal' \in Seq(Frames)
         /\ \E n \in Nat :
              /\ KeepsFrames(n)
              /\ journal'[n + 1] = f
              /\ f.whole => Readable' = 1..(n + 1) /\ Readable' = DOMAIN journal'
              /\ ~f.whole => Readable' = Readable
<1>1. PICK n \in 0..Len(journal) : ReadsPrefix(n)
  BY ReadablePrefix
<1>2. /\ n \in Nat /\ Len(journal) \in Nat /\ DOMAIN journal = 1..Len(journal)
      /\ Readable = 1..n
      /\ \A i \in 1..n : Truncated[i] = journal[i] /\ journal[i].whole
      /\ Truncated \in Seq(Frames) /\ Len(Truncated) = n
  BY <1>1 DEF ReadsPrefix, FilesOK
<1>3. /\ journal' \in Seq(Frames) /\ Len(journal') = n + 1
      /\ DOMAIN journal' = 1..(n + 1)
      /\ \A i \in 1..n : journal'[i] = journal[i]
      /\ journal'[n + 1] = f
  BY <1>2, AppendProperties
<1>4. f.whole => Readable' = 1..(n + 1)
  <2>1. ASSUME f.whole, NEW i \in 1..(n + 1), NEW j \in 1..i PROVE journal'[j].whole
    <3>1. j \in 1..n \/ j = n + 1
      BY <1>2
    <3> QED BY <1>2, <1>3, <2>1, <3>1
  <2> QED BY <1>3, <2>1 DEF Readable
<1>5. ~f.whole => Readable' = 1..n
  <2>1. ASSUME ~f.whole, NEW i \in 1..(n + 1)
        PROVE  (\A j \in 1..i : journal'[j].whole) <=> i \in 1..n
    <3>1. CASE i \in 1..n
      <4>1. \A j \in 1..i : j \in 1..n
        BY <1>2, <3>1
      <4> QED BY <1>2, <1>3, <3>1, <4>1
    <3>2. CASE i = n + 1
      BY <1>2, <1>3, <2>1, <3>2
    <3> QED BY <1>2, <3>1, <3>2
  <2>2. 1..n \subseteq 1..(n + 1)
    BY <1>2
  <2> QED BY <1>3, <2>1, <2>2 DEF Readable
<1>7. KeepsFrames(n)
  <2>1. 1..n \subseteq Readable'
    BY <1>2, <1>4, <1>5
  <2> QED BY <1>2, <1>3, <2>1 DEF KeepsFrames
<1> QED BY <1>2, <1>3, <1>4, <1>5, <1>7

(* An open runtime has a journal without a torn tail.                        *)
LEMMA OpenTruncated ==
  ASSUME FilesOK, Readable = DOMAIN journal
  PROVE  Truncated = journal
<1>1. /\ journal \in Seq(Frames) /\ Len(journal) \in Nat
      /\ DOMAIN journal = 1..Len(journal)
  BY DEF FilesOK
<1>2. Cardinality(Readable) = Len(journal)
  BY <1>1, FS_Interval
<1> QED BY <1>1, <1>2, SubSeqFull DEF Truncated

(* An entry is appended: Load gives the mutated tables.                      *)
LEMMA AppendKeeps ==
  ASSUME FilesOK, NEW k \in Nat, NEW n \in Nat, k <= n,
         Sound(Loaded, k), NEW e \in Frames, e.whole = TRUE,
         Fits(Loaded, e, n), UNCHANGED snapshot, journal' = Append(Truncated, e)
  PROVE  /\ FilesOK' /\ Readable' = DOMAIN journal'
         /\ Loaded \in States /\ Loaded' \in States
         /\ Loaded' = Merged(Loaded, e) /\ Sound(Loaded', n) /\ Covers(Loaded', Loaded)
<1>1. /\ journal' \in Seq(Frames)
      /\ \E m \in Nat : /\ KeepsFrames(m) /\ journal'[m + 1] = e
                        /\ Readable' = 1..(m + 1) /\ Readable' = DOMAIN journal'
  BY AppendReads
<1>2. FilesOK'
  BY <1>1 DEF FilesOK
<1>3. Loaded \in States
  BY LoadFactsHold DEF LoadFacts, LoadedFields
<1>4. /\ e.epoch = Loaded.epoch
      /\ \A r \in Routes : e.routes[r] # None =>
           \/ Loaded.routes[r] = None
           \/ e.routes[r].generation >= Loaded.routes[r].generation
  BY DEF Fits
<1>5. Loaded' = Merged(Loaded, e)
  BY <1>1, <1>2, <1>4, LoadAppend
<1>6. Sound(Merged(Loaded, e), n) /\ Covers(Merged(Loaded, e), Loaded)
  BY <1>3, MergeSound
<1>7. Merged(Loaded, e) \in States
  BY <1>3, MergedFields
<1> QED BY <1>1, <1>2, <1>3, <1>5, <1>6, <1>7

(* A torn entry is appended: Load does not see it.                           *)
LEMMA TornKeeps ==
  ASSUME FilesOK, NEW f \in Frames, ~f.whole,
         UNCHANGED snapshot, journal' = Append(Truncated, f)
  PROVE  FilesOK' /\ Loaded' = Loaded /\ Loaded \in States
<1>1. /\ journal' \in Seq(Frames)
      /\ \E m \in Nat : KeepsFrames(m) /\ Readable' = Readable
  BY AppendReads
<1>2. FilesOK'
  BY <1>1 DEF FilesOK
<1>3. Loaded \in States
  BY LoadFactsHold DEF LoadFacts, LoadedFields
<1> QED BY <1>1, <1>2, <1>3, LoadSame

(* The journal is truncated: Load sees the same.                             *)
LEMMA TruncateKeeps ==
  ASSUME FilesOK, UNCHANGED snapshot, journal' = Truncated
  PROVE  /\ FilesOK' /\ Readable' = DOMAIN journal'
         /\ Loaded' = Loaded /\ Loaded \in States
<1>1. /\ journal' \in Seq(Frames) /\ Readable' = DOMAIN journal'
      /\ \E m \in Nat : KeepsFrames(m) /\ Readable' = Readable
  BY TruncateReads
<1>2. FilesOK'
  BY <1>1 DEF FilesOK
<1>3. Loaded \in States
  BY LoadFactsHold DEF LoadFacts, LoadedFields
<1> QED BY <1>1, <1>2, <1>3, LoadSame

(* A journal that is left alone or truncated reads the same.                 *)
LEMMA SameReads ==
  ASSUME FilesOK, journal' \in {journal, Truncated}
  PROVE  /\ journal' \in Seq(Frames)
         /\ \E m \in Nat : KeepsFrames(m) /\ Readable' = Readable
<1>1. CASE journal' = journal
  <2>1. journal' \in Seq(Frames) /\ Readable' = Readable
    BY <1>1 DEF FilesOK, Readable
  <2>2. PICK m \in 0..Len(journal) : ReadsPrefix(m)
    BY ReadablePrefix
  <2>3. m \in Nat /\ Readable = 1..m
    BY <2>2 DEF FilesOK, ReadsPrefix
  <2>4. KeepsFrames(m)
    BY <1>1, <2>1, <2>3 DEF KeepsFrames
  <2> QED BY <2>1, <2>3, <2>4
<1>2. CASE journal' = Truncated
  BY <1>2, TruncateReads
<1> QED BY <1>1, <1>2

(* A snapshot is renamed over a journal that stays.                          *)
LEMMA RenameKeeps ==
  ASSUME FilesOK, NEW k \in Nat, NEW n \in Nat, k <= n,
         Sound(Loaded, k), NEW s \in States, snapshot' = s,
         journal' \in {journal, Truncated},
         Sound(s, n), Covers(s, Loaded),
         \A r \in Routes : Loaded.routes[r] # None =>
           s.routes[r] # None /\ s.routes[r].generation >= Loaded.routes[r].generation
  PROVE  /\ FilesOK' /\ Loaded \in States /\ Loaded' \in States
         /\ Sound(Loaded', n) /\ Covers(Loaded', Loaded) /\ Covers(s, Loaded')
<1>1. /\ journal' \in Seq(Frames)
      /\ \E m \in Nat : KeepsFrames(m) /\ Readable' = Readable
  BY SameReads
<1>2. FilesOK'
  BY <1>1 DEF FilesOK
<1>3. Loaded \in States
  BY LoadFactsHold DEF LoadFacts, LoadedFields
<1>4. s.epoch >= Loaded.epoch /\ Loaded.revocations \subseteq s.revocations
  BY CoversFields
<1>5. RenamedOver(s)
  BY <1>1, <1>2, <1>4, LoadRename
<1>6. Readable \subseteq DOMAIN journal
  BY DEF Readable
<1>7. Sound(Loaded', n) /\ Covers(Loaded', Loaded) /\ Covers(s, Loaded')
  BY <1>3, <1>5, <1>6, RenameSound
<1> QED BY <1>1, <1>2, <1>3, <1>5, <1>7 DEF RenamedOver

-----------------------------------------------------------------------------
(* The entries of the mutations and of the recovery.                         *)

\* Attempt a is in the tables of s, for route r.
Known(s, a, r) == s.attempts[a] # None /\ s.attempts[a].route = r

\* A record of the entry waits for what it waited for, or comes with its attempt.
EntryWaits(s, e) ==
  \A r \in Routes : e.routes[r] # None /\ e.routes[r].waiting # None =>
    \/ s.routes[r] # None /\ e.routes[r].waiting = s.routes[r].waiting
    \/ Known(e, e.routes[r].waiting, r)

\* What persist is called with when the tables are s and the latest mutation n.
IsEntry(s, e, n) ==
  e \in Frames /\ e.whole = TRUE /\ Fits(s, e, n) /\ EntryWaits(s, e)

LEMMA OnlyFields ==
  /\ \A r \in Routes, rec \in Records :
       /\ OnlyRoute(r, rec) \in [Routes -> Records \cup {None}]
       /\ \A x \in Routes : OnlyRoute(r, rec)[x] = IF x = r THEN rec ELSE None
  /\ \A a \in Attempts, rec \in AttemptRecords :
       /\ OnlyAttempt(a, rec) \in [Attempts -> AttemptRecords \cup {None}]
       /\ \A x \in Attempts : OnlyAttempt(a, rec)[x] = IF x = a THEN rec ELSE None
  /\ NoRoutes \in [Routes -> Records \cup {None}] /\ \A x \in Routes : NoRoutes[x] = None
  /\ NoAttempts \in [Attempts -> AttemptRecords \cup {None}]
  /\ \A x \in Attempts : NoAttempts[x] = None
BY DEF OnlyRoute, OnlyAttempt, NoRoutes, NoAttempts

IsEntryOf(e, rs, as, rv) ==
  /\ e \in Frames /\ e.whole = TRUE /\ e.epoch = memory.epoch
  /\ e.routes = rs /\ e.attempts = as /\ e.revocations = rv

LEMMA EntryFields ==
  ASSUME memory \in States,
         NEW rs \in [Routes -> Records \cup {None}],
         NEW as \in [Attempts -> AttemptRecords \cup {None}],
         NEW rv \in SUBSET Routes
  PROVE  IsEntryOf(Entry(rs, as, rv), rs, as, rv)
<1>1. memory.epoch \in 1..MaxEpoch
  BY DEF States
<1> QED BY <1>1 DEF Entry, Frames, IsEntryOf

\* A record that a mutation of route r may store.
NextVersion(r, rec) ==
  /\ rec \in Records /\ rec.stamp = stamp + 1
  /\ memory.routes[r] # None => rec.generation >= memory.routes[r].generation

LEMMA VersionRecord ==
  ASSUME stamp \in Nat, stamp < MaxStamp, NEW r \in Routes,
         NEW g \in 1..MaxGeneration, NEW w \in Attempts \cup {None},
         memory.routes[r] # None => g >= memory.routes[r].generation
  PROVE  NextVersion(r, Version(g, w)) /\ Version(g, w).waiting = w
<1>1. stamp + 1 \in 1..MaxStamp
  BY StoreAssumption
<1> QED BY <1>1 DEF Version, Records, NextVersion

(* A revised record, and one that a publication leads to.                    *)
LEMMA RevisedRecord ==
  ASSUME memory \in States, stamp \in Nat, stamp < MaxStamp, NEW r \in Routes,
         memory.routes[r] # None, NEW w \in Attempts \cup {None}, NEW rec \in Revised(r, w)
  PROVE  NextVersion(r, rec) /\ rec.waiting = w
<1>1. PICK g \in {memory.routes[r].generation + 1} \cap 1..MaxGeneration : rec = Version(g, w)
  BY DEF Revised
<1>2. memory.routes[r].generation \in Nat
  BY StateFields
<1>3. g >= memory.routes[r].generation
  BY <1>1, <1>2
<1> QED BY <1>1, <1>3, VersionRecord

LEMMA ProgrammedRecord ==
  ASSUME memory \in States, stamp \in Nat, stamp < MaxStamp, "reused" \notin Faults,
         NEW r \in Routes, NEW w \in Attempts \cup {None}, NEW rec \in Programmed(r, w)
  PROVE  NextVersion(r, rec) /\ rec.waiting = w
<1>1. CASE memory.routes[r] # None
  <2>1. rec \in Revised(r, w)
    BY <1>1 DEF Programmed
  <2> QED BY <1>1, <2>1, RevisedRecord
<1>2. CASE memory.routes[r] = None
  <2>1. rec = Version(1, w)
    BY <1>2 DEF Programmed
  <2>2. 1 \in 1..MaxGeneration
    BY StoreAssumption
  <2> QED BY <1>2, <2>1, <2>2, VersionRecord
<1> QED BY <1>1, <1>2

(* Such a record is one that the entry may hold.                             *)
LEMMA RecordFits ==
  ASSUME memory \in States, stamp \in Nat, Sound(memory, stamp), NEW r \in Routes,
         NEW rec, NextVersion(r, rec)
  PROVE  /\ rec # None /\ rec.stamp <= stamp + 1
         /\ memory.routes[r] # None =>
              /\ rec.generation >= memory.routes[r].generation
              /\ rec.stamp > memory.routes[r].stamp
<1>1. rec \in Records /\ rec.stamp = stamp + 1
  BY DEF NextVersion
<1>2. memory.routes[r] # None =>
        memory.routes[r].stamp \in Nat /\ memory.routes[r].stamp <= stamp
  BY StateFields DEF Sound
<1>3. rec # None
  BY <1>1, RecordAssumption
<1>4. memory.routes[r] # None => stamp + 1 > memory.routes[r].stamp
  BY <1>2
<1> QED BY <1>1, <1>3, <1>4 DEF NextVersion

(* The entry of a mutation that starts an attempt.                           *)
LEMMA StartEntry ==
  ASSUME memory \in States, stamp \in Nat, Sound(memory, stamp),
         NEW r \in Routes, NEW a \in Attempts, memory.attempts[a] = None,
         NEW rec, NextVersion(r, rec), rec.waiting = a,
         NEW at, at = [route |-> r, epoch |-> memory.epoch, resolved |-> FALSE]
  PROVE  IsEntry(memory, Entry(OnlyRoute(r, rec), OnlyAttempt(a, at), {}), stamp + 1)
<1> DEFINE rs == OnlyRoute(r, rec)
           as == OnlyAttempt(a, at)
           e == Entry(rs, as, {})
<1>1. rec \in Records
  BY DEF NextVersion
<1>2. at \in AttemptRecords /\ at.route = r
  <2>1. memory.epoch \in 1..MaxEpoch
    BY DEF States
  <2> QED BY <2>1 DEF AttemptRecords
<1>3. at # None
  BY <1>2, RecordAssumption
<1>4. /\ rs \in [Routes -> Records \cup {None}]
      /\ \A x \in Routes : rs[x] = IF x = r THEN rec ELSE None
  BY <1>1, OnlyFields
<1>5. /\ as \in [Attempts -> AttemptRecords \cup {None}]
      /\ \A x \in Attempts : as[x] = IF x = a THEN at ELSE None
  BY <1>2, OnlyFields
<1> HIDE DEF rs, as
<1>6. IsEntryOf(e, rs, as, {})
  <2>1. {} \in SUBSET Routes
    OBVIOUS
  <2> QED BY <1>4, <1>5, <2>1, EntryFields
<1> HIDE DEF e
<1>7. /\ e \in Frames /\ e.whole = TRUE /\ e.epoch = memory.epoch
      /\ e.routes = rs /\ e.attempts = as
  BY <1>6 DEF IsEntryOf
<1>8. Fits(memory, e, stamp + 1)
  <2>1. /\ rec # None /\ rec.stamp <= stamp + 1
        /\ memory.routes[r] # None =>
             /\ rec.generation >= memory.routes[r].generation
             /\ rec.stamp > memory.routes[r].stamp
    BY RecordFits
  <2>2. ASSUME NEW x \in Routes, e.routes[x] # None
        PROVE  /\ e.routes[x].stamp <= stamp + 1
               /\ memory.routes[x] # None =>
                    /\ e.routes[x].generation >= memory.routes[x].generation
                    /\ e.routes[x].stamp > memory.routes[x].stamp
    BY <1>4, <1>7, <2>1, <2>2
  <2>3. ASSUME NEW x \in Attempts, e.attempts[x] # None
        PROVE  e.routes[e.attempts[x].route] # None /\ memory.attempts[x] = None
    BY <1>2, <1>4, <1>5, <1>7, <2>1, <2>3
  <2> QED BY <1>7, <2>2, <2>3 DEF Fits
<1>9. EntryWaits(memory, e)
  <2> SUFFICES ASSUME NEW x \in Routes, e.routes[x] # None
               PROVE  Known(e, e.routes[x].waiting, x)
    BY DEF EntryWaits
  <2>1. x = r /\ e.routes[x].waiting = a /\ e.attempts[a] = at
    BY <1>4, <1>5, <1>7
  <2> QED BY <1>2, <1>3, <2>1 DEF Known
<1> QED BY <1>7, <1>8, <1>9 DEF IsEntry, e, rs, as

(* The entry of a mutation of a record alone, and of a revocation.           *)
LEMMA RecordEntry ==
  ASSUME memory \in States, stamp \in Nat, Sound(memory, stamp),
         NEW r \in Routes, memory.routes[r] # None, NEW rec, NextVersion(r, rec),
         rec.waiting \in {None, memory.routes[r].waiting}, NEW rv \in SUBSET Routes
  PROVE  IsEntry(memory, Entry(OnlyRoute(r, rec), NoAttempts, rv), stamp + 1)
<1> DEFINE rs == OnlyRoute(r, rec)
           e == Entry(rs, NoAttempts, rv)
<1>1. rec \in Records
  BY DEF NextVersion
<1>2. /\ rs \in [Routes -> Records \cup {None}]
      /\ \A x \in Routes : rs[x] = IF x = r THEN rec ELSE None
  BY <1>1, OnlyFields
<1>3. /\ NoAttempts \in [Attempts -> AttemptRecords \cup {None}]
      /\ \A x \in Attempts : NoAttempts[x] = None
  BY DEF NoAttempts
<1> HIDE DEF rs
<1>4. IsEntryOf(e, rs, NoAttempts, rv)
  BY <1>2, <1>3, EntryFields
<1> HIDE DEF e
<1>5. /\ e \in Frames /\ e.whole = TRUE /\ e.epoch = memory.epoch
      /\ e.routes = rs /\ e.attempts = NoAttempts
  BY <1>4 DEF IsEntryOf
<1>6. Fits(memory, e, stamp + 1)
  <2>1. /\ rec # None /\ rec.stamp <= stamp + 1
        /\ memory.routes[r] # None =>
             /\ rec.generation >= memory.routes[r].generation
             /\ rec.stamp > memory.routes[r].stamp
    BY RecordFits
  <2>2. ASSUME NEW x \in Routes, e.routes[x] # None
        PROVE  /\ e.routes[x].stamp <= stamp + 1
               /\ memory.routes[x] # None =>
                    /\ e.routes[x].generation >= memory.routes[x].generation
                    /\ e.routes[x].stamp > memory.routes[x].stamp
    BY <1>2, <1>5, <2>1, <2>2
  <2> QED BY <1>3, <1>5, <2>2 DEF Fits
<1>7. EntryWaits(memory, e)
  BY <1>2, <1>5 DEF EntryWaits
<1> QED BY <1>5, <1>6, <1>7 DEF IsEntry, e, rs

(* A record that waits no longer.                                            *)
LEMMA ReleasedRecord ==
  ASSUME NEW rec \in Records
  PROVE  LET released == [rec EXCEPT !.waiting = None]
         IN /\ released \in Records /\ released.waiting = None
            /\ released.generation = rec.generation /\ released.stamp = rec.stamp
BY DEF Records

(* The entry of a completion, which is stale or not.                         *)
LEMMA CompleteEntry ==
  ASSUME memory \in States, stamp \in Nat, stamp < MaxStamp, Sound(memory, stamp),
         NEW a \in Attempts, memory.attempts[a] # None,
         NEW r, r = memory.attempts[a].route,
         NEW at, at = [memory.attempts[a] EXCEPT !.resolved = TRUE],
         NEW rs, rs \in {OnlyRoute(r, Version(memory.routes[r].generation, None)), NoRoutes}
  PROVE  IsEntry(memory, Entry(rs, OnlyAttempt(a, at), {}), stamp + 1)
<1> DEFINE as == OnlyAttempt(a, at)
           update == Version(memory.routes[r].generation, None)
           e == Entry(rs, as, {})
<1>1. r \in Routes /\ memory.attempts[a] \in AttemptRecords
  BY StateFields
<1>2. memory.routes[r] # None /\ memory.routes[r] \in Records
  BY <1>1, StateFields DEF Sound
<1>3. at \in AttemptRecords /\ at.route = r
  BY <1>1, ResolvedAttempt
<1>4. NextVersion(r, update) /\ update.waiting = None
  <2>1. memory.routes[r].generation \in 1..MaxGeneration
    BY <1>2 DEF Records
  <2>2. memory.routes[r].generation >= memory.routes[r].generation
    BY <2>1, StoreAssumption
  <2> QED BY <1>1, <2>1, <2>2, VersionRecord
<1>5. update \in Records
  BY <1>4 DEF NextVersion
<1> HIDE DEF update
<1>6. /\ rs \in [Routes -> Records \cup {None}]
      /\ \A x \in Routes : rs[x] # None => x = r /\ rs[x] = update
  <2>1. CASE rs = NoRoutes
    BY <2>1, OnlyFields
  <2>2. CASE rs = OnlyRoute(r, update)
    BY <1>1, <1>5, <2>2, OnlyFields
  <2> QED BY <2>1, <2>2 DEF update
<1>7. /\ as \in [Attempts -> AttemptRecords \cup {None}]
      /\ \A x \in Attempts : as[x] = IF x = a THEN at ELSE None
  BY <1>3, OnlyFields
<1> HIDE DEF as
<1>8. IsEntryOf(e, rs, as, {})
  <2>1. {} \in SUBSET Routes
    OBVIOUS
  <2> QED BY <1>6, <1>7, <2>1, EntryFields
<1> HIDE DEF e
<1>9. /\ e \in Frames /\ e.whole = TRUE /\ e.epoch = memory.epoch
      /\ e.routes = rs /\ e.attempts = as
  BY <1>8 DEF IsEntryOf
<1>10. Fits(memory, e, stamp + 1)
  <2>1. /\ update.stamp <= stamp + 1
        /\ memory.routes[r] # None =>
             /\ update.generation >= memory.routes[r].generation
             /\ update.stamp > memory.routes[r].stamp
    BY <1>1, <1>4, RecordFits
  <2>2. ASSUME NEW x \in Routes, e.routes[x] # None
        PROVE  /\ e.routes[x].stamp <= stamp + 1
               /\ memory.routes[x] # None =>
                    /\ e.routes[x].generation >= memory.routes[x].generation
                    /\ e.routes[x].stamp > memory.routes[x].stamp
    <3>1. x = r /\ e.routes[x] = update
      BY <1>6, <1>9, <2>2
    <3> QED BY <2>1, <3>1
  <2>3. ASSUME NEW x \in Attempts, e.attempts[x] # None
        PROVE  /\ memory.routes[e.attempts[x].route] # None
               /\ e.attempts[x] = [memory.attempts[x] EXCEPT !.resolved = TRUE]
    BY <1>2, <1>3, <1>7, <1>9, <2>3
  <2> QED BY <1>9, <2>2, <2>3 DEF Fits
<1>11. EntryWaits(memory, e)
  BY <1>4, <1>6, <1>9 DEF EntryWaits
<1> QED BY <1>9, <1>10, <1>11 DEF IsEntry, e, as

(* The entry of the recovery.                                                *)
LEMMA RecoveryEntry ==
  ASSUME NEW s \in States, NEW n \in Nat, Sound(s, n)
  PROVE  /\ IsEntry(s, Recovery(s), n)
         /\ \A r \in Routes : Recovery(s).routes[r] # None =>
              /\ s.routes[r] # None /\ s.routes[r].waiting \in Attempts
              /\ Recovery(s).attempts[s.routes[r].waiting] # None
         /\ Recovery(s).revocations = {}
<1> DEFINE lost == {a \in Attempts : s.attempts[a] # None /\ ~s.attempts[a].resolved}
           owed == {r \in Routes : s.routes[r] # None /\ s.routes[r].waiting \in lost}
           rs == [r \in Routes |-> IF r \in owed THEN [s.routes[r] EXCEPT !.waiting = None]
                                   ELSE None]
           as == [a \in Attempts |-> IF a \in lost
                                     THEN [s.attempts[a] EXCEPT !.resolved = TRUE] ELSE None]
           e == Recovery(s)
<1>1. /\ s.routes \in [Routes -> Records \cup {None}]
      /\ s.attempts \in [Attempts -> AttemptRecords \cup {None}]
      /\ s.epoch \in 1..MaxEpoch
  BY DEF States
<1>2. e = [whole |-> TRUE, epoch |-> s.epoch, revocations |-> {}, routes |-> rs,
           attempts |-> as]
  <2>1. Present(s.attempts) = {a \in Attempts : s.attempts[a] # None}
    BY <1>1 DEF Present
  <2>2. Present(s.routes) = {r \in Routes : s.routes[r] # None}
    BY <1>1 DEF Present
  <2>3. {a \in Present(s.attempts) : ~s.attempts[a].resolved} = lost
    BY <2>1
  <2>4. {r \in Present(s.routes) : s.routes[r].waiting \in lost} = owed
    BY <2>2
  <2> HIDE DEF lost, owed
  <2> QED BY <2>3, <2>4 DEF Recovery
<1>3. ASSUME NEW r \in owed
      PROVE  /\ s.routes[r] \in Records /\ rs[r] \in Records /\ rs[r].waiting = None
             /\ rs[r].generation = s.routes[r].generation
             /\ rs[r].stamp = s.routes[r].stamp /\ rs[r] # None
  <2>1. s.routes[r] \in Records /\ rs[r] = [s.routes[r] EXCEPT !.waiting = None]
    BY <1>1
  <2> QED BY <2>1, ReleasedRecord, RecordAssumption
<1>4. ASSUME NEW a \in lost
      PROVE  /\ s.attempts[a] \in AttemptRecords /\ as[a] \in AttemptRecords
             /\ as[a] = [s.attempts[a] EXCEPT !.resolved = TRUE]
             /\ as[a].route = s.attempts[a].route /\ as[a].resolved = TRUE
  <2>1. /\ s.attempts[a] \in AttemptRecords
        /\ as[a] = [s.attempts[a] EXCEPT !.resolved = TRUE]
    BY <1>1
  <2> QED BY <2>1, ResolvedAttempt
<1>5. /\ \A r \in Routes : r \notin owed => rs[r] = None
      /\ \A a \in Attempts : a \notin lost => as[a] = None
  OBVIOUS
<1>6. /\ \A r \in owed : r \in Routes /\ s.routes[r] # None
      /\ \A a \in lost : a \in Attempts /\ s.attempts[a] # None
      /\ \A r \in Routes : s.routes[r] # None /\ s.routes[r].waiting \in lost => r \in owed
  OBVIOUS
<1>7. rs \in [Routes -> Records \cup {None}] /\ as \in [Attempts -> AttemptRecords \cup {None}]
  <2>1. \A r \in Routes : rs[r] \in Records \cup {None}
    BY <1>3, <1>5
  <2>2. \A a \in Attempts : as[a] \in AttemptRecords \cup {None}
    BY <1>4, <1>5
  <2>3. rs = [r \in Routes |-> rs[r]] /\ as = [a \in Attempts |-> as[a]]
    OBVIOUS
  <2> HIDE DEF rs, as
  <2> QED BY <2>1, <2>2, <2>3
<1> HIDE DEF lost, owed, rs, as, e
<1>8. /\ e \in Frames /\ e.whole = TRUE /\ e.epoch = s.epoch /\ e.routes = rs
      /\ e.attempts = as /\ e.revocations = {}
  BY <1>1, <1>2, <1>7 DEF Frames
<1>9. Fits(s, e, n)
  <2>1. ASSUME NEW r \in Routes, e.routes[r] # None
        PROVE  /\ e.routes[r].stamp <= n /\ e.routes[r].waiting = None
               /\ s.routes[r] # None =>
                    /\ e.routes[r].generation >= s.routes[r].generation
                    /\ e.routes[r].stamp = s.routes[r].stamp
    <3>1. r \in owed
      BY <1>5, <1>8, <2>1
    <3>2. s.routes[r] # None /\ s.routes[r].stamp <= n /\ s.routes[r].generation \in Nat
      BY <1>6, <3>1, StateFields DEF Sound
    <3> QED BY <1>3, <1>8, <3>1, <3>2
  <2>2. ASSUME NEW a \in Attempts, e.attempts[a] # None
        PROVE  /\ s.routes[e.attempts[a].route] # None
               /\ e.attempts[a] = [s.attempts[a] EXCEPT !.resolved = TRUE]
    <3>1. a \in lost
      BY <1>5, <1>8, <2>2
    <3> QED BY <1>4, <1>6, <1>8, <3>1 DEF Sound
  <2> QED BY <1>8, <2>1, <2>2 DEF Fits
<1>10. EntryWaits(s, e)
  BY <1>3, <1>5, <1>8 DEF EntryWaits
<1>12. ASSUME NEW r \in Routes, e.routes[r] # None
       PROVE  /\ s.routes[r] # None /\ s.routes[r].waiting \in Attempts
              /\ e.attempts[s.routes[r].waiting] # None
  <2>1. r \in owed
    BY <1>5, <1>8, <1>12
  <2>2. s.routes[r] # None /\ s.routes[r].waiting \in lost
    BY <2>1 DEF owed
  <2>3. as[s.routes[r].waiting] \in AttemptRecords
    BY <1>4, <2>2
  <2> QED BY <1>6, <1>8, <2>2, <2>3, RecordAssumption
<1> QED BY <1>8, <1>9, <1>10, <1>12 DEF IsEntry, e

-----------------------------------------------------------------------------
(* Every step keeps the invariant, and makes nothing durable undone.         *)

\* A step keeps the invariant, moves the durable state forward, and leaves what
\* is acknowledged alone while a snapshot is being saved.
StepKeeps ==
  /\ StoreTypeOK' /\ StoreInv'
  /\ Covers(Loaded', Loaded)
  /\ status' = "saving" => status = "open" /\ acknowledged' = acknowledged

LEMMA PresentFinite ==
  ASSUME NEW X, NEW f \in [Routes -> X]
  PROVE  /\ Cardinality(Present(f)) \in Nat
         /\ \A T : Cardinality(Present(f) \cap T) \in Nat
<1>1. Present(f) \subseteq Routes
  BY DEF Present
<1> HIDE DEF Present
<1>2. IsFiniteSet(Present(f))
  BY <1>1, FiniteRoutes, FS_Subset
<1>3. \A T : IsFiniteSet(Present(f) \cap T)
  <2> TAKE T
  <2>1. Present(f) \cap T \subseteq Present(f)
    OBVIOUS
  <2> QED BY <1>2, <2>1, FS_Subset
<1> QED BY <1>2, <1>3, FS_CardinalityType

LEMMA SoundMore ==
  ASSUME NEW s \in States, NEW k \in Nat, NEW n \in Nat, k <= n, Sound(s, k)
  PROVE  Sound(s, n)
<1>1. \A r \in Routes : s.routes[r] # None =>
        s.routes[r].stamp \in Nat /\ s.routes[r].stamp <= k
  BY StateFields DEF Sound
<1>2. \A r \in Routes : s.routes[r] # None => s.routes[r].stamp <= n
  BY <1>1
<1> QED BY <1>2 DEF Sound

LEMMA EmptyType == EmptyState \in States
BY StoreAssumption DEF EmptyState, States, NoRoutes, NoAttempts

(* The step ends with no process open: what it made of the files is sound.   *)
LEMMA EndsClosed ==
  ASSUME StoreTypeOK, StoreInv, FilesOK', status' = "closed",
         memory' \in States, durability' \in Modes, saving' \in States \cup {None},
         namespace_count' \in Nat, stamp' \in 0..MaxStamp, UNCHANGED acknowledged,
         Loaded \in States, Loaded' \in States,
         Sound(Loaded', stamp'), Covers(Loaded', Loaded)
  PROVE  StepKeeps
<1>1. Covers(Loaded', acknowledged')
  BY CoversTransitive DEF StoreTypeOK, StoreInv
<1>2. StoreTypeOK'
  BY DEF StoreTypeOK, FilesOK
<1> QED BY <1>1, <1>2 DEF StepKeeps, StoreInv, OpenInStep, SavingInStep

(* It ends with an open runtime whose tables are what the files stand for.   *)
LEMMA EndsOpen ==
  ASSUME StoreTypeOK, StoreInv, FilesOK', status' = "open",
         memory' = Loaded', acknowledged' = Loaded', durability' \in Modes,
         saving' \in States \cup {None},
         namespace_count' \in Nat, stamp' \in 0..MaxStamp,
         Loaded' \in States, Readable' = DOMAIN journal',
         Sound(Loaded', stamp'), Covers(Loaded', Loaded)
  PROVE  StepKeeps
<1>1. Covers(Loaded', acknowledged')
  BY CoversItself
<1>2. StoreTypeOK'
  BY DEF StoreTypeOK, FilesOK
<1> QED BY <1>1, <1>2 DEF StepKeeps, StoreInv, OpenInStep, SavingInStep

(* It ends with a snapshot renamed and the journal not yet removed.          *)
LEMMA EndsSaving ==
  ASSUME StoreTypeOK, StoreInv, FilesOK', NEW s \in States,
         \/ status' = "saving" /\ status = "open"
         \/ status' = "opening",
         saving' = s, snapshot' = s, memory' \in States, UNCHANGED acknowledged,
         durability' \in Modes, namespace_count' \in Nat, stamp' \in 0..MaxStamp,
         Loaded \in States, Loaded' \in States,
         Sound(Loaded', stamp'), Covers(Loaded', Loaded),
         Sound(s, stamp'), Covers(s, Loaded')
  PROVE  StepKeeps
<1>1. Covers(Loaded', acknowledged')
  BY CoversTransitive DEF StoreTypeOK, StoreInv
<1>2. StoreTypeOK'
  BY DEF StoreTypeOK, FilesOK
<1>3. SavingInStep'
  BY StateAssumption DEF SavingInStep
<1>4. OpenInStep'
  BY DEF OpenInStep
<1> QED BY <1>1, <1>2, <1>3, <1>4 DEF StepKeeps, StoreInv

(* A snapshot saved by an open runtime: at least as new as its tables.       *)
LEMMA SaveKeeps ==
  ASSUME StoreTypeOK, StoreInv, status = "open", status' = "saving",
         NEW s \in States, snapshot' = s, saving' = s,
         UNCHANGED <<journal, memory, durability, acknowledged>>,
         namespace_count' \in Nat, stamp' \in 0..MaxStamp, stamp' >= stamp,
         Sound(s, stamp'), Covers(s, memory),
         \A r \in Routes : memory.routes[r] # None =>
           s.routes[r] # None /\ s.routes[r].generation >= memory.routes[r].generation
  PROVE  StepKeeps
<1>1. /\ FilesOK /\ memory = Loaded /\ Sound(Loaded, stamp)
      /\ memory \in States /\ durability \in Modes
  BY DEF StoreTypeOK, StoreInv, OpenInStep, FilesOK
<1>2. stamp \in Nat /\ stamp' \in Nat
  BY StoreAssumption DEF StoreTypeOK
<1>3. /\ FilesOK' /\ Loaded \in States /\ Loaded' \in States
      /\ Sound(Loaded', stamp') /\ Covers(Loaded', Loaded) /\ Covers(s, Loaded')
  BY <1>1, <1>2, RenameKeeps
<1> QED BY <1>1, <1>3, EndsSaving

\* The snapshot that persist writes for an entry is one that Load takes up.
LEMMA EntryMerged ==
  ASSUME NEW s \in States, NEW e, NEW k \in Nat, NEW n \in Nat, k <= n,
         Sound(s, k), IsEntry(s, e, n)
  PROVE  /\ Merged(s, e) \in States /\ Sound(Merged(s, e), n) /\ Covers(Merged(s, e), s)
         /\ \A r \in Routes : s.routes[r] # None =>
              /\ Merged(s, e).routes[r] # None
              /\ Merged(s, e).routes[r].generation >= s.routes[r].generation
<1>1. e \in Frames /\ Fits(s, e, n)
  BY DEF IsEntry
<1>2. Sound(Merged(s, e), n) /\ Covers(Merged(s, e), s)
  BY <1>1, MergeSound
<1>3. /\ Merged(s, e) \in States
      /\ \A r \in Routes : Merged(s, e).routes[r] =
           IF e.routes[r] # None THEN e.routes[r] ELSE s.routes[r]
      /\ \A a \in Attempts : Merged(s, e).attempts[a] =
           IF e.attempts[a] # None THEN e.attempts[a] ELSE s.attempts[a]
  BY <1>1, MergedFields
<1>4. \A r \in Routes : s.routes[r] # None => s.routes[r].generation \in Nat
  BY StateFields
<1>5. \A r \in Routes : s.routes[r] # None =>
        /\ Merged(s, e).routes[r] # None
        /\ Merged(s, e).routes[r].generation >= s.routes[r].generation
  <2> SUFFICES ASSUME NEW r \in Routes, s.routes[r] # None
               PROVE  /\ Merged(s, e).routes[r] # None
                      /\ Merged(s, e).routes[r].generation >= s.routes[r].generation
    OBVIOUS
  <2>1. CASE e.routes[r] = None
    BY <1>3, <1>4, <2>1
  <2>2. CASE e.routes[r] # None
    <3>1. e.routes[r].generation >= s.routes[r].generation
      BY <1>1, <2>2 DEF Fits
    <3>2. Merged(s, e).routes[r] = e.routes[r]
      BY <1>3, <2>2
    <3> QED BY <2>2, <3>1, <3>2
  <2> QED BY <2>1, <2>2
<1> QED BY <1>2, <1>3, <1>5

(* An entry cut short by the end of its process.                             *)
LEMMA PartFields ==
  ASSUME NEW e \in Frames, e.whole = TRUE, NEW w \in BOOLEAN
  PROVE  /\ [e EXCEPT !.whole = w] \in Frames /\ [e EXCEPT !.whole = w].whole = w
         /\ [e EXCEPT !.whole = w].routes = e.routes
         /\ [e EXCEPT !.whole = w].attempts = e.attempts
         /\ w => [e EXCEPT !.whole = w] = e
<1>1. [e EXCEPT !.whole = w] \in Frames /\ [e EXCEPT !.whole = w].whole = w
  BY DEF Frames
<1>2. /\ [e EXCEPT !.whole = w].routes = e.routes
      /\ [e EXCEPT !.whole = w].attempts = e.attempts
  BY DEF Frames
<1>3. w => [e EXCEPT !.whole = w] = e
  BY DEF Frames
<1> QED BY <1>1, <1>2, <1>3

(* The process ends while it appends an entry to what Load left of the       *)
(* journal.                                                                  *)
LEMMA DyingAppend ==
  ASSUME StoreTypeOK, StoreInv, NEW e, NEW n \in Nat, stamp <= n, n <= MaxStamp,
         IsEntry(Loaded, e, n), NEW w \in BOOLEAN,
         journal' = Appending(Truncated, e, w), UNCHANGED <<snapshot, acknowledged>>,
         NewProcess, stamp' = n
  PROVE  StepKeeps
<1>1. /\ FilesOK /\ Sound(Loaded, stamp)
      /\ e \in Frames /\ e.whole = TRUE /\ Fits(Loaded, e, n)
  BY DEF StoreTypeOK, StoreInv, FilesOK, IsEntry
<1>2. stamp \in Nat /\ n \in 0..MaxStamp
  BY StoreAssumption DEF StoreTypeOK
<1> DEFINE f == [e EXCEPT !.whole = w]
<1>3. /\ f \in Frames /\ f.whole = w /\ f.routes = e.routes /\ f.attempts = e.attempts
      /\ w => f = e
  BY <1>1, PartFields
<1>4. journal' = Append(Truncated, f)
  BY DEF Appending
<1> HIDE DEF f
<1>6. /\ status' = "closed" /\ durability' \in Modes /\ memory' \in States
      /\ saving' \in States \cup {None} /\ namespace_count' \in Nat
  BY EmptyType DEF NewProcess
<1>7. CASE w
  <2>1. f = e /\ journal' = Append(Truncated, e)
    BY <1>3, <1>4, <1>7
  <2>2. /\ FilesOK' /\ Loaded \in States /\ Loaded' \in States
        /\ Sound(Loaded', n) /\ Covers(Loaded', Loaded)
    BY <1>1, <1>2, <2>1, AppendKeeps
  <2> QED BY <1>2, <1>6, <2>2, EndsClosed
<1>8. CASE ~w
  <2>1. ~f.whole
    BY <1>3, <1>8
  <2>2. FilesOK' /\ Loaded' = Loaded /\ Loaded \in States
    BY <1>1, <1>3, <1>4, <2>1, TornKeeps
  <2>3. Sound(Loaded, n) /\ Covers(Loaded, Loaded)
    BY <1>1, <1>2, <2>2, SoundMore, CoversItself
  <2> QED BY <1>2, <1>6, <2>2, <2>3, EndsClosed
<1> QED BY <1>7, <1>8

(* persist of a mutation.                                                    *)
LEMMA PersistKeeps ==
  ASSUME StoreTypeOK, StoreInv, Faults \subseteq {"refused"},
         NEW e, IsEntry(memory, e, stamp + 1), Persist(e)
  PROVE  StepKeeps
<1>1. /\ FilesOK /\ Sound(Loaded, stamp)
      /\ memory = Loaded /\ Readable = DOMAIN journal /\ memory \in States
      /\ status = "open" /\ durability \in Modes /\ saving \in States \cup {None}
  BY DEF StoreTypeOK, StoreInv, OpenInStep, FilesOK, Persist
<1>2. /\ stamp \in Nat /\ stamp + 1 \in Nat /\ stamp <= stamp + 1 /\ stamp + 1 <= MaxStamp
      /\ stamp' = stamp + 1 /\ stamp' \in 0..MaxStamp /\ stamp' >= stamp
  BY StoreAssumption DEF StoreTypeOK, Persist
<1>3. Truncated = journal
  BY <1>1, OpenTruncated
<1>4. /\ e \in Frames /\ e.whole = TRUE /\ Fits(Loaded, e, stamp + 1)
      /\ IsEntry(Loaded, e, stamp + 1)
  BY <1>1 DEF IsEntry
<1>5. Indexed(e) \in Nat
  <2>1. e.routes \in [Routes -> Records \cup {None}]
    BY <1>4 DEF Frames
  <2>2. Cardinality(Present(e.routes)) \in Nat
    BY <2>1, PresentFinite
  <2>3. Cardinality(Present(e.routes) \cap Present(memory.routes)) \in Nat
    BY <2>1, PresentFinite
  <2> DEFINE erased == Cardinality(Present(e.routes) \cap Present(memory.routes))
             inserted == Cardinality(Present(e.routes))
  <2>4. Indexed(e) = (IF namespace_count > erased THEN namespace_count - erased ELSE 0)
                       + inserted
    BY DEF Indexed
  <2>5. erased \in Nat /\ inserted \in Nat /\ namespace_count \in Nat
    BY <2>2, <2>3 DEF StoreTypeOK
  <2> HIDE DEF erased, inserted
  <2> QED BY <2>4, <2>5
<1>6. CASE /\ AppendJournal(journal, e)
           /\ namespace_count' = Indexed(e)
           /\ UNCHANGED <<status, durability>>
  <2>1. /\ journal' = Append(Truncated, e) /\ UNCHANGED snapshot
        /\ memory' = Merged(Loaded, e) /\ acknowledged' = Merged(Loaded, e)
        /\ UNCHANGED saving
    BY <1>1, <1>3, <1>6 DEF AppendJournal
  <2>2. /\ FilesOK' /\ Loaded' \in States
        /\ Readable' = DOMAIN journal' /\ Loaded' = Merged(Loaded, e)
        /\ Sound(Loaded', stamp + 1) /\ Covers(Loaded', Loaded)
    BY <1>1, <1>2, <1>4, <2>1, AppendKeeps
  <2> QED BY <1>1, <1>2, <1>5, <1>6, <2>1, <2>2, EndsOpen
<1>7. CASE \E whole \in {w \in BOOLEAN : (IF w THEN "whole" ELSE "torn") \in Faults} :
             journal' = Appending(journal, e, whole)
  BY <1>7
<1>8. CASE /\ \E whole \in BOOLEAN : journal' = Appending(journal, e, whole)
           /\ NewProcess
           /\ UNCHANGED <<snapshot, acknowledged>>
  <2>1. PICK w \in BOOLEAN : journal' = Appending(Truncated, e, w)
    BY <1>3, <1>8
  <2> QED BY <1>2, <1>4, <1>8, <2>1, DyingAppend
<1>9. CASE /\ SaveSnapshot(Merged(memory, e), "saving")
           /\ namespace_count' = Indexed(e)
           /\ UNCHANGED <<journal, durability, memory, acknowledged>>
  <2> DEFINE s == Merged(memory, e)
  <2>1. /\ status' = "saving" /\ snapshot' = s /\ saving' = s
        /\ UNCHANGED <<journal, durability, memory, acknowledged>>
    BY <1>9 DEF SaveSnapshot
  <2>2. Sound(memory, stamp)
    BY <1>1
  <2>3. /\ s \in States /\ Sound(s, stamp + 1) /\ Covers(s, memory)
        /\ \A r \in Routes : memory.routes[r] # None =>
             s.routes[r] # None /\ s.routes[r].generation >= memory.routes[r].generation
    BY <1>1, <1>2, <2>2, EntryMerged
  <2> HIDE DEF s
  <2> QED BY <1>1, <1>2, <1>5, <1>9, <2>1, <2>3, SaveKeeps
<1> QED BY <1>6, <1>7, <1>8, <1>9 DEF Persist

(* A recovery that resolves no attempt changes nothing.                      *)
LEMMA IdleRecovery ==
  ASSUME NEW s \in States, NEW n \in Nat, Sound(s, n), Recovery(s).attempts = NoAttempts
  PROVE  Merged(s, Recovery(s)) = s
<1> DEFINE e == Recovery(s)
           m == Merged(s, e)
<1>1. /\ e \in Frames /\ e.revocations = {} /\ e.attempts = NoAttempts
      /\ \A r \in Routes : e.routes[r] # None =>
           s.routes[r].waiting \in Attempts /\ e.attempts[s.routes[r].waiting] # None
  BY RecoveryEntry DEF IsEntry
<1> HIDE DEF e
<1>2. (\A a \in Attempts : e.attempts[a] = None) /\ \A r \in Routes : e.routes[r] = None
  BY <1>1, OnlyFields
<1>3. /\ m \in States /\ m.epoch = s.epoch
      /\ \A r \in Routes : m.routes[r] = s.routes[r]
      /\ \A a \in Attempts : m.attempts[a] = s.attempts[a]
      /\ m.revocations = s.revocations \cup e.revocations
  BY <1>1, <1>2, MergedFields
<1>4. m.revocations = s.revocations
  BY <1>1, <1>3
<1> HIDE DEF m
<1>5. m = s
  BY <1>3, <1>4, StatesEqual
<1> QED BY <1>5 DEF m, e

(* Open.                                                                     *)
LEMMA OpenKeeps ==
  ASSUME StoreTypeOK, StoreInv, Open
  PROVE  StepKeeps
<1> DEFINE e == Recovery(Loaded)
           recovered == Merged(Loaded, e)
           idle == e.attempts = NoAttempts
           Filled == /\ memory' = recovered
                     /\ namespace_count' = namespace_count
                                             + Cardinality(Present(Loaded.routes))
                     /\ UNCHANGED <<durability, stamp>>
<1>1. /\ FilesOK /\ Sound(Loaded, stamp) /\ durability \in Modes
      /\ saving \in States \cup {None} /\ namespace_count \in Nat
  BY DEF StoreTypeOK, StoreInv, FilesOK
<1>2. stamp \in Nat /\ stamp \in 0..MaxStamp /\ stamp <= stamp /\ stamp <= MaxStamp
  BY StoreAssumption DEF StoreTypeOK
<1>3. Loaded \in States
  BY <1>1, LoadFactsHold DEF LoadFacts, LoadedFields
<1>4. IsEntry(Loaded, e, stamp)
  BY <1>1, <1>2, <1>3, RecoveryEntry
<1>5. e \in Frames /\ e.whole = TRUE /\ Fits(Loaded, e, stamp)
  BY <1>4 DEF IsEntry
<1>6. idle => recovered = Loaded
  BY <1>1, <1>2, <1>3, IdleRecovery
<1>7. /\ recovered \in States /\ Sound(recovered, stamp) /\ Covers(recovered, Loaded)
      /\ \A r \in Routes : Loaded.routes[r] # None =>
           /\ recovered.routes[r] # None
           /\ recovered.routes[r].generation >= Loaded.routes[r].generation
  BY <1>1, <1>2, <1>3, <1>4, EntryMerged
<1>8. namespace_count + Cardinality(Present(Loaded.routes)) \in Nat
  <2>1. Loaded.routes \in [Routes -> Records \cup {None}]
    BY <1>3 DEF States
  <2>2. Cardinality(Present(Loaded.routes)) \in Nat
    BY <2>1, PresentFinite
  <2> QED BY <1>1, <2>2
<1>9. /\ status = "closed"
      /\ \/ /\ Filled
            /\ status' = "open"
            /\ journal' = IF idle THEN Truncated ELSE Append(Truncated, e)
            /\ acknowledged' = recovered
            /\ UNCHANGED <<snapshot, saving>>
         \/ /\ Filled
            /\ SaveSnapshot(recovered, "opening")
            /\ journal' = Truncated
            /\ UNCHANGED acknowledged
         \/ /\ NewProcess
            /\ \E whole \in BOOLEAN : journal' = Appending(Truncated, e, whole)
            /\ UNCHANGED <<snapshot, acknowledged, stamp>>
         \/ /\ Filled
            /\ status' = "closed"
            /\ journal' = Truncated
            /\ UNCHANGED <<snapshot, saving, acknowledged>>
  BY DEF Open
<1> HIDE DEF e, recovered, idle
<1>10. CASE /\ Filled
            /\ status' = "open"
            /\ journal' = IF idle THEN Truncated ELSE Append(Truncated, e)
            /\ acknowledged' = recovered
            /\ UNCHANGED <<snapshot, saving>>
  <2>1. CASE idle
    <3>1. /\ FilesOK' /\ Readable' = DOMAIN journal'
          /\ Loaded' = Loaded
      BY <1>1, <1>10, <2>1, TruncateKeeps
    <3>2. Covers(Loaded, Loaded)
      BY <1>3, CoversItself
    <3> QED BY <1>1, <1>2, <1>3, <1>6, <1>8, <1>10, <2>1, <3>1, <3>2, EndsOpen
  <2>2. CASE ~idle
    <3>1. /\ FilesOK' /\ Readable' = DOMAIN journal'
          /\ Loaded' \in States /\ Loaded' = Merged(Loaded, e)
          /\ Sound(Loaded', stamp) /\ Covers(Loaded', Loaded)
      BY <1>1, <1>2, <1>5, <1>10, <2>2, AppendKeeps
    <3>2. Loaded' = recovered
      BY <3>1 DEF recovered
    <3> QED BY <1>1, <1>2, <1>8, <1>10, <3>1, <3>2, EndsOpen
  <2> QED BY <2>1, <2>2
<1>11. CASE /\ Filled
            /\ SaveSnapshot(recovered, "opening")
            /\ journal' = Truncated
            /\ UNCHANGED acknowledged
  <2>1. /\ status' = "opening" /\ snapshot' = recovered /\ saving' = recovered
    BY <1>11 DEF SaveSnapshot
  <2>2. /\ FilesOK' /\ Loaded' \in States
        /\ Sound(Loaded', stamp) /\ Covers(Loaded', Loaded) /\ Covers(recovered, Loaded')
    BY <1>1, <1>2, <1>7, <1>11, <2>1, RenameKeeps
  <2> QED BY <1>1, <1>2, <1>3, <1>7, <1>8, <1>11, <2>1, <2>2, EndsSaving
<1>12. CASE /\ NewProcess
            /\ \E whole \in BOOLEAN : journal' = Appending(Truncated, e, whole)
            /\ UNCHANGED <<snapshot, acknowledged, stamp>>
  BY <1>2, <1>4, <1>12, DyingAppend
<1>13. CASE /\ Filled
            /\ status' = "closed"
            /\ journal' = Truncated
            /\ UNCHANGED <<snapshot, saving, acknowledged>>
  <2>1. FilesOK' /\ Loaded' = Loaded
    BY <1>1, <1>13, TruncateKeeps
  <2>2. Covers(Loaded, Loaded)
    BY <1>3, CoversItself
  <2> QED BY <1>1, <1>2, <1>3, <1>7, <1>8, <1>13, <2>1, <2>2, EndsClosed
<1> QED BY <1>9, <1>10, <1>11, <1>12, <1>13

(* The removal of the journal.                                               *)
LEMMA RemoveKeeps ==
  ASSUME StoreTypeOK, StoreInv, Faults \subseteq {"refused"}, RemoveJournal
  PROVE  StepKeeps
<1>1. /\ saving \in States /\ snapshot = saving /\ Sound(saving, stamp)
      /\ Covers(saving, Loaded)
  BY DEF StoreTypeOK, StoreInv, SavingInStep, RemoveJournal
<1>2. /\ journal' = <<>> /\ snapshot' = saving /\ memory' = saving
      /\ acknowledged' = saving /\ saving' = None /\ status' = "open"
      /\ UNCHANGED <<durability, namespace_count, stamp>>
  BY <1>1 DEF RemoveJournal
<1>3. FilesOK'
  BY <1>1, <1>2 DEF FilesOK
<1>4. Loaded' = saving
  BY <1>1, <1>2, <1>3, LoadEmpty
<1>5. Readable' = DOMAIN journal'
  BY <1>2 DEF Readable
<1>6. /\ durability' \in Modes /\ saving' \in States \cup {None}
      /\ namespace_count' \in Nat /\ stamp' \in 0..MaxStamp
  BY <1>2 DEF StoreTypeOK
<1> QED BY <1>1, <1>2, <1>3, <1>4, <1>5, <1>6, EndsOpen

(* The tables of the next epoch.                                             *)
LEMMA EpochAdvanced ==
  ASSUME NEW s \in States, s.epoch < MaxEpoch
  PROVE  LET t == [s EXCEPT !.epoch = @ + 1]
         IN /\ t \in States /\ t.epoch = s.epoch + 1 /\ t.routes = s.routes
            /\ t.attempts = s.attempts /\ t.revocations = s.revocations
<1>1. s.epoch \in 1..MaxEpoch
  BY DEF States
<1>2. s.epoch + 1 \in 1..MaxEpoch
  BY <1>1, StoreAssumption
<1> QED BY <1>2 DEF States

(* AdvanceEpoch and Compact save the tables without an entry.                *)
LEMMA ResaveKeeps ==
  ASSUME StoreTypeOK, StoreInv, status = "open",
         NEW t \in States, t.epoch >= memory.epoch, t.routes = memory.routes,
         t.attempts = memory.attempts, t.revocations = memory.revocations,
         SaveSnapshot(t, "saving"),
         UNCHANGED <<journal, durability, memory, namespace_count, stamp, acknowledged>>
  PROVE  StepKeeps
<1>1. /\ memory \in States /\ Sound(memory, stamp) /\ namespace_count \in Nat
  BY DEF StoreTypeOK, StoreInv, OpenInStep
<1>2. stamp \in Nat /\ stamp' \in 0..MaxStamp /\ stamp' >= stamp /\ stamp' = stamp
  BY StoreAssumption DEF StoreTypeOK
<1>3. Sound(t, stamp)
  BY <1>1 DEF Sound
<1>4. Covers(t, memory)
  <2>1. Covers(memory, memory)
    BY <1>1, CoversItself
  <2> QED BY <2>1, CoversFields DEF AttemptCovered, RouteCovered
<1>5. \A r \in Routes : memory.routes[r] # None => memory.routes[r].generation \in Nat
  BY <1>1, StateFields
<1>6. status' = "saving" /\ snapshot' = t /\ saving' = t
  BY DEF SaveSnapshot
<1>7. \A r \in Routes : memory.routes[r] # None =>
        t.routes[r] # None /\ t.routes[r].generation >= memory.routes[r].generation
  BY <1>5
<1>8. /\ namespace_count' \in Nat /\ Sound(t, stamp')
      /\ UNCHANGED <<journal, memory, durability, acknowledged>>
      /\ \A a \in Attempts : t.attempts[a] = memory.attempts[a]
  BY <1>1, <1>2, <1>3
<1> QED BY <1>2, <1>4, <1>6, <1>7, <1>8, SaveKeeps

(* Every mutation persists an entry of the tables it works on.               *)
LEMMA MutationEntry ==
  ASSUME StoreTypeOK, StoreInv, "reused" \notin Faults,
         \/ \E r \in Routes, a \in Attempts : StartAttempt(r, a)
         \/ \E a \in Attempts : CompleteAttempt(a)
         \/ \E r \in Routes : ReviseRoute(r) \/ RevokeRoute(r) \/ ReconcileRoute(r)
  PROVE  \E e : IsEntry(memory, e, stamp + 1) /\ Persist(e)
<1>1. /\ memory \in States /\ stamp \in Nat
      /\ status = "open" => Sound(memory, stamp)
  BY StoreAssumption DEF StoreTypeOK, StoreInv, OpenInStep
<1>2. \A e : Persist(e) => status = "open" /\ stamp < MaxStamp
  BY DEF Persist
<1>3. ASSUME NEW r \in Routes, NEW a \in Attempts, StartAttempt(r, a)
      PROVE  \E e : IsEntry(memory, e, stamp + 1) /\ Persist(e)
  <2> DEFINE at == [route |-> r, epoch |-> memory.epoch, resolved |-> FALSE]
  <2>1. PICK rec \in Programmed(r, a) : Persist(Entry(OnlyRoute(r, rec), OnlyAttempt(a, at), {}))
    BY <1>3 DEF StartAttempt
  <2>2. memory.attempts[a] = None
    BY <1>3 DEF StartAttempt, FreshAttempt
  <2>3. status = "open" /\ stamp < MaxStamp
    BY <1>2, <2>1
  <2>4. NextVersion(r, rec) /\ rec.waiting = a
    BY <1>1, <2>3, ProgrammedRecord
  <2>5. at = [route |-> r, epoch |-> memory.epoch, resolved |-> FALSE]
    OBVIOUS
  <2> HIDE DEF at
  <2>6. IsEntry(memory, Entry(OnlyRoute(r, rec), OnlyAttempt(a, at), {}), stamp + 1)
    BY <1>1, <2>2, <2>3, <2>4, <2>5, StartEntry
  <2> QED BY <2>1, <2>6
<1>4. ASSUME NEW a \in Attempts, CompleteAttempt(a)
      PROVE  \E e : IsEntry(memory, e, stamp + 1) /\ Persist(e)
  <2> DEFINE r == memory.attempts[a].route
             at == [memory.attempts[a] EXCEPT !.resolved = TRUE]
             update == Version(memory.routes[r].generation, None)
             rs == IF Takes(a) THEN OnlyRoute(r, update) ELSE NoRoutes
  <2>1. memory.attempts[a] # None /\ Persist(Entry(rs, OnlyAttempt(a, at), {}))
    BY <1>4 DEF CompleteAttempt
  <2>2. status = "open" /\ stamp < MaxStamp
    BY <1>2, <2>1
  <2>3. /\ r = memory.attempts[a].route
        /\ at = [memory.attempts[a] EXCEPT !.resolved = TRUE]
        /\ rs \in {OnlyRoute(r, Version(memory.routes[r].generation, None)), NoRoutes}
    OBVIOUS
  <2> HIDE DEF r, at, rs
  <2>4. IsEntry(memory, Entry(rs, OnlyAttempt(a, at), {}), stamp + 1)
    BY <1>1, <2>1, <2>2, <2>3, CompleteEntry
  <2> QED BY <2>1, <2>4
<1>5. ASSUME NEW r \in Routes, ReviseRoute(r) \/ RevokeRoute(r) \/ ReconcileRoute(r)
      PROVE  \E e : IsEntry(memory, e, stamp + 1) /\ Persist(e)
  <2> DEFINE again == Version(memory.routes[r].generation, memory.routes[r].waiting)
  <2>0. memory.routes[r] # None
    BY <1>5 DEF ReviseRoute, RevokeRoute, ReconcileRoute
  <2>1. PICK rec \in Revised(r, None) \cup {again}, rv \in SUBSET Routes :
          Persist(Entry(OnlyRoute(r, rec), NoAttempts, rv))
    <3>1. CASE ReviseRoute(r) \/ RevokeRoute(r)
      BY <3>1 DEF ReviseRoute, RevokeRoute
    <3>2. CASE ReconcileRoute(r)
      <4>1. Persist(Entry(OnlyRoute(r, again), NoAttempts, {}))
        BY <3>2 DEF ReconcileRoute
      <4> HIDE DEF again
      <4> QED BY <4>1
    <3> QED BY <1>5, <3>1, <3>2
  <2>2. status = "open" /\ stamp < MaxStamp
    BY <1>2, <2>1
  <2>3. NextVersion(r, rec) /\ rec.waiting \in {None, memory.routes[r].waiting}
    <3>1. CASE rec \in Revised(r, None)
      BY <1>1, <2>0, <2>2, <3>1, RevisedRecord
    <3>2. CASE rec = again
      <4>1. memory.routes[r] \in Records
        BY <1>1, <2>0, StateFields
      <4>2. /\ memory.routes[r].generation \in 1..MaxGeneration
            /\ memory.routes[r].waiting \in Attempts \cup {None}
        BY <4>1 DEF Records
      <4>3. memory.routes[r].generation >= memory.routes[r].generation
        BY <4>2, StoreAssumption
      <4> QED BY <1>1, <2>2, <3>2, <4>2, <4>3, VersionRecord
    <3> QED BY <2>1, <3>1, <3>2
  <2>4. IsEntry(memory, Entry(OnlyRoute(r, rec), NoAttempts, rv), stamp + 1)
    BY <1>1, <2>0, <2>2, <2>3, RecordEntry
  <2> QED BY <2>1, <2>4
<1> QED BY <1>3, <1>4, <1>5

(* Every step.                                                               *)
LEMMA NextKeeps ==
  ASSUME StoreTypeOK, StoreInv, Faults \subseteq {"refused"}, Next
  PROVE  StepKeeps
<1>1. memory \in States /\ FilesOK
  BY DEF StoreTypeOK, FilesOK
<1>2. ASSUME \/ \E r \in Routes, a \in Attempts : StartAttempt(r, a)
             \/ \E a \in Attempts : CompleteAttempt(a)
             \/ \E r \in Routes : ReviseRoute(r) \/ RevokeRoute(r) \/ ReconcileRoute(r)
      PROVE  StepKeeps
  BY <1>2, MutationEntry, PersistKeeps
<1>3. ASSUME AdvanceEpoch PROVE StepKeeps
  <2> DEFINE t == [memory EXCEPT !.epoch = @ + 1]
  <2>1. /\ status = "open" /\ memory.epoch < MaxEpoch /\ SaveSnapshot(t, "saving")
        /\ UNCHANGED <<journal, durability, memory, namespace_count, stamp, acknowledged>>
    BY <1>3 DEF AdvanceEpoch
  <2>2. /\ t \in States /\ t.epoch = memory.epoch + 1 /\ t.routes = memory.routes
        /\ t.attempts = memory.attempts /\ t.revocations = memory.revocations
    BY <1>1, <2>1, EpochAdvanced
  <2> HIDE DEF t
  <2>3. t.epoch >= memory.epoch
    BY <1>1, <2>2, StateFields
  <2> QED BY <2>1, <2>2, <2>3, ResaveKeeps
<1>4. ASSUME Compact PROVE StepKeeps
  <2>1. memory.epoch >= memory.epoch
    BY <1>1, StateFields
  <2>2. /\ status = "open" /\ SaveSnapshot(memory, "saving") /\ memory \in States
        /\ UNCHANGED <<journal, durability, memory, namespace_count, stamp, acknowledged>>
    BY <1>1, <1>4 DEF Compact, StoreTypeOK
  <2> QED BY <2>1, <2>2, ResaveKeeps
<1>5. ASSUME Crash PROVE StepKeeps
  <2>1. /\ UNCHANGED <<snapshot, journal, stamp, acknowledged>>
        /\ status' = "closed" /\ durability' \in Modes /\ memory' \in States
        /\ saving' \in States \cup {None} /\ namespace_count' \in Nat
    BY <1>5, EmptyType DEF Crash, NewProcess
  <2>2. FilesOK' /\ Loaded' = Loaded
    <3>1. FilesOK'
      BY <1>1, <2>1 DEF FilesOK, StoreInv
    <3>2. Readable' = Readable /\ Base' = Base
      BY <2>1 DEF Readable, Base
    <3>3. Loaded' = Loaded
      BY <2>1, <3>2 DEF Loaded, LoadedEpoch, LoadedRoute, LoadedAttempt, RouteAt,
                        AttemptAt, Beats
    <3> QED BY <3>1, <3>3
  <2>3. Loaded \in States /\ Sound(Loaded, stamp) /\ stamp' \in 0..MaxStamp
    BY <1>1, <2>1, LoadFactsHold DEF LoadFacts, LoadedFields, StoreInv, StoreTypeOK
  <2>4. Covers(Loaded, Loaded)
    BY <2>3, CoversItself
  <2> QED BY <2>1, <2>2, <2>3, <2>4, EndsClosed
<1> QED BY <1>2, <1>3, <1>4, <1>5, RemoveKeeps, OpenKeeps DEF Next

(* Before the first process the files stand for the empty state.             *)
LEMMA InitKeeps ==
  ASSUME Init
  PROVE  StoreTypeOK /\ StoreInv /\ Loaded = EmptyState
<1>1. FilesOK /\ journal = <<>> /\ Base = EmptyState
  BY DEF Init, FilesOK, Base
<1>2. Loaded = EmptyState
  BY <1>1, LoadBase
<1>3. StoreTypeOK
  BY EmptyType, StoreAssumption DEF Init, StoreTypeOK
<1>4. Sound(EmptyState, stamp)
  BY DEF Sound, EmptyState, NoRoutes, NoAttempts
<1>5. Covers(EmptyState, EmptyState)
  BY EmptyType, CoversItself
<1>6. OpenInStep /\ SavingInStep
  BY DEF Init, OpenInStep, SavingInStep
<1>7. acknowledged = EmptyState
  BY DEF Init
<1> QED BY <1>2, <1>3, <1>4, <1>5, <1>6, <1>7 DEF StoreInv

(* A stuttering step reads the same files.                                   *)
LEMMA StutterKeeps ==
  ASSUME StoreTypeOK, StoreInv, UNCHANGED vars
  PROVE  StoreTypeOK' /\ StoreInv' /\ Loaded' = Loaded
<1>1. Loaded' = Loaded /\ Readable' = Readable
  BY DEF vars, Loaded, LoadedEpoch, LoadedRoute, LoadedAttempt, Readable, Base, RouteAt,
         AttemptAt, Beats
<1>2. StoreTypeOK'
  BY DEF vars, StoreTypeOK
<1>4. OpenInStep' /\ SavingInStep'
  BY <1>1 DEF vars, StoreInv, OpenInStep, SavingInStep
<1>5. Sound(Loaded, stamp)' /\ Covers(Loaded, acknowledged)'
  <2>1. stamp' = stamp /\ acknowledged' = acknowledged
    BY DEF vars
  <2> QED BY <1>1, <2>1 DEF StoreInv
<1> QED BY <1>1, <1>2, <1>4, <1>5 DEF StoreInv

LEMMA StoreInvariant ==
  ASSUME Faults \subseteq {"refused"}
  PROVE  Spec => [](StoreTypeOK /\ StoreInv)
<1>1. Init => StoreTypeOK /\ StoreInv
  BY InitKeeps
<1>2. StoreTypeOK /\ StoreInv /\ [Next]_vars => (StoreTypeOK /\ StoreInv)'
  BY NextKeeps, StutterKeeps DEF StepKeeps
<1> QED BY <1>1, <1>2, PTL DEF Spec

(* Type correctness: generations, epochs and stamps stay within their        *)
(* counters, a saved snapshot and every frame of the journal are well        *)
(* formed, whatever crashes come between two file operations.                *)
THEOREM StoreTypeCorrect ==
  ASSUME Faults \subseteq {"refused"}
  PROVE  Spec => []StoreTypeOK
BY StoreInvariant, PTL

(* Whatever persist acknowledged, Load brings back (persistence.cpp, Load;   *)
(* runtime.cpp, Impl::persist): at every moment a process can end, the       *)
(* snapshot and the readable journal hold it or something more recent.  A    *)
(* process that lives on after a failed append or a failed removal of the    *)
(* journal is excluded: the run lost_append shows that it loses mutations.   *)
THEOREM AcknowledgedAlwaysSurvives ==
  ASSUME Faults \subseteq {"refused"}
  PROVE  Spec => []AcknowledgedSurvives
<1>1. StoreInv => AcknowledgedSurvives
  BY DEF StoreInv, AcknowledgedSurvives
<1> QED BY <1>1, StoreInvariant, PTL

(* The snapshot, the journal and their replay implement the abstract store:  *)
(* the state a restart begins from only moves forward, and a restart         *)
(* continues from it.                                                        *)
THEOREM StoreImplementsDurable ==
  ASSUME Faults \subseteq {"refused"}
  PROVE  Spec => ImplementsDurableStore
<1>1. Init => Durable!Init
  BY InitKeeps DEF Init, Durable!Init, Working
<1>2. ASSUME StoreTypeOK, StoreInv, [Next]_vars
      PROVE  [Durable!Next]_(Durable!vars)
  <2>1. CASE UNCHANGED vars
    <3>1. Loaded' = Loaded /\ Working' = Working
      BY <1>2, <2>1, StutterKeeps DEF vars, Working
    <3> QED BY <3>1 DEF Durable!vars
  <2>2. CASE Next
    <3>1. StepKeeps
      BY <1>2, <2>2, NextKeeps
    <3>2. Loaded' \in States /\ Covers(Loaded', Loaded)
      <4>1. FilesOK'
        BY <3>1 DEF StepKeeps, StoreTypeOK, FilesOK
      <4> QED BY <3>1, <4>1, LoadFactsHoldNext DEF StepKeeps, LoadFacts, LoadedFields
    <3>3. acknowledged # None /\ acknowledged' # None
      BY <1>2, <3>1, StateAssumption DEF StepKeeps, StoreTypeOK
    <3>4. CASE status' = "open"
      <4>1. Working' = Loaded'
        BY <3>1, <3>4 DEF StepKeeps, StoreInv, OpenInStep, Working
      <4> QED BY <3>2, <4>1 DEF Durable!Next, Durable!Write, Durable!Restart
    <3>5. CASE status' = "saving"
      <4>1. Working' = Working /\ Working # None
        BY <3>1, <3>3, <3>5 DEF StepKeeps, Working
      <4> QED BY <3>2, <4>1 DEF Durable!Next, Durable!Write
    <3>6. CASE status' \notin {"open", "saving"}
      <4>1. Working' = None
        BY <3>6 DEF Working
      <4> QED BY <3>2, <4>1 DEF Durable!Next, Durable!Crash, Durable!Restart
    <3> QED BY <3>4, <3>5, <3>6
  <2> QED BY <1>2, <2>1, <2>2
<1> QED BY <1>1, <1>2, StoreInvariant, PTL DEF Spec, ImplementsDurableStore, Durable!Spec

-----------------------------------------------------------------------------
(* What a stored record waits for is stored.                                 *)

Waits(rec) == rec # None /\ rec.waiting # None

\* Every record of state s that waits has its attempt in state t.
WaitsIn(s, t) ==
  \A r \in Routes : Waits(s.routes[r]) => Known(t, s.routes[r].waiting, r)

\* Not only the records that prevail: the attempt of every record that Load reads
\* is loaded, so whichever record is uncovered next has its attempt.
WaitInv ==
  \A i \in {0} \cup Readable, r \in Routes :
    Waits(RouteAt(i, r)) => Known(Loaded, RouteAt(i, r).waiting, r)

LEMMA WaitLoaded ==
  ASSUME FilesOK, WaitInv
  PROVE  WaitsIn(Loaded, Loaded)
<1> SUFFICES ASSUME NEW r \in Routes, Waits(Loaded.routes[r])
             PROVE  Known(Loaded, Loaded.routes[r].waiting, r)
  BY DEF WaitsIn
<1>1. LoadsRoute(r) /\ Loaded.routes[r] = LoadedRoute(r)
  BY LoadFactsHold DEF LoadFacts, LoadedFields
<1>2. PICK i \in {0} \cup Readable : Loaded.routes[r] = RouteAt(i, r)
  BY <1>1 DEF LoadsRoute, Waits
<1> QED BY <1>2 DEF WaitInv

(* An attempt stays with its route in every later state.                     *)
LEMMA KnownStays ==
  ASSUME NEW s \in States, NEW t \in States, Covers(t, s),
         NEW a \in Attempts, NEW r \in Routes, Known(s, a, r)
  PROVE  Known(t, a, r)
<1>1. s.attempts[a] \in AttemptRecords /\ t.attempts[a] \in AttemptRecords \cup {None}
  BY StateFields DEF Known
<1>2. AttemptCovered(t, s, a)
  BY CoversFields
<1>3. CASE t.attempts[a] = s.attempts[a]
  BY <1>3 DEF Known
<1>4. CASE t.attempts[a] = [s.attempts[a] EXCEPT !.resolved = TRUE]
  <2>1. t.attempts[a] \in AttemptRecords /\ t.attempts[a].route = s.attempts[a].route
    BY <1>1, <1>4, ResolvedAttempt
  <2> QED BY <2>1, RecordAssumption DEF Known
<1> QED BY <1>2, <1>3, <1>4 DEF AttemptCovered, Known

(* The tables after a mutation, and the records of its entry.                *)
LEMMA MergeWaits ==
  ASSUME NEW s \in States, NEW e, NEW k \in Nat, NEW n \in Nat, k <= n,
         Sound(s, k), IsEntry(s, e, n), WaitsIn(s, s)
  PROVE  WaitsIn(e, Merged(s, e)) /\ WaitsIn(Merged(s, e), Merged(s, e))
<1> DEFINE m == Merged(s, e)
<1>1. e \in Frames /\ m \in States /\ Covers(m, s)
  BY EntryMerged DEF IsEntry
<1>2. /\ \A r \in Routes : m.routes[r] = IF e.routes[r] # None THEN e.routes[r] ELSE s.routes[r]
      /\ \A a \in Attempts :
           m.attempts[a] = IF e.attempts[a] # None THEN e.attempts[a] ELSE s.attempts[a]
  BY <1>1, MergedFields
<1>3. /\ \A r \in Routes : Waits(e.routes[r]) => e.routes[r].waiting \in Attempts
      /\ \A r \in Routes : Waits(s.routes[r]) => s.routes[r].waiting \in Attempts
  <2>1. \A rec \in Records \cup {None} : Waits(rec) => rec.waiting \in Attempts
    BY DEF Waits, Records
  <2>2. \A r \in Routes : e.routes[r] \in Records \cup {None} /\ s.routes[r] \in Records \cup {None}
    BY <1>1 DEF Frames, States
  <2> QED BY <2>1, <2>2
<1> HIDE DEF m
<1>4. ASSUME NEW r \in Routes, Waits(s.routes[r])
      PROVE  Known(m, s.routes[r].waiting, r)
  <2>1. Known(s, s.routes[r].waiting, r) /\ s.routes[r].waiting \in Attempts
    BY <1>3, <1>4 DEF WaitsIn
  <2> QED BY <1>1, <2>1, KnownStays
<1>5. ASSUME NEW r \in Routes, Waits(e.routes[r])
      PROVE  Known(m, e.routes[r].waiting, r)
  <2>1. CASE s.routes[r] # None /\ e.routes[r].waiting = s.routes[r].waiting
    BY <1>4, <1>5, <2>1 DEF Waits
  <2>2. CASE Known(e, e.routes[r].waiting, r)
    BY <1>2, <1>3, <1>5, <2>2 DEF Known
  <2> QED BY <1>5, <2>1, <2>2 DEF IsEntry, EntryWaits, Waits
<1>6. WaitsIn(e, m)
  BY <1>5 DEF WaitsIn
<1>7. WaitsIn(m, m)
  <2> SUFFICES ASSUME NEW r \in Routes, Waits(m.routes[r])
               PROVE  Known(m, m.routes[r].waiting, r)
    BY DEF WaitsIn
  <2>1. CASE e.routes[r] # None
    BY <1>2, <1>5, <2>1
  <2>2. CASE e.routes[r] = None
    BY <1>2, <1>4, <2>2
  <2> QED BY <2>1, <2>2
<1> QED BY <1>6, <1>7 DEF m

(* A step of the files: what Load reads then it read before, or its attempt  *)
(* is loaded.                                                                *)
LEMMA FilesWait ==
  ASSUME FilesOK, WaitInv, Loaded' \in States, Covers(Loaded', Loaded),
         \A i \in ({0} \cup Readable)', r \in Routes :
           \/ i \in {0} \cup Readable /\ RouteAt(i, r)' = RouteAt(i, r)
           \/ Waits(RouteAt(i, r)') => Known(Loaded', RouteAt(i, r)'.waiting, r)
  PROVE  WaitInv'
<1> SUFFICES ASSUME NEW i \in ({0} \cup Readable)', NEW r \in Routes, Waits(RouteAt(i, r)')
             PROVE  Known(Loaded', RouteAt(i, r)'.waiting, r)
  BY DEF WaitInv, Waits, Known
<1>1. CASE i \in {0} \cup Readable /\ RouteAt(i, r)' = RouteAt(i, r)
  <2>1. RouteAt(i, r) \in Records \cup {None} /\ Loaded \in States
    BY <1>1, LoadFactsHold DEF LoadFacts, LoadedFields
  <2>2. RouteAt(i, r).waiting \in Attempts
    BY <1>1, <2>1 DEF Waits, Records
  <2>3. Known(Loaded, RouteAt(i, r).waiting, r)
    BY <1>1 DEF WaitInv
  <2>4. Known(Loaded', RouteAt(i, r).waiting, r)
    BY <2>1, <2>2, <2>3, KnownStays
  <2> QED BY <1>1, <2>4
<1> QED BY <1>1

(* The journal is truncated, or nothing is written.                          *)
LEMMA WaitSame ==
  ASSUME FilesOK, WaitInv, UNCHANGED snapshot, journal' \in {journal, Truncated}
  PROVE  WaitInv'
<1>1. PICK n \in Nat : KeepsFrames(n) /\ Readable' = Readable /\ FilesOK'
  BY SameReads DEF FilesOK
<1>2. /\ \A i \in {0} \cup Readable, r \in Routes : RouteAt(i, r)' = RouteAt(i, r)
      /\ Loaded' = Loaded
  BY <1>1, KeptFrames, LoadSame DEF KeepsFrames
<1>3. Loaded \in States
  BY LoadFactsHold DEF LoadFacts, LoadedFields
<1>4. Covers(Loaded, Loaded)
  BY <1>3, CoversItself
<1> QED BY <1>1, <1>2, <1>3, <1>4, FilesWait

(* An entry is appended, whole or in part.                                   *)
LEMMA WaitAppend ==
  ASSUME FilesOK, WaitInv, NEW k \in Nat, NEW n \in Nat, k <= n, Sound(Loaded, k),
         NEW e, IsEntry(Loaded, e, n), NEW w \in BOOLEAN,
         UNCHANGED snapshot, journal' = Appending(Truncated, e, w)
  PROVE  WaitInv'
<1> DEFINE f == [e EXCEPT !.whole = w]
<1>1. e \in Frames /\ e.whole = TRUE /\ Fits(Loaded, e, n)
  BY DEF IsEntry
<1>2. f \in Frames /\ f.whole = w /\ (w => f = e)
  BY <1>1, PartFields
<1>3. journal' = Append(Truncated, f)
  BY DEF Appending
<1> HIDE DEF f
<1>4. PICK m \in Nat : /\ KeepsFrames(m) /\ journal'[m + 1] = f
                       /\ w => Readable' = 1..(m + 1)
                       /\ ~w => Readable' = Readable
  BY <1>2, <1>3, AppendReads
<1>5. Loaded \in States /\ Readable = 1..m
  BY <1>4, LoadFactsHold DEF LoadFacts, LoadedFields, KeepsFrames
<1>6. CASE ~w
  <2>1. FilesOK' /\ Loaded' = Loaded
    BY <1>2, <1>3, <1>6, TornKeeps
  <2>2. \A i \in {0} \cup Readable, r \in Routes : RouteAt(i, r)' = RouteAt(i, r)
    BY <1>4, <1>5, <2>1, KeptFrames
  <2>3. Covers(Loaded, Loaded)
    BY <1>5, CoversItself
  <2> QED BY <1>4, <1>5, <1>6, <2>1, <2>2, <2>3, FilesWait
<1>7. CASE w
  <2>1. /\ FilesOK' /\ Loaded' \in States /\ Loaded' = Merged(Loaded, e)
        /\ Covers(Loaded', Loaded)
    BY <1>1, <1>2, <1>3, <1>7, AppendKeeps
  <2>2. \A i \in {0} \cup Readable, r \in Routes : RouteAt(i, r)' = RouteAt(i, r)
    BY <1>4, <1>5, <2>1, KeptFrames
  <2>3. \A r \in Routes : RouteAt(m + 1, r)' = e.routes[r]
    BY <1>2, <1>4, <1>7 DEF RouteAt
  <2>4. WaitsIn(e, Loaded')
    BY <1>5, <2>1, WaitLoaded, MergeWaits
  <2>5. \A i \in ({0} \cup Readable)' : i \in {0} \cup Readable \/ i = m + 1
    BY <1>4, <1>5, <1>7
  <2> QED BY <2>1, <2>2, <2>3, <2>4, <2>5, FilesWait DEF WaitsIn
<1> QED BY <1>6, <1>7

(* A snapshot is renamed over a journal that stays.                          *)
LEMMA WaitRename ==
  ASSUME FilesOK, WaitInv, FilesOK', NEW s \in States, snapshot' = s,
         journal' \in {journal, Truncated}, WaitsIn(s, s),
         Covers(s, Loaded'), Covers(Loaded', Loaded)
  PROVE  WaitInv'
<1>1. PICK n \in Nat : KeepsFrames(n) /\ Readable' = Readable
  BY SameReads
<1>2. LoadFacts' /\ Loaded' \in States
  BY LoadFactsHoldNext DEF LoadFacts, LoadedFields
<1>3. \A i \in Readable, r \in Routes : RouteAt(i, r)' = RouteAt(i, r)
  BY <1>1, KeptFrames DEF KeepsFrames
<1>4. Base' = s
  BY StateAssumption DEF Base
<1>5. /\ \A r \in Routes : RouteAt(0, r)' = s.routes[r]
      /\ \A a \in Attempts : AttemptAt(0, a)' = s.attempts[a]
  BY <1>4 DEF RouteAt, AttemptAt
<1>6. ASSUME NEW a \in Attempts, NEW r \in Routes, Known(s, a, r)
      PROVE  Known(Loaded', a, r)
  <2>1. LoadsAttempt(a)' /\ Loaded'.attempts[a] = LoadedAttempt(a)'
    BY <1>2 DEF LoadFacts, LoadedFields
  <2>2. Loaded'.attempts[a] # None
    BY <1>5, <1>6, <2>1 DEF LoadsAttempt, AttemptPrevails, Known
  <2>3. AttemptCovered(s, Loaded', a)
    BY CoversFields
  <2>4. Loaded'.attempts[a] \in AttemptRecords
    BY <1>2, <2>2, StateFields
  <2>5. s.attempts[a].route = Loaded'.attempts[a].route
    BY <2>2, <2>3, <2>4, ResolvedAttempt DEF AttemptCovered
  <2> QED BY <1>6, <2>2, <2>5 DEF Known
<1>7. ASSUME NEW r \in Routes, Waits(s.routes[r])
      PROVE  Known(Loaded', s.routes[r].waiting, r)
  <2>1. s.routes[r].waiting \in Attempts
    BY <1>7, StateFields DEF Waits
  <2> QED BY <1>6, <1>7, <2>1 DEF WaitsIn
<1> QED BY <1>1, <1>2, <1>3, <1>5, <1>7, FilesWait

(* persist of a mutation.                                                    *)
LEMMA PersistWaits ==
  ASSUME StoreTypeOK, StoreInv, WaitInv, Faults \subseteq {"refused"}, StepKeeps,
         NEW e, IsEntry(memory, e, stamp + 1), Persist(e)
  PROVE  WaitInv'
<1>1. /\ FilesOK /\ FilesOK' /\ Sound(Loaded, stamp) /\ Loaded \in States
      /\ memory = Loaded /\ IsEntry(Loaded, e, stamp + 1) /\ Readable = DOMAIN journal
  BY LoadFactsHold
     DEF LoadFacts, LoadedFields, StepKeeps, StoreTypeOK, StoreInv, OpenInStep, FilesOK, Persist
<1>2. stamp \in Nat /\ stamp + 1 \in Nat /\ stamp <= stamp + 1
  BY StoreAssumption DEF StoreTypeOK
<1>3. Truncated = journal
  BY <1>1, OpenTruncated
<1>4. CASE UNCHANGED snapshot /\ \E w \in BOOLEAN : journal' = Appending(journal, e, w)
  BY <1>1, <1>2, <1>3, <1>4, WaitAppend
<1>5. CASE UNCHANGED snapshot /\ journal' = Append(journal, e)
  <2>1. [e EXCEPT !.whole = TRUE] = e
    BY <1>1, PartFields DEF IsEntry
  <2>2. journal' = Appending(journal, e, TRUE)
    BY <1>5, <2>1 DEF Appending
  <2> QED BY <1>4, <1>5, <2>2
<1>6. CASE SaveSnapshot(Merged(memory, e), "saving") /\ UNCHANGED journal
  <2> DEFINE s == Merged(Loaded, e)
  <2>1. status' = "saving" /\ snapshot' = s /\ saving' = s /\ UNCHANGED journal
    BY <1>1, <1>6 DEF SaveSnapshot
  <2>2. s \in States
    BY <1>1, <1>2, EntryMerged
  <2>3. WaitsIn(s, s)
    BY <1>1, <1>2, WaitLoaded, MergeWaits
  <2> HIDE DEF s
  <2>4. Covers(s, Loaded') /\ Covers(Loaded', Loaded)
    BY <2>1 DEF StepKeeps, StoreInv, SavingInStep
  <2> QED BY <1>1, <2>1, <2>2, <2>3, <2>4, WaitRename
<1> QED BY <1>4, <1>5, <1>6 DEF Persist, AppendJournal

(* AdvanceEpoch and Compact.                                                 *)
LEMMA ResaveWaits ==
  ASSUME StoreTypeOK, StoreInv, WaitInv, StepKeeps, status = "open",
         NEW t \in States, t.routes = memory.routes, t.attempts = memory.attempts,
         SaveSnapshot(t, "saving"), UNCHANGED journal
  PROVE  WaitInv'
<1>1. FilesOK /\ FilesOK' /\ memory = Loaded
  BY DEF StepKeeps, StoreTypeOK, StoreInv, OpenInStep, FilesOK
<1>2. WaitsIn(t, t)
  BY <1>1, WaitLoaded DEF WaitsIn, Known
<1>3. snapshot' = t /\ Covers(t, Loaded') /\ Covers(Loaded', Loaded)
  BY DEF StepKeeps, StoreInv, SavingInStep, SaveSnapshot
<1> QED BY <1>1, <1>2, <1>3, WaitRename

(* Open.                                                                     *)
LEMMA OpenWaits ==
  ASSUME StoreTypeOK, StoreInv, WaitInv, StepKeeps, Open
  PROVE  WaitInv'
<1> DEFINE e == Recovery(Loaded)
<1>1. /\ FilesOK /\ FilesOK' /\ Sound(Loaded, stamp) /\ Loaded \in States
  BY LoadFactsHold DEF LoadFacts, LoadedFields, StepKeeps, StoreTypeOK, StoreInv, FilesOK
<1>2. stamp \in Nat /\ stamp <= stamp
  BY StoreAssumption DEF StoreTypeOK
<1>3. IsEntry(Loaded, e, stamp)
  BY <1>1, <1>2, RecoveryEntry
<1>4. \/ UNCHANGED snapshot /\ journal' \in {Truncated, Append(Truncated, e)}
      \/ SaveSnapshot(Merged(Loaded, e), "opening") /\ journal' = Truncated
      \/ UNCHANGED snapshot /\ \E w \in BOOLEAN : journal' = Appending(Truncated, e, w)
  BY DEF Open
<1> HIDE DEF e
<1>5. CASE UNCHANGED snapshot /\ \E w \in BOOLEAN : journal' = Appending(Truncated, e, w)
  BY <1>1, <1>2, <1>3, <1>5, WaitAppend
<1>6. CASE UNCHANGED snapshot /\ journal' = Append(Truncated, e)
  <2>1. [e EXCEPT !.whole = TRUE] = e
    BY <1>3, PartFields DEF IsEntry
  <2>2. journal' = Appending(Truncated, e, TRUE)
    BY <1>6, <2>1 DEF Appending
  <2> QED BY <1>5, <1>6, <2>2
<1>7. CASE UNCHANGED snapshot /\ journal' = Truncated
  BY <1>1, <1>7, WaitSame
<1>8. CASE SaveSnapshot(Merged(Loaded, e), "opening") /\ journal' = Truncated
  <2> DEFINE s == Merged(Loaded, e)
  <2>1. status' = "opening" /\ snapshot' = s /\ saving' = s
    BY <1>8 DEF SaveSnapshot
  <2>2. s \in States
    BY <1>1, <1>2, <1>3, EntryMerged
  <2>3. WaitsIn(s, s)
    BY <1>1, <1>2, <1>3, WaitLoaded, MergeWaits
  <2> HIDE DEF s
  <2>4. Covers(s, Loaded') /\ Covers(Loaded', Loaded)
    BY <2>1 DEF StepKeeps, StoreInv, SavingInStep
  <2> QED BY <1>1, <1>8, <2>1, <2>2, <2>3, <2>4, WaitRename
<1> QED BY <1>4, <1>5, <1>6, <1>7, <1>8

LEMMA NextWaits ==
  ASSUME StoreTypeOK, StoreInv, WaitInv, Faults \subseteq {"refused"}, Next
  PROVE  WaitInv'
<1>1. StepKeeps
  BY NextKeeps
<1>2. FilesOK /\ FilesOK' /\ memory \in States
  BY <1>1 DEF StepKeeps, StoreTypeOK, FilesOK
<1>3. ASSUME \/ \E r \in Routes, a \in Attempts : StartAttempt(r, a)
             \/ \E a \in Attempts : CompleteAttempt(a)
             \/ \E r \in Routes : ReviseRoute(r) \/ RevokeRoute(r) \/ ReconcileRoute(r)
      PROVE  WaitInv'
  BY <1>1, <1>3, MutationEntry, PersistWaits
<1>4. ASSUME AdvanceEpoch PROVE WaitInv'
  <2> DEFINE t == [memory EXCEPT !.epoch = @ + 1]
  <2>1. /\ status = "open" /\ memory.epoch < MaxEpoch /\ SaveSnapshot(t, "saving")
        /\ UNCHANGED journal
    BY <1>4 DEF AdvanceEpoch
  <2>2. t \in States /\ t.routes = memory.routes /\ t.attempts = memory.attempts
    BY <1>2, <2>1, EpochAdvanced
  <2> HIDE DEF t
  <2> QED BY <1>1, <2>1, <2>2, ResaveWaits
<1>5. ASSUME Compact PROVE WaitInv'
  BY <1>1, <1>2, <1>5, ResaveWaits DEF Compact
<1>6. ASSUME RemoveJournal PROVE WaitInv'
  <2>1. /\ journal' = <<>> /\ UNCHANGED snapshot
    BY <1>6 DEF RemoveJournal
  <2>2. Readable' = {} /\ \A r \in Routes : RouteAt(0, r)' = RouteAt(0, r)
    BY <2>1 DEF Readable, RouteAt, Base
  <2>3. Loaded' \in States /\ Covers(Loaded', Loaded)
    BY <1>1, <1>2, LoadFactsHoldNext DEF StepKeeps, LoadFacts, LoadedFields
  <2> QED BY <1>2, <2>2, <2>3, FilesWait
<1>7. ASSUME Crash PROVE WaitInv'
  BY <1>2, <1>7, WaitSame DEF Crash
<1> QED BY <1>1, <1>3, <1>4, <1>5, <1>6, <1>7, OpenWaits DEF Next

(* A stored record that waits for an attempt is stored with that attempt     *)
(* (runtime.cpp, Impl::persist; persistence.cpp, Load): the two are picked   *)
(* by different rules from a snapshot and a journal that overlap, and an     *)
(* entry may hold one without the other, yet no crash parts them.            *)
THEOREM WaitingAlwaysStored ==
  ASSUME Faults \subseteq {"refused"}
  PROVE  Spec => []WaitingIsStored
<1>1. Init => WaitInv
  <2> SUFFICES ASSUME Init PROVE WaitInv
    OBVIOUS
  <2>1. Readable = {} /\ Base = EmptyState
    BY DEF Init, Readable, Base
  <2>2. \A r \in Routes : RouteAt(0, r) = None
    BY <2>1 DEF RouteAt, EmptyState, NoRoutes
  <2> QED BY <2>1, <2>2 DEF WaitInv, Waits
<1>2. StoreTypeOK /\ StoreInv /\ WaitInv /\ [Next]_vars => WaitInv'
  <2> SUFFICES ASSUME StoreTypeOK, StoreInv, WaitInv, [Next]_vars PROVE WaitInv'
    OBVIOUS
  <2>1. CASE UNCHANGED vars
    BY <2>1, WaitSame DEF vars, StoreTypeOK, FilesOK
  <2> QED BY <2>1, NextWaits
<1>3. StoreTypeOK /\ WaitInv => WaitingIsStored
  <2> SUFFICES ASSUME StoreTypeOK, WaitInv PROVE WaitingIsStored
    OBVIOUS
  <2>1. FilesOK
    BY DEF StoreTypeOK, FilesOK
  <2>2. WaitsIn(Loaded, Loaded) /\ Loaded \in States
    BY <2>1, WaitLoaded, LoadFactsHold DEF LoadFacts, LoadedFields
  <2>3. \A r \in Present(Loaded.routes) : r \in Routes /\ Loaded.routes[r] # None
    BY <2>2 DEF Present, States
  <2> QED BY <2>2, <2>3 DEF WaitingIsStored, WaitsIn, Waits, Known
<1> QED BY <1>1, <1>2, <1>3, StoreInvariant, PTL DEF Spec

=============================================================================
