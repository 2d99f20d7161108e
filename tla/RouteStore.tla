----------------------------- MODULE RouteStore -----------------------------
(***************************************************************************)
(* The durable store of a coordinator (src/persistence.cpp) as the runtime  *)
(* drives it (Impl::persist, Compact, AdvanceEpoch and Open of              *)
(* src/runtime.cpp): a snapshot file replaced atomically, a journal of      *)
(* individually flushed entries, and the replay of both at Open.            *)
(*                                                                          *)
(* The runtime holds its exclusive lock while it persists, so only a crash  *)
(* or a failing file operation comes between two file operations.  Saving   *)
(* a snapshot is two of them: the rename, and the removal of the journal,   *)
(* whose error the code ignores.  An append that is interrupted leaves a    *)
(* whole entry or bytes that decode as none; both are journal frames here.  *)
(*                                                                          *)
(* Records are reduced to what replay looks at: the generation, the         *)
(* attempt the route waits for, and a stamp that grows with every mutation  *)
(* and stands for all other fields.  Calls that fail without touching a     *)
(* file or a table change no state and are not actions.                     *)
(***************************************************************************)
EXTENDS Naturals, Sequences, FiniteSets

CONSTANTS
  Routes,        \* RouteId
  Attempts,      \* ProgrammingAttemptId
  None,          \* the absent value
  Modes,         \* Durability of the processes that use the store
  Faults,        \* what goes wrong around a process that lives on (see below)
  MaxEpoch,      \* bound on CoordinatorEpoch
  MaxGeneration, \* bound on RouteGeneration
  MaxStamp       \* bound on the number of mutations

\* torn: a failed append leaves a part of its entry; whole: it leaves the whole
\* entry (FlushFileBuffers fails after WriteFile); kept: the removal of the
\* journal fails; refused: the persist at the end of Open fails; reused: a caller
\* publishes under an identity that another key has.
ASSUME StoreAssumption ==
  /\ Modes \subseteq {"snapshot", "journal"} /\ Modes # {}
  /\ Faults \subseteq {"torn", "whole", "kept", "refused", "reused"}
  /\ MaxEpoch \in Nat \ {0} /\ MaxGeneration \in Nat \ {0} /\ MaxStamp \in Nat
  /\ None \notin Routes \cup Attempts

VARIABLES
  snapshot,         \* the content of the .snapshot file, or None
  journal,          \* the frames of the .journal file
  status,           \* closed, opening or saving (a snapshot), open
  durability,       \* RuntimeConfig::durability of the process
  memory,           \* the tables of the process
  saving,           \* the state of a snapshot renamed but not yet acknowledged
  namespace_count,  \* Impl::namespace_counts (all routes in one namespace)
  stamp,            \* the number of mutations so far
  acknowledged      \* history: the tables as of the last acknowledged call

vars == <<snapshot, journal, status, durability, memory, saving,
          namespace_count, stamp, acknowledged>>

-----------------------------------------------------------------------------
Records == [generation : 1..MaxGeneration, waiting : Attempts \cup {None},
            stamp : 1..MaxStamp]

AttemptRecords == [route : Routes, epoch : 1..MaxEpoch, resolved : BOOLEAN]

ASSUME RecordAssumption == None \notin Records /\ None \notin AttemptRecords

\* PersistedState; the maps of the runtime that are stored have the same shape.
States == [epoch : 1..MaxEpoch,
           routes : [Routes -> Records \cup {None}],
           attempts : [Attempts -> AttemptRecords \cup {None}],
           revocations : SUBSET Routes]

\* A frame of the journal file: a JournalEntry, or what is left of one.
Frames == [whole : BOOLEAN,
           epoch : 1..MaxEpoch,
           routes : [Routes -> Records \cup {None}],
           attempts : [Attempts -> AttemptRecords \cup {None}],
           revocations : SUBSET Routes]

ASSUME StateAssumption == None \notin States

\* A RouteId is an identifier of fixed width.
ASSUME FiniteRoutes == IsFiniteSet(Routes)

NoRoutes == [r \in Routes |-> None]
NoAttempts == [a \in Attempts |-> None]
EmptyState == [epoch |-> 1, routes |-> NoRoutes, attempts |-> NoAttempts,
               revocations |-> {}]

Present(f) == {x \in DOMAIN f : f[x] # None}

\* f where it is defined, g elsewhere: upserts over a table.
Over(f, g) == [x \in DOMAIN g |-> IF f[x] # None THEN f[x] ELSE g[x]]

\* Type invariant; generations and epochs stay within their counters.
StoreTypeOK ==
  /\ snapshot \in States \cup {None}
  /\ journal \in Seq(Frames)
  /\ status \in {"closed", "opening", "saving", "open"}
  /\ durability \in Modes
  /\ memory \in States
  /\ saving \in States \cup {None}
  /\ namespace_count \in Nat
  /\ stamp \in 0..MaxStamp
  /\ acknowledged \in States

Init ==
  /\ snapshot = None
  /\ journal = <<>>
  /\ status = "closed"
  /\ durability \in Modes
  /\ memory = EmptyState
  /\ saving = None
  /\ namespace_count = 0
  /\ stamp = 0
  /\ acknowledged = EmptyState

-----------------------------------------------------------------------------
(* Load *)

\* The frames replayed: Load stops at the first one that does not decode.
Readable == {i \in DOMAIN journal : \A k \in 1..i : journal[k].whole}

Base == IF snapshot = None THEN EmptyState ELSE snapshot

\* What step i of the loading (0 is the snapshot) says of route r, of attempt a.
RouteAt(i, r) == IF i = 0 THEN Base.routes[r] ELSE journal[i].routes[r]
AttemptAt(i, a) == IF i = 0 THEN Base.attempts[a] ELSE journal[i].attempts[a]

\* Mutated form of Beats: only a newer generation replaces a record.
BeatsStrictly(i, j, r) ==
  \/ RouteAt(i, r).generation > RouteAt(j, r).generation
  \/ RouteAt(i, r).generation = RouteAt(j, r).generation /\ i <= j

\* Step i prevails over step j for route r: an upsert replaces a record of an
\* older generation, and an earlier record of the same generation.
Beats(i, j, r) ==
  \/ RouteAt(i, r).generation > RouteAt(j, r).generation
  \/ RouteAt(i, r).generation = RouteAt(j, r).generation /\ i >= j

LoadedRoute(r) ==
  LET steps == {i \in {0} \cup Readable : RouteAt(i, r) # None}
  IN IF steps = {} THEN None
     ELSE RouteAt(CHOOSE i \in steps : \A j \in steps : Beats(i, j, r), r)

LoadedAttempt(a) ==
  LET steps == {i \in {0} \cup Readable : AttemptAt(i, a) # None}
  IN IF steps = {} THEN None
     ELSE AttemptAt(CHOOSE i \in steps : \A j \in steps : i >= j, a)

LoadedEpoch ==
  LET epochs == {Base.epoch} \cup {journal[i].epoch : i \in Readable}
  IN CHOOSE e \in epochs : \A f \in epochs : e >= f

\* Load: the state the two files stand for.
Loaded == [epoch |-> LoadedEpoch,
           routes |-> [r \in Routes |-> LoadedRoute(r)],
           attempts |-> [a \in Attempts |-> LoadedAttempt(a)],
           revocations |-> Base.revocations
                             \cup UNION {journal[i].revocations : i \in Readable}]

\* Mutated form of Truncated: the torn tail stays in the file.
TailKept == journal

\* ... and the truncation of the journal to its readable frames.
Truncated == SubSeq(journal, 1, Cardinality(Readable))

-----------------------------------------------------------------------------
(* persist *)

Entry(routes, attempts, revocations) ==
  [whole |-> TRUE, epoch |-> memory.epoch, routes |-> routes,
   attempts |-> attempts, revocations |-> revocations]

\* The tables after the mutation of an entry; also the snapshot that persist
\* writes for it.
Merged(state, entry) ==
  [state EXCEPT !.routes = Over(entry.routes, @),
                !.attempts = Over(entry.attempts, @),
                !.revocations = @ \cup entry.revocations]

\* SaveSnapshot, first half: the new snapshot is renamed into place.
SaveSnapshot(state, next) ==
  /\ status' = next
  /\ snapshot' = state
  /\ saving' = state

\* append_file_flushed that does not return success: the journal with all or
\* part of the frame.
Appending(base, entry, whole) == Append(base, [entry EXCEPT !.whole = whole])

\* AppendJournal followed by the commit of the mutation.
AppendJournal(base, entry) ==
  /\ journal' = Append(base, entry)
  /\ memory' = Merged(memory, entry)
  /\ acknowledged' = memory'
  /\ UNCHANGED <<snapshot, saving>>

\* commit of every record of the entry: index_erase takes one off the count for the
\* version there was, unless it is 0, and index_insert adds one.
Indexed(entry) ==
  LET erased == Cardinality(Present(entry.routes) \cap Present(memory.routes))
      inserted == Cardinality(Present(entry.routes))
  IN (IF namespace_count > erased THEN namespace_count - erased ELSE 0) + inserted

\* The process has ended and another one is started, with the durability its
\* command line names.
NewProcess ==
  /\ status' = "closed"
  /\ durability' \in Modes
  /\ memory' = EmptyState
  /\ saving' = None
  /\ namespace_count' = 0

\* persist of a mutation under way in an open runtime.
Persist(entry) ==
  /\ status = "open" /\ stamp < MaxStamp
  /\ stamp' = stamp + 1
  /\ \/ /\ durability = "journal"
        /\ AppendJournal(journal, entry)
        /\ namespace_count' = Indexed(entry)
        /\ UNCHANGED <<status, durability>>
     \/ /\ durability = "journal"        \* the append fails, the process lives on
        /\ \E whole \in {w \in BOOLEAN : (IF w THEN "whole" ELSE "torn") \in Faults} :
             journal' = Appending(journal, entry, whole)
        /\ UNCHANGED <<snapshot, status, durability, memory, saving,
                       namespace_count, acknowledged>>
     \/ /\ durability = "journal"        \* the process dies while it appends
        /\ \E whole \in BOOLEAN :
             journal' = Appending(journal, entry, whole)
        /\ NewProcess
        /\ UNCHANGED <<snapshot, acknowledged>>
     \/ /\ durability = "snapshot"
        /\ SaveSnapshot(Merged(memory, entry), "saving")
        /\ namespace_count' = Indexed(entry)
        /\ UNCHANGED <<journal, durability, memory, acknowledged>>

\* SaveSnapshot, second half: the journal is removed and the caller commits.
RemoveJournal ==
  /\ status \in {"opening", "saving"}
  /\ status' = "open"
  /\ journal' \in {<<>>} \cup (IF "kept" \in Faults THEN {journal} ELSE {})
  /\ memory' = saving
  /\ acknowledged' = saving
  /\ saving' = None
  /\ UNCHANGED <<snapshot, durability, namespace_count, stamp>>

-----------------------------------------------------------------------------
(* The mutations of the runtime, by what they persist *)

\* ProgrammingAttemptIds are drawn at random: no table and no frame holds a.
FreshAttempt(a) == memory.attempts[a] = None /\ \A i \in DOMAIN journal : journal[i].attempts[a] = None

OnlyRoute(r, record) == [NoRoutes EXCEPT ![r] = record]

\* Mutated form of OnlyAttempt: the attempts are left out of the entry.
OnlyAttemptOmitted(a, record) == NoAttempts

OnlyAttempt(a, record) == [NoAttempts EXCEPT ![a] = record]

Version(generation, waiting) ==
  [generation |-> generation, waiting |-> waiting, stamp |-> stamp + 1]

\* Mutated form of Revised: a generation is incremented without a check.
RevisedUnchecked(r, waiting) == {Version(memory.routes[r].generation + 1, waiting)}

\* The next version of the record of route r; advance_generation is checked.
Revised(r, waiting) ==
  {Version(g, waiting) : g \in {memory.routes[r].generation + 1} \cap 1..MaxGeneration}

\* The record a publication, withdrawal or revalidation of route r leads to.  The
\* identity is derived from the key or chosen by the caller, so a retry uses it
\* again; a caller that chooses the identity of another key's route overwrites it.
Programmed(r, waiting) ==
  (IF memory.routes[r] = None THEN {} ELSE Revised(r, waiting))
    \cup {record \in {Version(1, waiting)} : memory.routes[r] = None \/ "reused" \in Faults}

\* Publish, withdraw and revalidate: a record that waits for a new attempt.
StartAttempt(r, a) ==
  /\ FreshAttempt(a)
  /\ \E record \in Programmed(r, a) :
       Persist(Entry(OnlyRoute(r, record),
                     OnlyAttempt(a, [route |-> r, epoch |-> memory.epoch,
                                     resolved |-> FALSE]), {}))

\* The record still waits for attempt a, and the epoch is that of the attempt.
\* (Attempts of a lineage that was overwritten: see RouteRuntime.)
Takes(a) ==
  /\ memory.routes[memory.attempts[a].route].waiting = a
  /\ memory.attempts[a].epoch = memory.epoch

\* A completion: the attempt is resolved, and the record with it unless the
\* completion is stale.  A record whose epoch passed goes on waiting.
CompleteAttempt(a) ==
  /\ memory.attempts[a] # None /\ ~memory.attempts[a].resolved
  /\ LET r == memory.attempts[a].route
         resolved == OnlyAttempt(a, [memory.attempts[a] EXCEPT !.resolved = TRUE])
         update == Version(memory.routes[r].generation, None)
     IN Persist(Entry(IF Takes(a) THEN OnlyRoute(r, update) ELSE NoRoutes, resolved, {}))

\* Retirement or path invalidation: the record alone, which waits for nothing.
\* (Load refuses the record of a supersession: StoredRoutesLoad of RouteRuntime.)
ReviseRoute(r) ==
  /\ memory.routes[r] # None
  /\ \E record \in Revised(r, None) :
       Persist(Entry(OnlyRoute(r, record), NoAttempts, {}))

RevokeRoute(r) ==
  /\ memory.routes[r] # None /\ r \notin memory.revocations
  /\ \E record \in Revised(r, None) :
       Persist(Entry(OnlyRoute(r, record), NoAttempts, {r}))

\* Reconciliation changes the observation only: the generation stays, and a record
\* that waits is stored again, without its attempt.
ReconcileRoute(r) ==
  /\ memory.routes[r] # None
  /\ LET record == Version(memory.routes[r].generation, memory.routes[r].waiting)
     IN Persist(Entry(OnlyRoute(r, record), NoAttempts, {}))

AdvanceEpoch ==
  /\ status = "open" /\ memory.epoch < MaxEpoch
  /\ SaveSnapshot([memory EXCEPT !.epoch = @ + 1], "saving")
  /\ UNCHANGED <<journal, durability, memory, namespace_count, stamp, acknowledged>>

Compact ==
  /\ status = "open"
  /\ SaveSnapshot(memory, "saving")
  /\ UNCHANGED <<journal, durability, memory, namespace_count, stamp, acknowledged>>

-----------------------------------------------------------------------------
(* Open and the end of a process *)

\* The recovery of an unresolved attempt: it is resolved, and the route that
\* waits for it does not any longer.
Recovery(state) ==
  LET lost == {a \in Present(state.attempts) : ~state.attempts[a].resolved}
      owed == {r \in Present(state.routes) : state.routes[r].waiting \in lost}
  IN [whole |-> TRUE, epoch |-> state.epoch, revocations |-> {},
      routes |-> [r \in Routes |-> IF r \in owed THEN [state.routes[r] EXCEPT !.waiting = None]
                                   ELSE None],
      attempts |-> [a \in Attempts |-> IF a \in lost THEN [state.attempts[a] EXCEPT !.resolved = TRUE]
                                       ELSE None]]

\* Open: the files are loaded into the tables, every record is indexed, the
\* recovery is committed and then persisted.
Open ==
  LET state == Loaded
      entry == Recovery(state)
      recovered == Merged(state, entry)
      idle == entry.attempts = NoAttempts
      Filled == /\ memory' = recovered
                /\ namespace_count' = namespace_count + Cardinality(Present(state.routes))
                /\ UNCHANGED <<durability, stamp>>
  IN /\ status = "closed"
     /\ \/ /\ Filled
           /\ idle \/ durability = "journal"
           /\ status' = "open"
           /\ journal' = IF idle THEN Truncated ELSE Append(Truncated, entry)
           /\ acknowledged' = recovered
           /\ UNCHANGED <<snapshot, saving>>
        \/ /\ Filled
           /\ ~idle /\ durability = "snapshot"
           /\ SaveSnapshot(recovered, "opening")
           /\ journal' = Truncated
           /\ UNCHANGED acknowledged
        \/ /\ ~idle /\ durability = "journal"     \* dies while it appends
           /\ NewProcess
           /\ \E whole \in BOOLEAN :
                journal' = Appending(Truncated, entry, whole)
           /\ UNCHANGED <<snapshot, acknowledged, stamp>>
        \/ /\ Filled
           /\ ~idle /\ "refused" \in Faults       \* persist fails: not opened
           /\ status' = "closed"
           /\ journal' = Truncated
           /\ UNCHANGED <<snapshot, saving, acknowledged>>

\* The process ends, between two file operations of a save as well.
Crash ==
  /\ NewProcess
  /\ UNCHANGED <<snapshot, journal, stamp, acknowledged>>

Next ==
  \/ \E r \in Routes, a \in Attempts : StartAttempt(r, a)
  \/ \E a \in Attempts : CompleteAttempt(a)
  \/ \E r \in Routes : ReviseRoute(r) \/ RevokeRoute(r) \/ ReconcileRoute(r)
  \/ AdvanceEpoch \/ Compact \/ RemoveJournal
  \/ Open \/ Crash

Spec == Init /\ [][Next]_vars

-----------------------------------------------------------------------------
(* Properties *)

\* What t says of a route or an attempt, or something more recent, is in s.
RouteCovered(s, t, r) ==
  LET new == s.routes[r]
      old == t.routes[r]
  IN \/ old = None
     \/ new # None /\ new.stamp > old.stamp
     \/ new # None /\ new.stamp = old.stamp /\ new.waiting \in {old.waiting, None}

AttemptCovered(s, t, a) ==
  \/ t.attempts[a] \in {None, s.attempts[a]}
  \/ s.attempts[a] = [t.attempts[a] EXCEPT !.resolved = TRUE]

\* s says about everything in t what t says, or something more recent.  (The
\* quantifiers over singletons make TLC compute s and t once.)
Covers(s, t) ==
  \A new \in {s}, old \in {t} :
    /\ new.epoch >= old.epoch
    /\ old.revocations \subseteq new.revocations
    /\ \A a \in Attempts : AttemptCovered(new, old, a)
    /\ \A r \in Routes : RouteCovered(new, old, r)

(* Whatever the runtime acknowledged, the two files hold, at every moment a  *)
(* crash can happen: Load would bring it back (README 15: "a mutation is     *)
(* never acknowledged before its durable record is flushed"; persistence.hpp *)
(* on Load: a discarded tail "can only originate from a mutation that was    *)
(* never acknowledged").                                                     *)
AcknowledgedSurvives == Covers(Loaded, acknowledged)

(* A stored record that waits for an attempt is stored with that attempt,     *)
(* wherever a crash cuts the files: entries hold a record without its attempt *)
(* (reconciliation) and attempts without their record (a stale completion),   *)
(* and replay picks the two by different rules.                               *)
WaitingIsStored ==
  \A state \in {Loaded} : \A r \in Present(state.routes) :
    LET a == state.routes[r].waiting
    IN a # None => state.attempts[a] # None /\ state.attempts[a].route = r

(* Recovery at Open finds every route whose applied state is unknown: what a  *)
(* stored record of this epoch waits for is unresolved (README 5.2: "any      *)
(* unresolved programming attempt becomes AMBIGUOUS and its route becomes     *)
(* REVALIDATION_REQUIRED").  Not so after a change of the durability mode.    *)
WaitingIsRecoverable ==
  \A state \in {Loaded} : \A r \in Present(state.routes) :
    LET a == state.routes[r].waiting
    IN a # None => /\ state.attempts[a] # None /\ state.attempts[a].route = r
                   /\ state.attempts[a].resolved => state.attempts[a].epoch < state.epoch

(* The index counts every record of an open runtime once, as the consistency *)
(* check of the runtime demands (runtime.cpp, ValidateConsistency: "the      *)
(* routing namespace index contains a stale count").                         *)
NamespaceCountExact ==
  status = "open" => namespace_count = Cardinality(Present(memory.routes))

Working == IF status \in {"open", "saving"} THEN acknowledged ELSE None

Durable == INSTANCE DurableStore
  WITH durable <- Loaded, working <- Working, NoProcess <- None

(* The two files and their replay implement the abstract store: the state a  *)
(* restart begins from only moves forward, in one step per mutation, and a   *)
(* restart continues from it - also when the crash falls between the rename  *)
(* of a snapshot and the removal of the journal it replaces.                 *)
ImplementsDurableStore == Durable!Spec

=============================================================================
