-------------------------- MODULE ImportConvProofs --------------------------
(***************************************************************************)
(* The safety properties of ImportConv for every set of importers and      *)
(* sessions, every batch size and any number of faults. A silica file is   *)
(* written from the parsed batch, so the invariant has to say what is      *)
(* known of a batch while it is finalised: Committed. Phases ties the sets *)
(* of an importer to its program counter.                                  *)
(***************************************************************************)
EXTENDS ImportConv, FiniteSetTheorems, TLAPS

\* What an importer is about to finalise has been committed as it was parsed, and
\* the database did not refuse it.
Committed ==
  \A r \in Importers : \A s \in ready[r] : s \notin Bad /\ batch[r][s] <= table[s]

\* An importer that is not finalising has nothing half-way, and one that scans has
\* room for another session.
Phases ==
  \A r \in Importers :
    /\ IsFiniteSet(DOMAIN batch[r])
    /\ pc[r] # "finalise" => pending[r] = {} /\ ready[r] = {}
    /\ pc[r] = "scan" => Cardinality(DOMAIN batch[r]) < BatchSize
    /\ pc[r] = "idle" => batch[r] = NoBatch

\* Half a line is only begun where the model has room for the rest of it.
Room == \A s \in Sessions : torn[s] => lines[s] < MaxLines

Inv == TypeOK /\ Room /\ SilicaNeverAhead /\ BadStaysVisible /\ Committed /\ Phases

-----------------------------------------------------------------------------
\* The empty batch is a batch and has no sessions.
LEMMA NoBatchFacts ==
  /\ NoBatch \in Batches /\ DOMAIN NoBatch = {}
  /\ IsFiniteSet(DOMAIN NoBatch) /\ Cardinality(DOMAIN NoBatch) = 0
<1>1. DOMAIN NoBatch = {} /\ NoBatch \in [{} -> 0..MaxLines]
  BY DEF NoBatch
<1>2. NoBatch \in Batches
  BY <1>1 DEF Batches
<1> QED BY <1>1, <1>2, FS_EmptySet

\* A batch maps its sessions to lengths of files.
LEMMA BatchFacts ==
  ASSUME NEW b \in Batches
  PROVE  /\ DOMAIN b \subseteq Sessions
         /\ \A s \in DOMAIN b : b[s] \in 0..MaxLines
BY DEF Batches

\* Putting one more session into a batch gives a batch.
LEMMA BatchGrows ==
  ASSUME NEW b \in Batches, NEW s \in Sessions, NEW n \in 0..MaxLines
  PROVE  /\ [x \in DOMAIN b \cup {s} |-> IF x = s THEN n ELSE b[x]] \in Batches
         /\ DOMAIN [x \in DOMAIN b \cup {s} |-> IF x = s THEN n ELSE b[x]] = DOMAIN b \cup {s}
<1> DEFINE S == DOMAIN b \cup {s}
           c == [x \in S |-> IF x = s THEN n ELSE b[x]]
<1>1. S \in SUBSET Sessions
  BY BatchFacts
<1>2. c \in [S -> 0..MaxLines]
  BY BatchFacts
<1>3. c \in Batches
  BY <1>1, <1>2 DEF Batches
<1> QED BY <1>3

SilicaFile == [size : {<<>>} \cup (0..MaxLines) \X BOOLEAN, lines : 0..MaxLines]

\* A missing silica file has the type of one.
LEMMA AbsentIsFile == Absent \in SilicaFile
BY ImportAssumption DEF Absent, SilicaFile

\* Initially no importer runs and no file exists.
LEMMA InvInit == Init => Inv
<1> SUFFICES ASSUME Init PROVE Inv
  OBVIOUS
<1> USE ImportAssumption, NoBatchFacts DEF Init
<1>1. TypeOK
  BY DEF TypeOK, Absent
<1>2. SilicaNeverAhead /\ BadStaysVisible
  BY DEF SilicaNeverAhead, BadStaysVisible, Absent
<1>3. Room /\ Committed /\ Phases
  BY DEF Room, Committed, Phases
<1> QED BY <1>1, <1>2, <1>3 DEF Inv

-----------------------------------------------------------------------------
\* The collectors touch only their files; a file only grows.
LEMMA CollectKeeps == Inv /\ Collect => Inv'
<1> SUFFICES ASSUME Inv, Collect PROVE Inv'
  OBVIOUS
<1> USE ImportAssumption DEF Inv
<1>1. TypeOK' /\ Room'
  <2>1. ASSUME NEW s \in Sessions, WriteHalfLine(s) PROVE TypeOK' /\ Room'
    BY <2>1 DEF TypeOK, Room, WriteHalfLine, control
  <2>2. ASSUME NEW s \in Sessions, WriteRestOfLine(s) PROVE TypeOK' /\ Room'
    <3>1. lines'[s] \in 0..MaxLines /\ lines' \in [Sessions -> 0..MaxLines]
      BY <2>2 DEF TypeOK, Room, WriteRestOfLine
    <3> QED BY <2>2, <3>1 DEF TypeOK, Room, WriteRestOfLine, control
  <2>3. ASSUME NEW s \in Sessions, WriteSummary(s) PROVE TypeOK' /\ Room'
    BY <2>3 DEF TypeOK, Room, WriteSummary, control
  <2> QED BY <2>1, <2>2, <2>3 DEF Collect
<1>2. UNCHANGED <<table, silica, control>>
  BY DEF Collect, WriteHalfLine, WriteRestOfLine, WriteSummary
<1>3. SilicaNeverAhead' /\ BadStaysVisible' /\ Committed' /\ Phases'
  BY <1>2 DEF SilicaNeverAhead, BadStaysVisible, Committed, Phases, control
<1> QED BY <1>1, <1>3

\* Choosing what to import changes neither the database nor a silica file.
LEMMA ScanKeeps ==
  ASSUME Inv, NEW r \in Importers,
         \/ \E f \in BOOLEAN : Begin(r, f)
         \/ LastBatch(r)
         \/ EndFlush(r)
         \/ \E s \in Sessions : PassOver(r, s)
  PROVE  Inv'
<1> USE ImportAssumption, NoBatchFacts DEF Inv
<1>1. CASE \E f \in BOOLEAN : Begin(r, f)
  <2>1. TypeOK' /\ Room'
    BY <1>1 DEF TypeOK, Room, Begin, files
  <2>2. SilicaNeverAhead' /\ BadStaysVisible' /\ Committed'
    BY <1>1 DEF SilicaNeverAhead, BadStaysVisible, Committed, Begin
  <2>3. Phases'
    BY <1>1 DEF Phases, Begin, TypeOK
  <2> QED BY <2>1, <2>2, <2>3
<1>2. CASE LastBatch(r)
  <2>1. TypeOK' /\ Room'
    BY <1>2 DEF TypeOK, Room, LastBatch, files
  <2>2. SilicaNeverAhead' /\ BadStaysVisible' /\ Committed'
    BY <1>2 DEF SilicaNeverAhead, BadStaysVisible, Committed, LastBatch
  <2>3. Phases'
    BY <1>2 DEF Phases, LastBatch, TypeOK
  <2> QED BY <2>1, <2>2, <2>3
<1>3. CASE EndFlush(r)
  <2>1. TypeOK' /\ Room'
    BY <1>3 DEF TypeOK, Room, EndFlush, files
  <2>2. SilicaNeverAhead' /\ BadStaysVisible'
    BY <1>3 DEF SilicaNeverAhead, BadStaysVisible, EndFlush
  <2>3. Committed' /\ Phases'
    BY <1>3 DEF Committed, Phases, EndFlush, TypeOK
  <2> QED BY <2>1, <2>2, <2>3
<1>4. CASE \E s \in Sessions : PassOver(r, s)
  <2>1. TypeOK' /\ Room'
    BY <1>4 DEF TypeOK, Room, PassOver, Visit, files
  <2>2. SilicaNeverAhead' /\ BadStaysVisible' /\ Committed' /\ Phases'
    BY <1>4 DEF SilicaNeverAhead, BadStaysVisible, Committed, Phases, PassOver, Visit
  <2> QED BY <2>1, <2>2
<1> QED BY <1>1, <1>2, <1>3, <1>4

\* Parsing adds one session to a batch that had room for it.
LEMMA ParseKeeps ==
  ASSUME Inv, NEW r \in Importers, NEW s \in Sessions, Parse(r, s)
  PROVE  Inv'
<1> USE ImportAssumption DEF Inv
<1> DEFINE b == [x \in DOMAIN batch[r] \cup {s} |-> IF x = s THEN lines[s] ELSE batch[r][x]]
<1>1. /\ pc[r] = "scan" /\ batch' = [batch EXCEPT ![r] = b]
      /\ pc' = [pc EXCEPT ![r] = IF Cardinality(DOMAIN batch'[r]) >= BatchSize THEN "commit" ELSE "scan"]
      /\ todo' = [todo EXCEPT ![r] = @ \ {s}]
      /\ UNCHANGED <<files, table, silica, force, pending, ready, faults>>
  BY DEF Parse, Visit
<1>2. batch[r] \in Batches /\ lines[s] \in 0..MaxLines
  BY DEF TypeOK
<1>3. b \in Batches /\ DOMAIN b = DOMAIN batch[r] \cup {s}
  BY <1>2, BatchGrows
<1>4. batch'[r] = b /\ \A q \in Importers : q # r => batch'[q] = batch[q]
  BY <1>1 DEF TypeOK
<1>5. /\ IsFiniteSet(DOMAIN b) /\ Cardinality(DOMAIN b) \in Nat
      /\ Cardinality(DOMAIN b) <= BatchSize
  <2>1. IsFiniteSet(DOMAIN batch[r]) /\ Cardinality(DOMAIN batch[r]) < BatchSize
    BY <1>1 DEF Phases
  <2>2. Cardinality(DOMAIN batch[r]) \in Nat
    BY <2>1, FS_CardinalityType
  <2>3. /\ IsFiniteSet(DOMAIN batch[r] \cup {s})
        /\ \/ Cardinality(DOMAIN batch[r] \cup {s}) = Cardinality(DOMAIN batch[r])
           \/ Cardinality(DOMAIN batch[r] \cup {s}) = Cardinality(DOMAIN batch[r]) + 1
    BY <2>1, FS_AddElement
  <2>4. DOMAIN b = DOMAIN batch[r] \cup {s}
    BY <1>3
  <2> HIDE DEF b
  <2> QED BY <2>1, <2>2, <2>3, <2>4
<1>6. pending[r] = {} /\ ready[r] = {}
  BY <1>1 DEF Phases
<1>7. TypeOK' /\ Room'
  <2>1. batch' \in [Importers -> Batches]
    BY <1>1, <1>3 DEF TypeOK
  <2>2. pc' \in [Importers -> {"idle", "scan", "commit", "finalise"}]
    BY <1>1 DEF TypeOK
  <2>3. \A q \in Importers : /\ Cardinality(DOMAIN batch'[q]) <= BatchSize
                             /\ pending[q] \cup ready[q] \subseteq DOMAIN batch'[q]
    BY <1>4, <1>5, <1>6 DEF TypeOK
  <2> QED BY <1>1, <2>1, <2>2, <2>3 DEF TypeOK, Room, files
<1>8. SilicaNeverAhead' /\ BadStaysVisible'
  BY <1>1 DEF SilicaNeverAhead, BadStaysVisible
<1>9. Committed'
  BY <1>1, <1>4, <1>6 DEF Committed
<1>10. Phases'
  BY <1>1, <1>4, <1>5, <1>6 DEF Phases, TypeOK
<1> QED BY <1>7, <1>8, <1>9, <1>10

-----------------------------------------------------------------------------
\* A batch is finalised when, and only when, it has been committed; the rows of a
\* session never decrease.
LEMMA CommitKeeps ==
  ASSUME Inv, NEW r \in Importers, CommitBatch(r)
  PROVE  Inv'
<1> USE ImportAssumption DEF Inv
<1>1. batch[r] \in Batches /\ DOMAIN batch[r] \subseteq Sessions /\ DOMAIN batch[r] \cap Bad = {}
  BY BatchFacts DEF TypeOK, CommitBatch
<1>2. table' \in [Sessions -> 0..MaxLines] /\ \A s \in Sessions : table[s] <= table'[s]
  BY <1>1, BatchFacts DEF TypeOK, CommitBatch, Larger
<1>3. \A s \in DOMAIN batch[r] : batch[r][s] <= table'[s]
  BY <1>1, BatchFacts DEF TypeOK, CommitBatch, Larger
<1>4. TypeOK' /\ Room'
  BY <1>1, <1>2 DEF TypeOK, Room, CommitBatch, files
<1>5. SilicaNeverAhead'
  BY <1>2 DEF SilicaNeverAhead, CommitBatch, TypeOK
<1>6. BadStaysVisible'
  BY <1>1 DEF BadStaysVisible, CommitBatch, TypeOK
<1>7. Committed'
  <2> SUFFICES ASSUME NEW q \in Importers, NEW s \in ready'[q]
               PROVE  s \notin Bad /\ batch'[q][s] <= table'[s]
    BY DEF Committed
  <2>1. CASE q = r
    BY <2>1, <1>1, <1>3 DEF CommitBatch, TypeOK
  <2>2. CASE q # r
    <3>1. s \in ready[q] /\ s \notin Bad /\ batch[q][s] <= table[s] /\ batch'[q] = batch[q]
      BY <2>2 DEF Committed, CommitBatch, TypeOK
    <3>2. s \in Sessions /\ s \in DOMAIN batch[q] /\ batch[q] \in Batches
      BY <3>1 DEF TypeOK
    <3>3. batch[q][s] \in 0..MaxLines /\ table[s] \in 0..MaxLines /\ table'[s] \in 0..MaxLines
      BY <3>2, <1>2, BatchFacts DEF TypeOK
    <3> QED BY <3>1, <3>2, <3>3, <1>2
  <2> QED BY <2>1, <2>2
<1>8. Phases'
  BY DEF Phases, CommitBatch, TypeOK
<1> QED BY <1>4, <1>5, <1>6, <1>7, <1>8

\* A batch that was rolled back leaves nothing to finalise.
LEMMA CommitFailsKeeps ==
  ASSUME Inv, NEW r \in Importers, CommitFails(r)
  PROVE  Inv'
<1> USE ImportAssumption DEF Inv
<1>1. DOMAIN batch[r] \subseteq Sessions
  BY BatchFacts DEF TypeOK
<1>2. TypeOK' /\ Room'
  BY <1>1 DEF TypeOK, Room, CommitFails, Fault, files
<1>3. SilicaNeverAhead' /\ BadStaysVisible' /\ Committed'
  BY DEF SilicaNeverAhead, BadStaysVisible, Committed, CommitFails
<1>4. Phases'
  BY DEF Phases, CommitFails, TypeOK
<1> QED BY <1>2, <1>3, <1>4

\* One by one: a session is finalised after its own commit only.
LEMMA RetryKeeps ==
  ASSUME Inv, NEW r \in Importers, NEW s \in Sessions, RetryOne(r, s) \/ RetryFails(r, s)
  PROVE  Inv'
<1> USE ImportAssumption DEF Inv
<1>1. CASE RetryOne(r, s)
  <2>1. s \in DOMAIN batch[r] /\ s \notin Bad /\ batch[r][s] \in 0..MaxLines /\ table[s] \in 0..MaxLines
    <3>1. s \in pending[r] /\ s \notin Bad /\ pending[r] \subseteq DOMAIN batch[r] /\ batch[r] \in Batches
      BY <1>1 DEF TypeOK, RetryOne
    <3> QED BY <3>1, BatchFacts DEF TypeOK
  <2>2. /\ table' = [table EXCEPT ![s] = Larger(table[s], batch[r][s])]
        /\ ready' = [ready EXCEPT ![r] = {s}]
        /\ pending' = [pending EXCEPT ![r] = @ \ {s}]
        /\ UNCHANGED <<files, silica, pc, force, todo, batch, faults>>
    BY <1>1 DEF RetryOne
  <2>3. /\ table' \in [Sessions -> 0..MaxLines]
        /\ \A x \in Sessions : table[x] <= table'[x]
        /\ batch[r][s] <= table'[s]
    BY <2>1, <2>2 DEF TypeOK, Larger
  <2>4. TypeOK' /\ Room'
    BY <2>1, <2>2, <2>3 DEF TypeOK, Room, files
  <2>5. SilicaNeverAhead' /\ BadStaysVisible'
    BY <2>1, <2>2, <2>3 DEF SilicaNeverAhead, BadStaysVisible, TypeOK
  <2>6. Committed'
    <3> SUFFICES ASSUME NEW q \in Importers, NEW x \in ready'[q]
                 PROVE  x \notin Bad /\ batch'[q][x] <= table'[x]
      BY DEF Committed
    <3>1. CASE q = r
      BY <3>1, <2>1, <2>2, <2>3 DEF TypeOK
    <3>2. CASE q # r
      <4>1. x \in ready[q] /\ x \notin Bad /\ batch[q][x] <= table[x] /\ batch'[q] = batch[q]
        BY <3>2, <2>2 DEF Committed, TypeOK
      <4>2. x \in Sessions /\ x \in DOMAIN batch[q] /\ batch[q] \in Batches
        BY <4>1 DEF TypeOK
      <4>3. batch[q][x] \in 0..MaxLines /\ table[x] \in 0..MaxLines /\ table'[x] \in 0..MaxLines
        BY <4>2, <2>3, BatchFacts DEF TypeOK
      <4> QED BY <4>1, <4>2, <4>3, <2>3
    <3> QED BY <3>1, <3>2
  <2>7. Phases'
    BY <1>1 DEF Phases, RetryOne, TypeOK
  <2> QED BY <2>4, <2>5, <2>6, <2>7
<1>2. CASE RetryFails(r, s)
  <2>1. TypeOK' /\ Room'
    BY <1>2 DEF TypeOK, Room, RetryFails, Fault, files
  <2>2. SilicaNeverAhead' /\ BadStaysVisible' /\ Committed'
    BY <1>2 DEF SilicaNeverAhead, BadStaysVisible, Committed, RetryFails
  <2>3. Phases'
    BY <1>2 DEF Phases, RetryFails, TypeOK
  <2> QED BY <2>1, <2>2, <2>3
<1> QED BY <1>1, <1>2

\* The silica file is made from a committed batch, or is missing.
LEMMA SilicaKeeps ==
  ASSUME Inv, NEW r \in Importers, NEW s \in Sessions, WriteSilica(r, s) \/ SilicaFails(r, s)
  PROVE  Inv'
<1> USE ImportAssumption DEF Inv
<1>1. /\ s \in DOMAIN batch[r] /\ batch[r][s] \in 0..MaxLines
      /\ s \notin Bad /\ batch[r][s] <= table[s]
  <2>1. s \in ready[r]
    BY DEF WriteSilica, SilicaFails
  <2>2. ready[r] \subseteq DOMAIN batch[r] /\ batch[r] \in Batches
    BY DEF TypeOK
  <2> QED BY <2>1, <2>2, BatchFacts DEF Committed
<1>2. /\ ready' = [ready EXCEPT ![r] = @ \ {s}]
      /\ UNCHANGED <<files, table, pc, force, todo, batch, pending>>
      /\ faults' \in 0..MaxFaults
  BY DEF WriteSilica, SilicaFails, Fault, TypeOK
<1>3. /\ silica' \in [Sessions -> SilicaFile]
      /\ \A x \in Sessions : \/ silica'[x] = silica[x]
                             \/ silica'[x] = Absent
                             \/ x = s /\ silica'[x].lines = batch[r][s]
  <2>1. Absent \in SilicaFile
    BY AbsentIsFile
  <2>2. Size(s) \in (0..MaxLines) \X BOOLEAN
    BY DEF TypeOK, Size
  <2>3. [size |-> Size(s), lines |-> batch[r][s]] \in SilicaFile
    BY <1>1, <2>2 DEF SilicaFile
  <2>4. silica \in [Sessions -> SilicaFile]
    BY DEF TypeOK, SilicaFile
  <2>5. CASE WriteSilica(r, s)
    BY <2>3, <2>4, <2>5 DEF WriteSilica
  <2>6. CASE SilicaFails(r, s)
    BY <2>1, <2>4, <2>6 DEF SilicaFails
  <2> QED BY <2>5, <2>6
<1>4. TypeOK' /\ Room'
  BY <1>2, <1>3 DEF TypeOK, Room, SilicaFile, files
<1>5. SilicaNeverAhead'
  <2> SUFFICES ASSUME NEW x \in Sessions PROVE silica'[x].lines <= table[x]
    BY <1>2 DEF SilicaNeverAhead
  <2>1. table[x] \in 0..MaxLines
    BY DEF TypeOK
  <2>2. CASE silica'[x] = silica[x]
    BY <2>2 DEF SilicaNeverAhead
  <2>3. CASE silica'[x] = Absent
    BY <2>1, <2>3 DEF Absent
  <2>4. CASE x = s /\ silica'[x].lines = batch[r][s]
    BY <1>1, <2>4
  <2> QED BY <1>3, <2>2, <2>3, <2>4
<1>6. BadStaysVisible'
  BY <1>1, <1>2, <1>3 DEF BadStaysVisible, WriteSilica, SilicaFails, TypeOK
<1>7. Committed' /\ Phases'
  BY <1>2 DEF Committed, Phases, TypeOK
<1> QED BY <1>4, <1>5, <1>6, <1>7

\* A crash forgets the importer and may spoil a silica file, nothing else.
LEMMA CrashKeeps ==
  ASSUME Inv, NEW r \in Importers, Crash(r)
  PROVE  Inv'
<1> USE ImportAssumption, NoBatchFacts DEF Inv
<1>1. /\ silica' \in [Sessions -> SilicaFile]
      /\ \A x \in Sessions : silica'[x] = silica[x] \/ silica'[x] = Absent
  <2>1. silica \in [Sessions -> SilicaFile] /\ Absent \in SilicaFile
    BY AbsentIsFile DEF TypeOK, SilicaFile
  <2>2. CASE silica' = silica
    BY <2>1, <2>2
  <2>3. ASSUME NEW s \in Sessions, silica' = [silica EXCEPT ![s] = Absent]
        PROVE  /\ silica' \in [Sessions -> SilicaFile]
               /\ \A x \in Sessions : silica'[x] = silica[x] \/ silica'[x] = Absent
    BY <2>1, <2>3
  <2>4. \/ silica' = silica
        \/ \E s \in Sessions : silica' = [silica EXCEPT ![s] = Absent]
    <3>1. silica' \in {silica} \cup {[silica EXCEPT ![s] = Absent] : s \in ready[r]}
      BY DEF Crash
    <3>2. ready[r] \subseteq Sessions
      BY DEF TypeOK
    <3> QED BY <3>1, <3>2
  <2> QED BY <2>2, <2>3, <2>4
<1>2. TypeOK' /\ Room'
  BY <1>1 DEF TypeOK, Room, Crash, Fault, SilicaFile, files
<1>3. SilicaNeverAhead'
  <2> SUFFICES ASSUME NEW x \in Sessions PROVE silica'[x].lines <= table[x]
    BY DEF SilicaNeverAhead, Crash
  <2>1. table[x] \in 0..MaxLines
    BY DEF TypeOK
  <2>2. CASE silica'[x] = silica[x]
    BY <2>2 DEF SilicaNeverAhead
  <2>3. CASE silica'[x] = Absent
    BY <2>1, <2>3 DEF Absent
  <2> QED BY <1>1, <2>2, <2>3
<1>4. BadStaysVisible'
  BY <1>1 DEF BadStaysVisible, Crash
<1>5. Committed' /\ Phases'
  BY DEF Committed, Phases, Crash, TypeOK
<1> QED BY <1>2, <1>3, <1>4, <1>5

\* The invariant is preserved by every step.
LEMMA InvNext == Inv /\ [Next]_vars => Inv'
<1> SUFFICES ASSUME Inv, [Next]_vars PROVE Inv'
  OBVIOUS
<1>1. CASE UNCHANGED vars
  BY <1>1 DEF Inv, TypeOK, Room, SilicaNeverAhead, BadStaysVisible, Committed, Phases, vars, files, control
<1>2. CASE Collect
  BY <1>2, CollectKeeps
<1>3. ASSUME NEW r \in Importers, NEW f \in BOOLEAN, Begin(r, f) PROVE Inv'
  BY <1>3, ScanKeeps
<1>4. ASSUME NEW r \in Importers, Crash(r) PROVE Inv'
  BY <1>4, CrashKeeps
<1>5. ASSUME NEW r \in Importers, Progress(r) PROVE Inv'
  <2>1. CASE LastBatch(r) \/ EndFlush(r) \/ \E s \in Sessions : PassOver(r, s)
    BY <2>1, ScanKeeps
  <2>2. CASE CommitBatch(r)
    BY <2>2, CommitKeeps
  <2>3. CASE CommitFails(r)
    BY <2>3, CommitFailsKeeps
  <2>4. CASE \E s \in Sessions : Parse(r, s)
    BY <2>4, ParseKeeps
  <2>5. CASE \E s \in Sessions : RetryOne(r, s) \/ RetryFails(r, s)
    BY <2>5, RetryKeeps
  <2>6. CASE \E s \in Sessions : WriteSilica(r, s) \/ SilicaFails(r, s)
    BY <2>6, SilicaKeeps
  <2> QED BY <1>5, <2>1, <2>2, <2>3, <2>4, <2>5, <2>6 DEF Progress
<1> QED BY <1>1, <1>2, <1>3, <1>4, <1>5 DEF Next

\* The strengthened invariant holds of every reachable state.
THEOREM Invariance == Spec => []Inv
<1> QED BY InvInit, InvNext, PTL DEF Spec

\* Type correctness: batches are bounded and what is half-way belongs to a batch.
THEOREM TypeCorrect == Spec => []TypeOK
<1>1. Inv => TypeOK
  BY DEF Inv
<1> QED BY <1>1, Invariance, PTL

\* finalizeImportTaskSilica runs after the commit on every path, so that a silica
\* file never names a conversation without a row, whatever crashed in between.
THEOREM SilicaFollowsCommit == Spec => []SilicaNeverAhead
<1>1. Inv => SilicaNeverAhead
  BY DEF Inv
<1> QED BY <1>1, Invariance, PTL

\* A session the database refuses is never recorded as up to date.
THEOREM RefusedStaysVisible == Spec => []BadStaysVisible
<1>1. Inv => BadStaysVisible
  BY DEF Inv
<1> QED BY <1>1, Invariance, PTL
=============================================================================
