----------------------------- MODULE ImportConv -----------------------------
(***************************************************************************)
(* `kbcli import-conv` (kbcli/cmd_import_conv.go): collectors append       *)
(* lines to one conversation file per session while importers parse the    *)
(* files, commit the lines in batches and then write, per session, a       *)
(* silica file with the fingerprints of the lines and the size of the      *)
(* conversation file, by which the next run decides what to skip.          *)
(*                                                                         *)
(* A conversation is a line; its row is inserted once (ON CONFLICT DO      *)
(* NOTHING), so the rows of a session are a prefix of its lines and are    *)
(* counted. Every session has one file: date windows and files of one      *)
(* session under several dates are left out.                               *)
(***************************************************************************)
EXTENDS Integers, FiniteSets

CONSTANTS
  Importers,        \* runs of import-conv that may be under way at once
  Sessions,
  Bad,              \* sessions with a record that the database refuses
  BatchSize,        \* importConvBatchSize
  MaxLines,         \* bound of the model on the length of a file
  MaxFaults         \* bound of the model on failed statements, writes and crashes

ASSUME ImportAssumption ==
  /\ Bad \subseteq Sessions
  /\ BatchSize \in Nat \ {0} /\ MaxLines \in Nat /\ MaxFaults \in Nat

VARIABLES
  lines, torn,      \* conversation file: complete lines, and whether another one follows
  summaries,        \* sessions that have a summary file
  table,            \* table conversations: rows of the session
  silica,           \* silica file of the session: size and lines it was made from
  pc, force, todo,  \* per importer: step, force flag, sessions not yet visited
  batch,            \* per importer: session -> lines parsed
  pending, ready,   \* per importer: to be committed one by one; to be finalised
  faults

files == <<lines, torn, summaries>>
control == <<pc, force, todo, batch, pending, ready>>
vars == <<files, table, silica, control, faults>>

NoBatch == [s \in {} |-> 0]
Absent == [size |-> <<>>, lines |-> 0]     \* no silica file, or an unreadable one
Size(s) == <<lines[s], torn[s]>>           \* os.Stat tells two such files apart

Larger(m, n) == IF m < n THEN n ELSE m

Init ==
  /\ lines = [s \in Sessions |-> 0]
  /\ torn = [s \in Sessions |-> FALSE]
  /\ summaries = {}
  /\ table = [s \in Sessions |-> 0]
  /\ silica = [s \in Sessions |-> Absent]
  /\ pc = [r \in Importers |-> "idle"]
  /\ force = [r \in Importers |-> FALSE]
  /\ todo = [r \in Importers |-> {}]
  /\ batch = [r \in Importers |-> NoBatch]
  /\ pending = [r \in Importers |-> {}]
  /\ ready = [r \in Importers |-> {}]
  /\ faults = 0

-----------------------------------------------------------------------------
(* The collectors, which are not part of the repository.                   *)

WriteHalfLine(s) ==
  /\ ~torn[s] /\ lines[s] < MaxLines
  /\ torn' = [torn EXCEPT ![s] = TRUE]
  /\ UNCHANGED <<lines, summaries, table, silica, control, faults>>

WriteRestOfLine(s) ==
  /\ torn[s]
  /\ torn' = [torn EXCEPT ![s] = FALSE]
  /\ lines' = [lines EXCEPT ![s] = @ + 1]
  /\ UNCHANGED <<summaries, table, silica, control, faults>>

WriteSummary(s) ==
  /\ summaries' = summaries \cup {s}
  /\ UNCHANGED <<lines, torn, table, silica, control, faults>>

-----------------------------------------------------------------------------
(* runImportConv                                                           *)

Begin(r, f) ==
  /\ pc[r] = "idle"
  /\ pc' = [pc EXCEPT ![r] = "scan"]
  /\ force' = [force EXCEPT ![r] = f]
  /\ todo' = [todo EXCEPT ![r] = {s \in Sessions : lines[s] > 0 \/ torn[s]}]
  /\ UNCHANGED <<files, table, silica, batch, pending, ready, faults>>

\* needUpdateConversations
NeedUpdate(r, s) == force[r] \/ silica[s].size # Size(s)

Visit(r, s) ==
  /\ pc[r] = "scan" /\ s \in todo[r]
  /\ todo' = [todo EXCEPT ![r] = @ \ {s}]
  /\ UNCHANGED <<files, table, silica, force, pending, ready, faults>>

\* No summary, or nothing new, or a last line that is still being written and
\* fails the whole file: the session is left for a later run.
PassOver(r, s) ==
  /\ s \notin summaries \/ ~NeedUpdate(r, s) \/ torn[s]
  /\ Visit(r, s)
  /\ UNCHANGED <<pc, batch>>

\* prepareImportTask, outside any transaction.
Parse(r, s) ==
  /\ s \in summaries /\ NeedUpdate(r, s) /\ ~torn[s]
  /\ Visit(r, s)
  /\ batch' = [batch EXCEPT ![r] = [x \in DOMAIN @ \cup {s} |-> IF x = s THEN lines[s] ELSE @[x]]]
  /\ pc' = [pc EXCEPT ![r] = IF Cardinality(DOMAIN batch'[r]) >= BatchSize THEN "commit" ELSE "scan"]

\* The tail of the sessions is a batch of its own; an empty one ends the run.
LastBatch(r) ==
  /\ pc[r] = "scan" /\ todo[r] = {}
  /\ pc' = [pc EXCEPT ![r] = IF batch[r] = NoBatch THEN "idle" ELSE "commit"]
  /\ UNCHANGED <<files, table, silica, force, todo, batch, pending, ready, faults>>

\* flushImportConvBatch: one transaction for the batch.
CommitBatch(r) ==
  /\ pc[r] = "commit" /\ DOMAIN batch[r] \cap Bad = {}
  /\ pc' = [pc EXCEPT ![r] = "finalise"]
  /\ table' = [s \in Sessions |-> IF s \in DOMAIN batch[r] THEN Larger(table[s], batch[r][s])
                                                           ELSE table[s]]
  /\ ready' = [ready EXCEPT ![r] = DOMAIN batch[r]]
  /\ UNCHANGED <<files, silica, force, todo, batch, pending, faults>>

Fault == faults < MaxFaults /\ faults' = faults + 1

\* Faulty: the batch is finalised although its transaction was rolled back.
CommitFailsFinalised(r) ==
  /\ pc[r] = "commit"
  /\ \/ DOMAIN batch[r] \cap Bad # {} /\ UNCHANGED faults
     \/ Fault
  /\ pc' = [pc EXCEPT ![r] = "finalise"]
  /\ ready' = [ready EXCEPT ![r] = DOMAIN batch[r]]
  /\ UNCHANGED <<files, table, silica, force, todo, batch, pending>>

\* Faulty: a batch that fails is given up.
CommitFailsDropped(r) ==
  /\ pc[r] = "commit"
  /\ \/ DOMAIN batch[r] \cap Bad # {} /\ UNCHANGED faults
     \/ Fault
  /\ pc' = [pc EXCEPT ![r] = "finalise"]
  /\ UNCHANGED <<files, table, silica, force, todo, batch, pending, ready>>

\* The transaction is rolled back and the sessions are tried one by one.
CommitFails(r) ==
  /\ pc[r] = "commit"
  /\ \/ DOMAIN batch[r] \cap Bad # {} /\ UNCHANGED faults
     \/ Fault
  /\ pc' = [pc EXCEPT ![r] = "finalise"]
  /\ pending' = [pending EXCEPT ![r] = DOMAIN batch[r]]
  /\ UNCHANGED <<files, table, silica, force, todo, batch, ready>>

RetryOne(r, s) ==
  /\ pc[r] = "finalise" /\ ready[r] = {} /\ s \in pending[r] \ Bad
  /\ table' = [table EXCEPT ![s] = Larger(@, batch[r][s])]
  /\ pending' = [pending EXCEPT ![r] = @ \ {s}]
  /\ ready' = [ready EXCEPT ![r] = {s}]
  /\ UNCHANGED <<files, silica, pc, force, todo, batch, faults>>

\* Faulty: the `continue` after a failed session is missing.
RetryFailsFinalised(r, s) ==
  /\ pc[r] = "finalise" /\ ready[r] = {} /\ s \in pending[r]
  /\ \/ s \in Bad /\ UNCHANGED faults
     \/ Fault
  /\ pending' = [pending EXCEPT ![r] = @ \ {s}]
  /\ ready' = [ready EXCEPT ![r] = {s}]
  /\ UNCHANGED <<files, table, silica, pc, force, todo, batch>>

RetryFails(r, s) ==
  /\ pc[r] = "finalise" /\ ready[r] = {} /\ s \in pending[r]
  /\ \/ s \in Bad /\ UNCHANGED faults
     \/ Fault
  /\ pending' = [pending EXCEPT ![r] = @ \ {s}]
  /\ UNCHANGED <<files, table, silica, pc, force, todo, batch, ready>>

\* generateTaskSilicaFile takes the fingerprints from the lines that were parsed
\* and the size from the file as it is now.
WriteSilica(r, s) ==
  /\ s \in ready[r]
  /\ silica' = [silica EXCEPT ![s] = [size |-> Size(s), lines |-> batch[r][s]]]
  /\ ready' = [ready EXCEPT ![r] = @ \ {s}]
  /\ UNCHANGED <<files, table, pc, force, todo, batch, pending, faults>>

\* Only a warning; the file on disk may be gone or cut short.
SilicaFails(r, s) ==
  /\ s \in ready[r]
  /\ Fault
  /\ silica' \in {silica, [silica EXCEPT ![s] = Absent]}
  /\ ready' = [ready EXCEPT ![r] = @ \ {s}]
  /\ UNCHANGED <<files, table, pc, force, todo, batch, pending>>

\* Faulty: the flush ends before every session of a failed batch was tried.
EndFlushEarly(r) ==
  /\ pc[r] = "finalise" /\ ready[r] = {}
  /\ pc' = [pc EXCEPT ![r] = "scan"]
  /\ batch' = [batch EXCEPT ![r] = NoBatch]
  /\ UNCHANGED <<files, table, silica, force, todo, pending, ready, faults>>

EndFlush(r) ==
  /\ pc[r] = "finalise" /\ pending[r] = {} /\ ready[r] = {}
  /\ pc' = [pc EXCEPT ![r] = "scan"]
  /\ batch' = [batch EXCEPT ![r] = NoBatch]
  /\ UNCHANGED <<files, table, silica, force, todo, pending, ready, faults>>

\* The process dies, perhaps while it writes a silica file.
Crash(r) ==
  /\ pc[r] # "idle"
  /\ Fault
  /\ silica' \in {silica} \cup {[silica EXCEPT ![s] = Absent] : s \in ready[r]}
  /\ pc' = [pc EXCEPT ![r] = "idle"]
  /\ force' = [force EXCEPT ![r] = FALSE]
  /\ todo' = [todo EXCEPT ![r] = {}]
  /\ batch' = [batch EXCEPT ![r] = NoBatch]
  /\ pending' = [pending EXCEPT ![r] = {}]
  /\ ready' = [ready EXCEPT ![r] = {}]
  /\ UNCHANGED <<files, table>>

Collect == \E s \in Sessions : WriteHalfLine(s) \/ WriteRestOfLine(s) \/ WriteSummary(s)

Progress(r) ==
  \/ LastBatch(r) \/ CommitBatch(r) \/ CommitFails(r) \/ EndFlush(r)
  \/ \E s \in Sessions : \/ PassOver(r, s) \/ Parse(r, s) \/ RetryOne(r, s)
                         \/ RetryFails(r, s) \/ WriteSilica(r, s) \/ SilicaFails(r, s)

Next ==
  \/ Collect
  \/ \E r \in Importers : \/ \E f \in BOOLEAN : Begin(r, f)
                          \/ Progress(r) \/ Crash(r)

Spec == Init /\ [][Next]_vars

\* A run goes on until it ends, and the crontab starts one with force every week
\* whatever else runs. Nothing is assumed of the collectors.
FairSpec == Spec /\ \A r \in Importers : WF_vars(Progress(r)) /\ SF_vars(Begin(r, TRUE))

-----------------------------------------------------------------------------
Batches == UNION {[S -> 0..MaxLines] : S \in SUBSET Sessions}

TypeOK ==
  /\ lines \in [Sessions -> 0..MaxLines] /\ torn \in [Sessions -> BOOLEAN]
  /\ summaries \subseteq Sessions
  /\ table \in [Sessions -> 0..MaxLines]
  /\ silica \in [Sessions -> [size : {<<>>} \cup (0..MaxLines) \X BOOLEAN, lines : 0..MaxLines]]
  /\ pc \in [Importers -> {"idle", "scan", "commit", "finalise"}]
  /\ force \in [Importers -> BOOLEAN]
  /\ todo \in [Importers -> SUBSET Sessions]
  /\ batch \in [Importers -> Batches]
  /\ pending \in [Importers -> SUBSET Sessions] /\ ready \in [Importers -> SUBSET Sessions]
  /\ faults \in 0..MaxFaults
  /\ \A r \in Importers : /\ Cardinality(DOMAIN batch[r]) <= BatchSize
                          /\ pending[r] \cup ready[r] \subseteq DOMAIN batch[r]

\* What a silica file was made from is in the database: the fingerprints that
\* import-repo matches commits against never name a conversation without a row,
\* and a crash between the commit and the file costs only a second import.
SilicaNeverAhead ==
  \A s \in Sessions : silica[s].lines <= table[s]

\* A session the database refuses stays out of the tables and out of the index,
\* and keeps being reported: no silica file makes a run skip it as up to date.
BadStaysVisible ==
  \A s \in Bad : table[s] = 0 /\ silica[s] = Absent

\* Every complete line arrives, whatever crashed, failed or raced before, unless
\* the summary is missing or the file ends in half a line: a bad neighbour in the
\* batch or a fallen-back batch never keeps a session out for good.
LinesArrive ==
  \A s \in Sessions \ Bad : <>[](torn[s] \/ s \notin summaries \/ table[s] = lines[s])

\* The comment of needUpdateConversations: it returns true when an update is
\* needed, so a session without force that would be skipped has all its lines.
SkippedIsImported ==
  \A s \in Sessions : ~torn[s] /\ silica[s].size = Size(s) => table[s] = lines[s]
=============================================================================
