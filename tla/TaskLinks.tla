------------------------------ MODULE TaskLinks ------------------------------
(***************************************************************************)
(* Tasks and the conversations they own (kbcli/cmd_import_repo.go,         *)
(* silica.go, pseudo_task.go, cmd_clean.go). import-repo matches the added *)
(* lines of a commit against the fingerprints of conversations, saves one  *)
(* task per session that contributed, writes its id into the column        *)
(* task_id of the conversations and saves the commit, which later runs     *)
(* skip. Nothing of this is one transaction.                               *)
(*                                                                         *)
(* A conversation is the number of the moment it ended at. All             *)
(* conversations and commits are of one user and one repository.           *)
(***************************************************************************)
EXTENDS Naturals

CONSTANTS
  Convs, SessionOf, Prints,     \* conversations; their sessions and lines
  Commits, Time, Diff,          \* commits; when they were made, their added lines
  MaxDays,                      \* silica_max_days
  Importers,
  NoCommit, NoTask,
  WithPseudo,                   \* whether import-conv creates pseudo-tasks
  MaxRuns, MaxFaults, MaxCleans \* bounds of the model

ASSUME LinksAssumption ==
  /\ Convs \subseteq Nat
  /\ Time \in [Commits -> Nat] /\ MaxDays \in Nat
  /\ DOMAIN SessionOf = Convs /\ DOMAIN Prints = Convs /\ DOMAIN Diff = Commits
  /\ NoCommit \notin Commits
  /\ MaxRuns \in Nat /\ MaxFaults \in Nat /\ MaxCleans \in Nat

Sessions == {SessionOf[v] : v \in Convs}
Of(s) == {v \in Convs : SessionOf[v] = s}
TaskId(s, c) == <<s, c>>              \* session|commit, or the session alone
Ids == Sessions \X (Commits \cup {NoCommit})

VARIABLES
  stored,              \* conversations imported, with their fingerprints
  taskOf,              \* column conversations.task_id
  tasks,               \* table tasks: id -> conversations it spans, the last gives end_time
  commits,             \* table commits
  pc, forced, idx, todo, current, left,       \* of each run of import-repo
  pseudo,              \* sessions createPseudoTasks has still to do, and the one it saved
  before,              \* the date of a clean that has deleted commits and not yet tasks
  runs, faults, cleans,
  cleaned,             \* history: tasks deleted by clean
  calm                 \* history: runs that nothing has disturbed

tables == <<stored, taskOf, tasks, commits>>
import == <<pc, forced, idx, todo, current, left>>
bounds == <<runs, faults, cleans>>
vars == <<tables, import, pseudo, before, bounds, cleaned, calm>>
-----------------------------------------------------------------------------
(* Silica: pure functions of a commit and the index.                       *)

\* Every line belongs to the conversation that wrote it last.
OwnerOfLine(index, l) == {v \in index : l \in Prints[v] /\ \A w \in index : l \in Prints[w] => w <= v}

InWindow(c, v) == v < Time[c] /\ Time[c] - v <= MaxDays

Matched(c, index) == {v \in UNION {OwnerOfLine(index, l) : l \in Diff[c]} : InWindow(c, v)}
Contributors(c, index) == {SessionOf[v] : v \in Matched(c, index)}

\* From the first to the last conversation of the session that matched.
Span(c, s, index) ==
  LET hits == Matched(c, index) \cap Of(s)
  IN  {v \in index \cap Of(s) : \E a, b \in hits : a <= v /\ v <= b}
-----------------------------------------------------------------------------
Disturbs == calm' = {}
Goes(r) == calm' = calm \cap {r}
Fault == faults < MaxFaults /\ faults' = faults + 1 /\ UNCHANGED <<runs, cleans>>
At(r, p) == pc' = [pc EXCEPT ![r] = p]

\* import-conv commits a conversation and writes its fingerprints.
ImportConv(v) ==
  /\ v \notin stored
  /\ stored' = stored \cup {v} /\ taskOf' = [taskOf EXCEPT ![v] = NoTask]
  /\ Disturbs
  /\ UNCHANGED <<tasks, commits, import, pseudo, before, bounds, cleaned>>

\* runImportRepo: the index is built first.
Begin(r, f) ==
  /\ pc[r] \in {"idle", "ended"} /\ runs < MaxRuns
  /\ runs' = runs + 1
  /\ At(r, "scan") /\ forced' = [forced EXCEPT ![r] = f] /\ idx' = [idx EXCEPT ![r] = stored]
  /\ calm' = {r}
  /\ UNCHANGED <<tables, todo, current, left, pseudo, before, faults, cleans, cleaned>>

ScanRepoDir(r) ==
  /\ pc[r] = "scan" /\ At(r, "file")
  /\ todo' = [todo EXCEPT ![r] = IF forced[r] THEN Commits ELSE Commits \ commits]
  /\ Goes(r)
  /\ UNCHANGED <<tables, forced, idx, current, left, pseudo, before, bounds, cleaned>>

\* A commit whose existence cannot be looked up is imported again.
ScanLookupFails(r, c) ==
  /\ pc[r] = "scan" /\ ~forced[r] /\ c \in commits /\ Fault /\ At(r, "file")
  /\ todo' = [todo EXCEPT ![r] = (Commits \ commits) \cup {c}]
  /\ Disturbs
  /\ UNCHANGED <<tables, forced, idx, current, left, pseudo, before, cleaned>>

ImportCommitFile(r, c) ==
  /\ pc[r] = "file" /\ c \in todo[r]
  /\ todo' = [todo EXCEPT ![r] = @ \ {c}] /\ current' = [current EXCEPT ![r] = c]
  /\ At(r, IF Contributors(c, idx[r]) = {} THEN "commit" ELSE "tasks")
  /\ Goes(r)
  /\ UNCHANGED <<tables, forced, idx, left, pseudo, before, bounds, cleaned>>

\* A file that cannot be read is counted as failed.
FileFails(r, c) ==
  /\ pc[r] = "file" /\ c \in todo[r] /\ Fault
  /\ todo' = [todo EXCEPT ![r] = @ \ {c}]
  /\ Disturbs
  /\ UNCHANGED <<tables, pc, forced, idx, current, left, pseudo, before, cleaned>>

\* saveTasksAndConv: one statement for the tasks, then one per session.
SaveTasks(r) ==
  LET c == current[r]
      found == Contributors(c, idx[r])
      new == {TaskId(s, c) : s \in found}
  IN  /\ pc[r] = "tasks" /\ At(r, "link")
      /\ tasks' = [t \in DOMAIN tasks \cup new |->
                     IF t \in new THEN Span(c, t[1], idx[r]) ELSE tasks[t]]
      /\ left' = [left EXCEPT ![r] = found]
      /\ Goes(r)
      /\ UNCHANGED <<stored, taskOf, commits, forced, idx, todo, current, pseudo, before,
                     bounds, cleaned>>

SaveTasksFailsLinks(r) ==       \* faulty: the error is not returned
  /\ pc[r] = "tasks" /\ Fault /\ At(r, "link")
  /\ left' = [left EXCEPT ![r] = Contributors(current[r], idx[r])]
  /\ Disturbs
  /\ UNCHANGED <<tables, forced, idx, todo, current, pseudo, before, cleaned>>
SaveTasksFails(r) ==
  /\ pc[r] = "tasks" /\ Fault /\ At(r, "commit")
  /\ Disturbs
  /\ UNCHANGED <<tables, forced, idx, todo, current, left, pseudo, before, cleaned>>

LinkFree(r, s) ==               \* faulty: only conversations without a task are linked
  /\ pc[r] = "link" /\ s \in left[r]
  /\ taskOf' = [v \in Convs |-> IF v \in Span(current[r], s, idx[r]) /\ taskOf[v] = NoTask
                                THEN TaskId(s, current[r]) ELSE taskOf[v]]
  /\ left' = [left EXCEPT ![r] = @ \ {s}]
  /\ Goes(r)
  /\ UNCHANGED <<stored, tasks, commits, pc, forced, idx, todo, current, pseudo, before,
                 bounds, cleaned>>
Link(r, s) ==
  /\ pc[r] = "link" /\ s \in left[r]
  /\ taskOf' = [v \in Convs |-> IF v \in Span(current[r], s, idx[r])
                                THEN TaskId(s, current[r]) ELSE taskOf[v]]
  /\ left' = [left EXCEPT ![r] = @ \ {s}]
  /\ Goes(r)
  /\ UNCHANGED <<stored, tasks, commits, pc, forced, idx, todo, current, pseudo, before,
                 bounds, cleaned>>

LinkFails(r, s) ==
  /\ pc[r] = "link" /\ s \in left[r] /\ Fault
  /\ left' = [left EXCEPT ![r] = @ \ {s}]
  /\ Disturbs
  /\ UNCHANGED <<tables, pc, forced, idx, todo, current, pseudo, before, cleaned>>

\* The commit is saved also when its tasks were not.
AtCommit(r) == pc[r] = "commit" \/ (pc[r] = "link" /\ left[r] = {})
SaveCommit(r) ==
  /\ AtCommit(r) /\ At(r, "file")
  /\ commits' = commits \cup {current[r]} /\ current' = [current EXCEPT ![r] = NoCommit]
  /\ Goes(r)
  /\ UNCHANGED <<stored, taskOf, tasks, forced, idx, todo, left, pseudo, before, bounds,
                 cleaned>>

SaveCommitFails(r) ==
  /\ AtCommit(r) /\ Fault /\ At(r, "file")
  /\ current' = [current EXCEPT ![r] = NoCommit]
  /\ Disturbs
  /\ UNCHANGED <<tables, forced, idx, todo, left, pseudo, before, cleaned>>

End(r) ==
  /\ pc[r] = "file" /\ todo[r] = {} /\ At(r, "ended")
  /\ Goes(r)
  /\ UNCHANGED <<tables, forced, idx, todo, current, left, pseudo, before, bounds, cleaned>>

Crash(r) ==
  /\ pc[r] \notin {"idle", "ended"} /\ Fault /\ At(r, "idle")
  /\ idx' = [idx EXCEPT ![r] = {}] /\ todo' = [todo EXCEPT ![r] = {}]
  /\ current' = [current EXCEPT ![r] = NoCommit] /\ left' = [left EXCEPT ![r] = {}]
  /\ Disturbs
  /\ UNCHANGED <<tables, forced, pseudo, before, cleaned>>
-----------------------------------------------------------------------------
(* createPseudoTasks, at the end of an import-conv.                        *)

NoPseudo == [todo |-> {}, linking |-> {}]

BeginPseudoAll ==               \* faulty: sessions without conversations are not passed over
  /\ WithPseudo /\ pseudo = NoPseudo /\ stored # {} /\ runs < MaxRuns
  /\ runs' = runs + 1
  /\ pseudo' = [NoPseudo EXCEPT !.todo = Sessions]
  /\ Disturbs
  /\ UNCHANGED <<tables, import, before, faults, cleans, cleaned>>
\* A session without conversations is passed over.
BeginPseudo ==
  /\ WithPseudo /\ pseudo = NoPseudo /\ stored # {} /\ runs < MaxRuns
  /\ runs' = runs + 1
  /\ pseudo' = [NoPseudo EXCEPT !.todo = {SessionOf[v] : v \in stored}]
  /\ Disturbs
  /\ UNCHANGED <<tables, import, before, faults, cleans, cleaned>>

SavePseudo(s) ==
  LET t == TaskId(s, NoCommit)
  IN  /\ pseudo.linking = {} /\ s \in pseudo.todo
      /\ tasks' = [i \in DOMAIN tasks \cup {t} |-> IF i = t THEN stored \cap Of(s) ELSE tasks[i]]
      /\ pseudo' = [todo |-> pseudo.todo \ {s}, linking |-> {s}]
      /\ Disturbs
      /\ UNCHANGED <<stored, taskOf, commits, import, before, bounds, cleaned>>

SavePseudoFails(s) ==
  /\ pseudo.linking = {} /\ s \in pseudo.todo /\ Fault
  /\ pseudo' = [pseudo EXCEPT !.todo = @ \ {s}]
  /\ Disturbs
  /\ UNCHANGED <<tables, import, before, cleaned>>

\* Every conversation of the session, whichever task it belongs to.
LinkPseudo(s) ==
  /\ s \in pseudo.linking
  /\ taskOf' = [v \in Convs |-> IF v \in stored \cap Of(s) THEN TaskId(s, NoCommit) ELSE taskOf[v]]
  /\ pseudo' = [pseudo EXCEPT !.linking = {}]
  /\ Disturbs
  /\ UNCHANGED <<stored, tasks, commits, import, before, bounds, cleaned>>

LinkPseudoFails(s) ==
  /\ s \in pseudo.linking /\ Fault
  /\ pseudo' = [pseudo EXCEPT !.linking = {}]
  /\ Disturbs
  /\ UNCHANGED <<tables, import, before, cleaned>>
-----------------------------------------------------------------------------
(* clean --before: table by table. The conversations stay: the table it    *)
(* names, task_conversations, is called conversations (models.go:77). A    *)
(* batch that fails ends the work on its table.                            *)

CleanCommits(d) ==
  /\ before = {} /\ cleans < MaxCleans
  /\ cleans' = cleans + 1 /\ before' = {d}
  /\ \E old \in SUBSET {c \in commits : Time[c] < d} : commits' = commits \ old
  /\ Disturbs
  /\ UNCHANGED <<stored, taskOf, tasks, import, pseudo, runs, faults, cleaned>>

CleanTasks(d) ==
  /\ d \in before /\ before' = {}
  /\ \E old \in SUBSET {t \in DOMAIN tasks : \A v \in tasks[t] : v < d} :
       /\ tasks' = [t \in DOMAIN tasks \ old |-> tasks[t]]
       /\ cleaned' = cleaned \cup old
  /\ Disturbs
  /\ UNCHANGED <<stored, taskOf, commits, import, pseudo, bounds>>
-----------------------------------------------------------------------------
ImportRepo(r) ==
  \/ \E f \in BOOLEAN : Begin(r, f)
  \/ ScanRepoDir(r) \/ SaveTasks(r) \/ SaveTasksFails(r) \/ SaveCommit(r) \/ SaveCommitFails(r)
  \/ End(r) \/ Crash(r)
  \/ \E c \in Commits : ScanLookupFails(r, c) \/ ImportCommitFile(r, c) \/ FileFails(r, c)
  \/ \E s \in Sessions : Link(r, s) \/ LinkFails(r, s)

PseudoTasks ==
  \/ BeginPseudo
  \/ \E s \in Sessions : SavePseudo(s) \/ SavePseudoFails(s) \/ LinkPseudo(s) \/ LinkPseudoFails(s)

Clean == \E c \in Commits : CleanCommits(Time[c] + 1) \/ CleanTasks(Time[c] + 1)

Next ==
  \/ \E v \in Convs : ImportConv(v)
  \/ \E r \in Importers : ImportRepo(r)
  \/ PseudoTasks
  \/ Clean

Init ==
  /\ stored = {} /\ taskOf = [v \in Convs |-> NoTask] /\ tasks = <<>> /\ commits = {}
  /\ pc = [r \in Importers |-> "idle"] /\ forced = [r \in Importers |-> FALSE]
  /\ idx = [r \in Importers |-> {}] /\ todo = [r \in Importers |-> {}]
  /\ current = [r \in Importers |-> NoCommit] /\ left = [r \in Importers |-> {}]
  /\ pseudo = NoPseudo /\ before = {}
  /\ runs = 0 /\ faults = 0 /\ cleans = 0 /\ cleaned = {} /\ calm = {}

Spec == Init /\ [][Next]_vars
-----------------------------------------------------------------------------

TypeOK ==
  /\ stored \subseteq Convs /\ taskOf \in [Convs -> Ids \cup {NoTask}]
  /\ DOMAIN tasks \subseteq Ids /\ \A t \in DOMAIN tasks : tasks[t] \subseteq Convs /\ tasks[t] # {}
  /\ commits \subseteq Commits
  /\ pc \in [Importers -> {"idle", "scan", "file", "tasks", "link", "commit", "ended"}]
  /\ forced \in [Importers -> BOOLEAN] /\ idx \in [Importers -> SUBSET Convs]
  /\ todo \in [Importers -> SUBSET Commits] /\ current \in [Importers -> Commits \cup {NoCommit}]
  /\ left \in [Importers -> SUBSET Sessions]
  /\ pseudo \in [todo : SUBSET Sessions, linking : SUBSET Sessions]
  /\ before \subseteq Nat /\ cleaned \subseteq Ids /\ calm \subseteq Importers
  /\ runs \in 0..MaxRuns /\ faults \in 0..MaxFaults /\ cleans \in 0..MaxCleans

\* A conversation names a task of its own session that exists, whichever imports,
\* pseudo-tasks, failed statements and crashes came together; only clean leaves
\* names of tasks it has deleted.
LinkNamesTask ==
  \A v \in Convs : taskOf[v] # NoTask =>
    v \in stored /\ taskOf[v][1] = SessionOf[v] /\ taskOf[v] \in DOMAIN tasks \cup cleaned

\* A forced run that nothing disturbs repairs what failed statements, pseudo-tasks,
\* a clean or another run have left: every commit has its tasks, and every
\* conversation it was made with belongs to a commit that claims it.
ForcedRunRepairs ==
  \A r \in Importers : forced[r] /\ pc[r] = "ended" /\ r \in calm =>
    /\ commits = Commits
    /\ \A c \in Commits : \A s \in Contributors(c, idx[r]) :
         /\ TaskId(s, c) \in DOMAIN tasks
         /\ \A v \in Span(c, s, idx[r]) :
              \E d \in Commits : taskOf[v] = TaskId(s, d) /\ v \in Span(d, s, idx[r])

\* "The conversation closest to the commit gets the fingerprint" (silica.go:66 and
\* 305): of the conversations in the window of a commit that wrote one of its lines
\* the last one is matched.
ClosestConversationWins ==
  \A r \in Importers : pc[r] \in {"tasks", "commit"} =>
    \A l \in Diff[current[r]] :
      LET wrote == {v \in idx[r] : l \in Prints[v] /\ InWindow(current[r], v)}
      IN  wrote # {} => \E v \in Matched(current[r], idx[r]) : v \in wrote /\ \A w \in wrote : w <= v
=============================================================================
