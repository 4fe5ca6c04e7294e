--------------------------- MODULE TaskLinksProofs ---------------------------
(***************************************************************************)
(* Proofs about TaskLinks, for any conversations, commits and importers.   *)
(*                                                                         *)
(* The id a conversation gets must exist when the column is written, long  *)
(* after the task was saved: Held says of everyone who is about to write   *)
(* an id that the task is there or was cleaned away. What a forced run has *)
(* done so far is Progress; it speaks of a run nothing has disturbed.      *)
(***************************************************************************)
EXTENDS TaskLinks, TLAPS

Known(t) == t \in DOMAIN tasks \cup cleaned

Phases ==
  \A r \in Importers :
    /\ idx[r] \subseteq stored
    /\ pc[r] \in {"tasks", "link", "commit"} => current[r] \in Commits
    /\ pc[r] \in {"idle", "scan", "file", "ended"} => current[r] = NoCommit
    /\ pc[r] = "ended" => todo[r] = {}

Held ==
  /\ \A r \in Importers : pc[r] = "link" => \A s \in left[r] : Known(TaskId(s, current[r]))
  /\ \A s \in pseudo.linking : Known(TaskId(s, NoCommit))
  /\ \A s \in pseudo.todo : stored \cap Of(s) # {}

Claimed(r, v) ==
  \E d \in Commits : taskOf[v] = TaskId(SessionOf[v], d) /\ v \in Span(d, SessionOf[v], idx[r])

\* The tasks of commit c are there and its conversations of sessions S claimed.
Linked(r, c, S) ==
  \A s \in Contributors(c, idx[r]) :
    /\ TaskId(s, c) \in DOMAIN tasks
    /\ s \in S => \A v \in Span(c, s, idx[r]) : Claimed(r, v)

Progress ==
  \A r \in calm : forced[r] /\ pc[r] \notin {"idle", "scan"} =>
    /\ \A c \in Commits \ (todo[r] \cup {current[r]}) :
         c \in commits /\ Linked(r, c, Sessions)
    /\ pc[r] = "link" => Linked(r, current[r], Sessions \ left[r])
    /\ pc[r] = "commit" => Contributors(current[r], idx[r]) = {}

Inv == TypeOK /\ Phases /\ LinkNamesTask /\ Held
-----------------------------------------------------------------------------
(* The functions of a commit and the index.                                *)

\* A span lies in the index and in its session.
LEMMA SpanWithin ==
  ASSUME NEW c, NEW s, NEW index
  PROVE  Span(c, s, index) \subseteq index \cap Of(s)
BY DEF Span

\* Only sessions of the index contribute, each with at least one conversation.
LEMMA ContributorsHaveSpan ==
  ASSUME NEW c, NEW index, index \subseteq Convs, NEW s \in Contributors(c, index)
  PROVE  s \in Sessions /\ Span(c, s, index) # {}
<1>1. PICK v \in Matched(c, index) : s = SessionOf[v]
  BY DEF Contributors
<1>2. v \in index
  BY DEF Matched, OwnerOfLine
<1>3. v \in Nat /\ v <= v
  BY <1>2, LinksAssumption
<1>4. v \in Span(c, s, index)
  BY <1>1, <1>2, <1>3 DEF Span, Of
<1>. QED
  BY <1>1, <1>2, <1>4 DEF Sessions

-----------------------------------------------------------------------------
LEMMA InitInv == Init => Inv /\ Progress
<1>. SUFFICES ASSUME Init PROVE Inv /\ Progress
  OBVIOUS
<1>. USE DEF Init
<1>1. TypeOK
  BY LinksAssumption DEF TypeOK, NoPseudo
<1>2. Phases /\ LinkNamesTask /\ Held /\ Progress
  BY DEF Phases, LinkNamesTask, Held, Progress, NoPseudo
<1>. QED
  BY <1>1, <1>2 DEF Inv

-----------------------------------------------------------------------------
\* Every step keeps the types.
LEMMA TypeStep == TypeOK /\ Phases /\ Held /\ [Next]_vars => TypeOK'
<1>. SUFFICES ASSUME TypeOK, Phases, Held, [Next]_vars PROVE TypeOK'
  OBVIOUS
<1>. USE LinksAssumption DEF TypeOK, Disturbs, Goes, Fault, At, tables, import, bounds
<1>1. ASSUME NEW v \in Convs, ImportConv(v) PROVE TypeOK'
  BY <1>1 DEF ImportConv
<1>2. ASSUME NEW r \in Importers, NEW f \in BOOLEAN, Begin(r, f) PROVE TypeOK'
  BY <1>2 DEF Begin
<1>3. ASSUME NEW r \in Importers,
             ScanRepoDir(r) \/ \E c \in Commits : ScanLookupFails(r, c)
      PROVE  TypeOK'
  <2>1. CASE ScanRepoDir(r)
    BY <2>1 DEF ScanRepoDir
  <2>2. ASSUME NEW c \in Commits, ScanLookupFails(r, c) PROVE TypeOK'
    BY <2>2 DEF ScanLookupFails
  <2>. QED
    BY <1>3, <2>1, <2>2
<1>4. ASSUME NEW r \in Importers, NEW c \in Commits, ImportCommitFile(r, c) \/ FileFails(r, c)
      PROVE  TypeOK'
  <2>1. CASE ImportCommitFile(r, c)
    BY <2>1 DEF ImportCommitFile
  <2>2. CASE FileFails(r, c)
    BY <2>2 DEF FileFails
  <2>. QED
    BY <1>4, <2>1, <2>2
<1>5. ASSUME NEW r \in Importers, SaveTasks(r) PROVE TypeOK'
  <2>. DEFINE c == current[r]
              found == Contributors(c, idx[r])
              new == {TaskId(s, c) : s \in found}
  <2>1. c \in Commits /\ idx[r] \subseteq Convs
    BY <1>5 DEF SaveTasks, Phases
  <2>2. \A s \in found : s \in Sessions /\ Span(c, s, idx[r]) # {} /\ Span(c, s, idx[r]) \subseteq Convs
    BY <2>1, ContributorsHaveSpan, SpanWithin
  <2>3. new \subseteq Ids /\ \A t \in new : t[1] \in found
    BY <2>1, <2>2 DEF TaskId, Ids
  <2>4. /\ tasks' = [t \in DOMAIN tasks \cup new |-> IF t \in new THEN Span(c, t[1], idx[r]) ELSE tasks[t]]
        /\ left' = [left EXCEPT ![r] = found] /\ pc' = [pc EXCEPT ![r] = "link"]
        /\ UNCHANGED <<stored, taskOf, commits, forced, idx, todo, current, pseudo, before, bounds, cleaned>>
        /\ calm' = calm \cap {r}
    BY <1>5 DEF SaveTasks
  <2>. HIDE DEF c, found, new
  <2>5. DOMAIN tasks' \subseteq Ids /\ \A t \in DOMAIN tasks' : tasks'[t] \subseteq Convs /\ tasks'[t] # {}
    BY <2>2, <2>3, <2>4
  <2>6. left' \in [Importers -> SUBSET Sessions]
    BY <2>2, <2>4
  <2>. QED
    BY <2>4, <2>5, <2>6
<1>6. ASSUME NEW r \in Importers,
             SaveTasksFails(r) \/ SaveCommit(r) \/ SaveCommitFails(r) \/ End(r) \/ Crash(r)
      PROVE  TypeOK'
  <2>1. CASE SaveCommit(r)
    <3>1. current[r] \in Commits
      BY <2>1 DEF SaveCommit, AtCommit, Phases
    <3>. QED
      BY <2>1, <3>1 DEF SaveCommit
  <2>2. CASE SaveTasksFails(r)
    BY <2>2 DEF SaveTasksFails
  <2>3. CASE SaveCommitFails(r)
    BY <2>3 DEF SaveCommitFails
  <2>4. CASE End(r)
    BY <2>4 DEF End
  <2>5. CASE Crash(r)
    BY <2>5 DEF Crash
  <2>. QED
    BY <1>6, <2>1, <2>2, <2>3, <2>4, <2>5
<1>7. ASSUME NEW r \in Importers, NEW s \in Sessions, Link(r, s) PROVE TypeOK'
  <2>1. TaskId(s, current[r]) \in Ids
    BY <1>7 DEF TaskId, Ids
  <2>2. taskOf' \in [Convs -> Ids \cup {NoTask}]
    BY <1>7, <2>1 DEF Link
  <2>. QED
    BY <1>7, <2>2 DEF Link
<1>8. ASSUME NEW r \in Importers, NEW s \in Sessions, LinkFails(r, s) PROVE TypeOK'
  BY <1>8 DEF LinkFails
<1>9. ASSUME BeginPseudo PROVE TypeOK'
  <2>1. {SessionOf[v] : v \in stored} \subseteq Sessions
    BY DEF Sessions
  <2>. QED
    BY <1>9, <2>1 DEF BeginPseudo, NoPseudo
<1>10. ASSUME NEW s \in Sessions, SavePseudo(s) PROVE TypeOK'
  <2>. DEFINE t == TaskId(s, NoCommit)
  <2>1. t \in Ids /\ stored \cap Of(s) # {} /\ stored \cap Of(s) \subseteq Convs
    BY <1>10 DEF SavePseudo, Held, TaskId, Ids
  <2>2. /\ tasks' = [i \in DOMAIN tasks \cup {t} |-> IF i = t THEN stored \cap Of(s) ELSE tasks[i]]
        /\ pseudo' = [todo |-> pseudo.todo \ {s}, linking |-> {s}]
        /\ UNCHANGED <<stored, taskOf, commits, import, before, bounds, cleaned>>
        /\ calm' = {}
    BY <1>10 DEF SavePseudo
  <2>. HIDE DEF t
  <2>3. DOMAIN tasks' \subseteq Ids /\ \A i \in DOMAIN tasks' : tasks'[i] \subseteq Convs /\ tasks'[i] # {}
    BY <2>1, <2>2
  <2>. QED
    BY <2>2, <2>3
<1>11. ASSUME NEW s \in Sessions, SavePseudoFails(s) \/ LinkPseudoFails(s) PROVE TypeOK'
  BY <1>11 DEF SavePseudoFails, LinkPseudoFails
<1>12. ASSUME NEW s \in Sessions, LinkPseudo(s) PROVE TypeOK'
  <2>1. TaskId(s, NoCommit) \in Ids
    BY DEF TaskId, Ids
  <2>. QED
    BY <1>12, <2>1 DEF LinkPseudo
<1>13. ASSUME NEW d \in Nat, CleanCommits(d) PROVE TypeOK'
  BY <1>13 DEF CleanCommits
<1>14. ASSUME NEW d \in Nat, CleanTasks(d) PROVE TypeOK'
  BY <1>14 DEF CleanTasks
<1>15. ASSUME UNCHANGED vars PROVE TypeOK'
  BY <1>15 DEF vars
<1>16. \A c \in Commits : Time[c] + 1 \in Nat
  OBVIOUS
<1>. QED
  BY <1>1, <1>2, <1>3, <1>4, <1>5, <1>6, <1>7, <1>8, <1>9, <1>10, <1>11, <1>12, <1>13, <1>14,
     <1>15, <1>16 DEF Next, ImportRepo, PseudoTasks, Clean
\* What is known and claimed stays so while only tasks are added or crossed off to
\* `cleaned`; the phases and the ids held follow.
LEMMA InvStep == Inv /\ [Next]_vars => Inv'
<1>. SUFFICES ASSUME Inv, [Next]_vars PROVE Phases' /\ LinkNamesTask' /\ Held'
  BY TypeStep DEF Inv
<1>0. TypeOK /\ Phases /\ LinkNamesTask /\ Held
  BY DEF Inv
<1>. USE <1>0, LinksAssumption
     DEF Disturbs, Goes, Fault, At, tables, import, bounds
<1>1. ASSUME NEW v \in Convs, ImportConv(v) PROVE Phases' /\ LinkNamesTask' /\ Held'
  BY <1>1 DEF ImportConv, TypeOK, Phases, LinkNamesTask, Held, Known
<1>2. ASSUME NEW r \in Importers, NEW f \in BOOLEAN, Begin(r, f)
      PROVE  Phases' /\ LinkNamesTask' /\ Held'
  BY <1>2 DEF Begin, TypeOK, Phases, LinkNamesTask, Held, Known
<1>3. ASSUME NEW r \in Importers,
             ScanRepoDir(r) \/ \E c \in Commits : ScanLookupFails(r, c)
      PROVE  Phases' /\ LinkNamesTask' /\ Held'
  <2>1. CASE ScanRepoDir(r)
    BY <2>1 DEF ScanRepoDir, TypeOK, Phases, LinkNamesTask, Held, Known
  <2>2. ASSUME NEW c \in Commits, ScanLookupFails(r, c) PROVE Phases' /\ LinkNamesTask' /\ Held'
    BY <2>2 DEF ScanLookupFails, TypeOK, Phases, LinkNamesTask, Held, Known
  <2>. QED
    BY <1>3, <2>1, <2>2
<1>4. ASSUME NEW r \in Importers, NEW c \in Commits, ImportCommitFile(r, c)
      PROVE  Phases' /\ LinkNamesTask' /\ Held'
  BY <1>4 DEF ImportCommitFile, TypeOK, Phases, LinkNamesTask, Held, Known
<1>5. ASSUME NEW r \in Importers, NEW c \in Commits, FileFails(r, c)
      PROVE  Phases' /\ LinkNamesTask' /\ Held'
  BY <1>5 DEF FileFails, TypeOK, Phases, LinkNamesTask, Held, Known
<1>6. ASSUME NEW r \in Importers, SaveTasks(r) PROVE Phases' /\ LinkNamesTask' /\ Held'
  <2>1. /\ pc[r] = "tasks" /\ pc' = [pc EXCEPT ![r] = "link"]
        /\ DOMAIN tasks' = DOMAIN tasks \cup {TaskId(s, current[r]) : s \in left'[r]}
        /\ \A q \in Importers : q # r => left'[q] = left[q]
        /\ UNCHANGED <<stored, taskOf, idx, todo, current, pseudo, cleaned>>
    BY <1>6 DEF SaveTasks, TypeOK
  <2>2. Phases' /\ LinkNamesTask'
    BY <2>1 DEF TypeOK, Phases, LinkNamesTask
  <2>3. Held'
    BY <2>1 DEF TypeOK, Held, Known
  <2>. QED
    BY <2>2, <2>3
<1>7. ASSUME NEW r \in Importers, SaveTasksFails(r) PROVE Phases' /\ LinkNamesTask' /\ Held'
  BY <1>7 DEF SaveTasksFails, TypeOK, Phases, LinkNamesTask, Held, Known
<1>8. ASSUME NEW r \in Importers, SaveCommit(r) PROVE Phases' /\ LinkNamesTask' /\ Held'
  BY <1>8 DEF SaveCommit, TypeOK, Phases, LinkNamesTask, Held, Known
<1>9. ASSUME NEW r \in Importers, SaveCommitFails(r) PROVE Phases' /\ LinkNamesTask' /\ Held'
  BY <1>9 DEF SaveCommitFails, TypeOK, Phases, LinkNamesTask, Held, Known
<1>10. ASSUME NEW r \in Importers, End(r) PROVE Phases' /\ LinkNamesTask' /\ Held'
  BY <1>10 DEF End, TypeOK, Phases, LinkNamesTask, Held, Known
<1>11. ASSUME NEW r \in Importers, Crash(r) PROVE Phases' /\ LinkNamesTask' /\ Held'
  BY <1>11 DEF Crash, TypeOK, Phases, LinkNamesTask, Held, Known
<1>12. ASSUME NEW r \in Importers, NEW s \in Sessions, Link(r, s)
       PROVE  Phases' /\ LinkNamesTask' /\ Held'
  <2>1. Span(current[r], s, idx[r]) \subseteq stored \cap Of(s)
    BY SpanWithin DEF Phases
  <2>2. Known(TaskId(s, current[r])) /\ TaskId(s, current[r])[1] = s
    BY <1>12 DEF Link, Held, TaskId
  <2>3. LinkNamesTask'
    BY <1>12, <2>1, <2>2 DEF Link, TypeOK, LinkNamesTask, Known, Of
  <2>4. Phases' /\ Held'
    BY <1>12 DEF Link, TypeOK, Phases, Held, Known
  <2>. QED
    BY <2>3, <2>4
<1>13. ASSUME NEW r \in Importers, NEW s \in Sessions, LinkFails(r, s)
       PROVE  Phases' /\ LinkNamesTask' /\ Held'
  BY <1>13 DEF LinkFails, TypeOK, Phases, LinkNamesTask, Held, Known
<1>14. ASSUME BeginPseudo PROVE Phases' /\ LinkNamesTask' /\ Held'
  <2>1. \A s \in {SessionOf[v] : v \in stored} : stored \cap Of(s) # {}
    BY DEF Of, TypeOK
  <2>. QED
    BY <1>14, <2>1 DEF BeginPseudo, NoPseudo, TypeOK, Phases, LinkNamesTask, Held, Known
<1>15. ASSUME NEW s \in Sessions, SavePseudo(s) PROVE Phases' /\ LinkNamesTask' /\ Held'
  <2>1. /\ DOMAIN tasks' = DOMAIN tasks \cup {TaskId(s, NoCommit)}
        /\ pseudo' = [todo |-> pseudo.todo \ {s}, linking |-> {s}]
        /\ UNCHANGED <<stored, taskOf, pc, idx, todo, current, left, cleaned>>
    BY <1>15 DEF SavePseudo
  <2>. QED
    BY <2>1 DEF TypeOK, Phases, LinkNamesTask, Held, Known
<1>16. ASSUME NEW s \in Sessions, SavePseudoFails(s) PROVE Phases' /\ LinkNamesTask' /\ Held'
  BY <1>16 DEF SavePseudoFails, TypeOK, Phases, LinkNamesTask, Held, Known
<1>17. ASSUME NEW s \in Sessions, LinkPseudo(s) PROVE Phases' /\ LinkNamesTask' /\ Held'
  <2>1. Known(TaskId(s, NoCommit)) /\ TaskId(s, NoCommit)[1] = s
    BY <1>17 DEF LinkPseudo, Held, TaskId
  <2>2. LinkNamesTask'
    BY <1>17, <2>1 DEF LinkPseudo, TypeOK, LinkNamesTask, Known, Of
  <2>. QED
    BY <1>17, <2>2 DEF LinkPseudo, TypeOK, Phases, Held, Known
<1>18. ASSUME NEW s \in Sessions, LinkPseudoFails(s) PROVE Phases' /\ LinkNamesTask' /\ Held'
  BY <1>18 DEF LinkPseudoFails, TypeOK, Phases, LinkNamesTask, Held, Known
<1>19. ASSUME NEW d, CleanCommits(d) PROVE Phases' /\ LinkNamesTask' /\ Held'
  BY <1>19 DEF CleanCommits, TypeOK, Phases, LinkNamesTask, Held, Known
<1>20. ASSUME NEW d, CleanTasks(d) PROVE Phases' /\ LinkNamesTask' /\ Held'
  <2>1. /\ DOMAIN tasks \cup cleaned \subseteq DOMAIN tasks' \cup cleaned'
        /\ UNCHANGED <<stored, taskOf, pc, idx, todo, current, left, pseudo>>
    BY <1>20 DEF CleanTasks
  <2>. QED
    BY <2>1 DEF TypeOK, Phases, LinkNamesTask, Held, Known
<1>21. ASSUME UNCHANGED vars PROVE Phases' /\ LinkNamesTask' /\ Held'
  BY <1>21 DEF vars, TypeOK, Phases, LinkNamesTask, Held, Known
<1>. QED
  BY <1>1, <1>2, <1>3, <1>4, <1>5, <1>6, <1>7, <1>8, <1>9, <1>10, <1>11, <1>12, <1>13, <1>14,
     <1>15, <1>16, <1>17, <1>18, <1>19, <1>20, <1>21 DEF Next, ImportRepo, PseudoTasks, Clean

\* What an undisturbed run has done stays done: its own later steps only add.
LEMMA ProgressStep == Inv /\ Progress /\ [Next]_vars => Progress'
<1>. SUFFICES ASSUME Inv, Progress, [Next]_vars PROVE Progress'
  OBVIOUS
<1>0. TypeOK /\ Phases
  BY DEF Inv
<1>1. CASE Disturbs
  BY <1>1 DEF Disturbs, Progress
<1>2. ASSUME NEW r \in Importers, NEW f \in BOOLEAN, Begin(r, f) PROVE Progress'
  BY <1>0, <1>2 DEF Begin, At, TypeOK, Progress
<1>3. ASSUME NEW r \in Importers, ScanRepoDir(r) PROVE Progress'
  BY <1>0, <1>3 DEF ScanRepoDir, At, Goes, tables, TypeOK, Progress
<1>4. ASSUME NEW r \in Importers, NEW c \in Commits, ImportCommitFile(r, c) PROVE Progress'
  <2>1. /\ pc[r] = "file" /\ calm' = calm \cap {r}
        /\ pc'[r] = IF Contributors(c, idx[r]) = {} THEN "commit" ELSE "tasks"
        /\ todo'[r] = todo[r] \ {c} /\ current[r] = NoCommit /\ current'[r] = c
        /\ UNCHANGED <<taskOf, tasks, commits, forced, idx>>
    BY <1>0, <1>4 DEF ImportCommitFile, At, Goes, tables, TypeOK, Phases
  <2>2. \A d \in Commits : Linked(r, d, Sessions) => Linked(r, d, Sessions)'
    BY <2>1 DEF Linked, Claimed
  <2>3. Commits \ (todo'[r] \cup {current'[r]}) \subseteq Commits \ (todo[r] \cup {current[r]})
    BY <2>1, LinksAssumption
  <2>4. /\ pc'[r] # "link"
        /\ pc'[r] = "commit" => Contributors(current'[r], idx'[r]) = {}
        /\ pc[r] \notin {"idle", "scan"}
    BY <2>1
  <2>5. calm' \subseteq {r} \cap calm /\ forced' = forced /\ commits' = commits
    BY <2>1
  <2>6. ASSUME r \in calm, forced[r]
        PROVE  \A d \in Commits \ (todo'[r] \cup {current'[r]}) : d \in commits /\ Linked(r, d, Sessions)'
    BY <2>2, <2>3, <2>4, <2>6 DEF Progress
  <2>. QED
    BY <2>4, <2>5, <2>6 DEF Progress
<1>5. ASSUME NEW r \in Importers, SaveTasks(r) PROVE Progress'
  <2>1. /\ pc[r] = "tasks" /\ calm' = calm \cap {r} /\ pc'[r] = "link"
        /\ left'[r] = Contributors(current[r], idx[r])
        /\ DOMAIN tasks' = DOMAIN tasks \cup {TaskId(s, current[r]) : s \in left'[r]}
        /\ UNCHANGED <<taskOf, commits, forced, idx, todo, current>>
    BY <1>0, <1>5 DEF SaveTasks, At, Goes, TypeOK
  <2>. QED
    BY <2>1 DEF Progress, Linked, Claimed
<1>6. ASSUME NEW r \in Importers, NEW s \in Sessions, Link(r, s) PROVE Progress'
  <2>. DEFINE c == current[r]
  <2>1. /\ pc[r] = "link" /\ calm' = calm \cap {r} /\ s \in left[r] /\ left'[r] = left[r] \ {s}
        /\ taskOf' = [v \in Convs |-> IF v \in Span(c, s, idx[r]) THEN TaskId(s, c) ELSE taskOf[v]]
        /\ UNCHANGED <<tasks, commits, pc, forced, idx, todo, current>>
    BY <1>0, <1>6 DEF Link, Goes, TypeOK
  <2>2. c \in Commits /\ idx[r] \subseteq Convs
    BY <1>0, <2>1 DEF Phases, TypeOK
  <2>3. ASSUME NEW v \in Span(c, s, idx[r]) PROVE Claimed(r, v)'
    <3>1. SessionOf[v] = s /\ v \in Convs
      BY <2>2, SpanWithin DEF Of
    <3>. QED
      BY <2>1, <2>2, <3>1 DEF Claimed
  <2>4. ASSUME NEW v \in Convs, Claimed(r, v) PROVE Claimed(r, v)'
    BY <2>1, <2>3, <2>4 DEF Claimed
  <2>5. ASSUME NEW d, NEW S, Linked(r, d, S) PROVE Linked(r, d, S)'
    <3>1. \A q : Span(d, q, idx[r]) \subseteq Convs
      BY <2>2, SpanWithin
    <3>2. idx' = idx /\ tasks' = tasks
      BY <2>1
    <3>. SUFFICES ASSUME NEW q \in Contributors(d, idx[r])
         PROVE  TaskId(q, d) \in DOMAIN tasks /\ (q \in S => \A v \in Span(d, q, idx[r]) : Claimed(r, v)')
      BY <3>2 DEF Linked
    <3>. QED
      BY <2>4, <2>5, <3>1 DEF Linked
  <2>. HIDE DEF c
  <2>6. ASSUME Linked(r, c, Sessions \ left[r]) PROVE Linked(r, c, Sessions \ left[r])'
    <3>1. \A q : Span(c, q, idx[r]) \subseteq Convs
      BY <2>2, SpanWithin
    <3>2. ASSUME NEW q \in Contributors(c, idx[r])
          PROVE  /\ TaskId(q, c) \in DOMAIN tasks
                 /\ q \notin left'[r] => \A v \in Span(c, q, idx[r]) : Claimed(r, v)'
      <4>1. q \in Sessions
        BY <2>2, ContributorsHaveSpan
      <4>2. CASE q = s
        BY <2>3, <2>6, <4>2 DEF Linked
      <4>3. CASE q # s
        BY <2>1, <2>4, <2>6, <3>1, <4>1, <4>3 DEF Linked
      <4>. QED
        BY <4>2, <4>3
    <3>3. idx' = idx /\ tasks' = tasks /\ c' = c
      BY <2>1 DEF c
    <3>. QED
      BY <3>2, <3>3 DEF Linked
  <2>7. ASSUME r \in calm, forced[r]
        PROVE  /\ \A d \in Commits \ (todo[r] \cup {current[r]}) : d \in commits /\ Linked(r, d, Sessions)'
               /\ Linked(r, c, Sessions \ left[r])'
    BY <2>1, <2>5, <2>6, <2>7 DEF Progress, c
  <2>8. ASSUME r \in calm, forced[r] PROVE Linked(r, current[r], Sessions \ left[r])'
    BY <2>7, <2>8 DEF c
  <2>9. /\ calm' \subseteq {r} \cap calm /\ pc'[r] = "link"
        /\ UNCHANGED <<forced, commits, todo, current>>
    BY <2>1
  <2>. QED
    BY <2>7, <2>8, <2>9 DEF Progress
<1>7. ASSUME NEW r \in Importers, SaveCommit(r) PROVE Progress'
  <2>1. /\ AtCommit(r) /\ calm' = calm \cap {r} /\ pc'[r] = "file" /\ current'[r] = NoCommit
        /\ commits' = commits \cup {current[r]}
        /\ UNCHANGED <<taskOf, tasks, forced, idx, todo>>
    BY <1>0, <1>7 DEF SaveCommit, At, Goes, TypeOK
  <2>2. ASSUME r \in calm, forced[r] PROVE Linked(r, current[r], Sessions)
    <3>1. idx[r] \subseteq Convs
      BY <1>0 DEF TypeOK
    <3>2. \A q \in Contributors(current[r], idx[r]) : q \in Sessions
      BY <3>1, ContributorsHaveSpan
    <3>. QED
      BY <2>1, <2>2, <3>2 DEF AtCommit, Progress, Linked
  <2>. QED
    BY <2>1, <2>2 DEF Progress, Linked, Claimed, AtCommit
<1>8. ASSUME NEW r \in Importers, End(r) PROVE Progress'
  <2>1. /\ pc[r] = "file" /\ pc'[r] = "ended" /\ calm' = calm \cap {r}
        /\ UNCHANGED <<taskOf, tasks, commits, forced, idx, todo, current>>
    BY <1>0, <1>8 DEF End, At, Goes, tables, TypeOK
  <2>. QED
    BY <2>1 DEF Progress, Linked, Claimed
<1>9. CASE UNCHANGED vars
  BY <1>9 DEF vars, tables, import, Progress, Linked, Claimed
<1>. QED
  BY <1>1, <1>2, <1>3, <1>4, <1>5, <1>6, <1>7, <1>8, <1>9
     DEF Next, ImportRepo, PseudoTasks, Clean, ImportConv, ScanLookupFails, FileFails,
         SaveTasksFails, LinkFails,
         SaveCommitFails, Crash, BeginPseudo, SavePseudo, SavePseudoFails, LinkPseudo,
         LinkPseudoFails, CleanCommits, CleanTasks

LEMMA Invariance == Spec => [](Inv /\ Progress)
<1>1. Init => Inv /\ Progress
  BY InitInv
<1>2. (Inv /\ Progress) /\ [Next]_vars => (Inv /\ Progress)'
  BY InvStep, ProgressStep
<1>. QED
  BY <1>1, <1>2, PTL DEF Spec

\* The tables and the runs keep their types; in particular every task spans a
\* conversation, so that it has a start and an end.
THEOREM TypeCorrect == Spec => []TypeOK
<1>1. Inv => TypeOK
  BY DEF Inv
<1>. QED
  BY <1>1, Invariance, PTL

\* A conversation names an existing task of its session, or one that clean deleted.
THEOREM LinksResolve == Spec => []LinkNamesTask
<1>1. Inv => LinkNamesTask
  BY DEF Inv
<1>. QED
  BY <1>1, Invariance, PTL

\* From any tables, however many runs, faults and cleans have left them, a forced
\* run that nothing disturbs leaves every commit with its tasks and links.
THEOREM RepairIsComplete == Spec => []ForcedRunRepairs
<1>1. ASSUME Inv, Progress PROVE ForcedRunRepairs
  <2>. SUFFICES ASSUME NEW r \in Importers, forced[r], pc[r] = "ended", r \in calm
       PROVE  /\ commits = Commits
              /\ \A c \in Commits : \A s \in Contributors(c, idx[r]) :
                   /\ TaskId(s, c) \in DOMAIN tasks
                   /\ \A v \in Span(c, s, idx[r]) :
                        \E d \in Commits : taskOf[v] = TaskId(s, d) /\ v \in Span(d, s, idx[r])
    BY DEF ForcedRunRepairs
  <2>1. todo[r] = {} /\ current[r] \notin Commits /\ commits \subseteq Commits /\ idx[r] \subseteq Convs
    BY <1>1, LinksAssumption DEF Inv, Phases, TypeOK
  <2>2. \A c \in Commits : c \in commits /\ Linked(r, c, Sessions)
    BY <1>1, <2>1 DEF Progress
  <2>3. ASSUME NEW c \in Commits, NEW s \in Contributors(c, idx[r])
        PROVE  /\ TaskId(s, c) \in DOMAIN tasks
               /\ \A v \in Span(c, s, idx[r]) : SessionOf[v] = s /\ Claimed(r, v)
    BY <2>1, <2>2, ContributorsHaveSpan, SpanWithin DEF Linked, Of
  <2>. QED
    BY <2>1, <2>2, <2>3 DEF Claimed
<1>. QED
  BY <1>1, Invariance, PTL
=============================================================================
