---------------------------- MODULE NeedPipeline ----------------------------
(***************************************************************************)
(* `kbcli efficiency-v2`: the tables a run reads and writes, from the      *)
(* imported conversations and commits to the weekly rows per user          *)
(* (kbcli/cmd_efficiency_v2.go and kbcli/internal/efficiencyv2). The steps *)
(* of a run are separate transactions, nothing excludes a second run (the  *)
(* task queue has two workers, the CLI is a third process), an import may  *)
(* commit between two steps and every step may fail.                       *)
(*                                                                         *)
(* Instants are numbers. Each lies on a day of the time zone of the        *)
(* database session, which every comparison with a date uses (DATE(...)),  *)
(* and on a day in UTC, by which missing dates and weeks are found: the DSN*)
(* (core/config/database.go:16) names no time zone, so that the session has*)
(* that of the server (compose/postgres/postgres.yml:6).                   *)
(*                                                                         *)
(* A conversation stands for the one event it is normalised to and for one *)
(* active minute. A step of a run is one action: it reads several tables   *)
(* and writes one (efficiency_v2_need_boundary.go:66-116), so that other   *)
(* runs step between the steps but not within one. Left out: evidence in a *)
(* session's payload (PR or need id, boundary_source, issue, file cluster; *)
(* efficiency_v2_need_boundary.go:255-277, 318-328), merge commits,        *)
(* filters by organisation and the baseline columns of a need.             *)
(***************************************************************************)
EXTENDS Integers, FiniteSets, FiniteSetsExt

CONSTANTS
  Runs,                   \* runs of the pipeline that may be under way at once
  Convs, Commits,         \* what import may bring in; Commits are numbers
  Sessions,               \* session ids, numbers
  SessionOf, StartTime,   \* conversation -> session, instant of start_time
  Session,                \* session -> its user, repo and branch
  Commit,                 \* commit -> its user, repo, branch and instant (at),
                          \*   and the number of the PR its comment names, or NoPR
  Mainline, NoPR, NoNeed, NoRun,
  LocalDay, UtcDay,       \* instant -> its day, of the database session and in UTC
  MaxTime, MaxDay, WeekLen,
  MaxRuns, MaxFailures    \* bounds of the model on starts and on failures

ASSUME PipelineAssumption ==
  /\ MaxTime \in Nat /\ MaxDay \in Nat \ {0} /\ WeekLen \in Nat \ {0}
  /\ \A c \in Convs : SessionOf[c] \in Sessions /\ StartTime[c] \in 0..MaxTime
  /\ \A k \in Commits : Commit[k].at \in 0..MaxTime
  /\ LocalDay \in [0..MaxTime -> 1..MaxDay] /\ UtcDay \in [0..MaxTime -> 1..MaxDay]
  /\ \A t, u \in 0..MaxTime : t <= u => LocalDay[t] <= LocalDay[u]
  /\ Sessions \subseteq Nat /\ Commits \subseteq Nat
  /\ NoRun \notin Runs

VARIABLES
  convs, commits,   \* tables conversations and commits: what has been imported
  events,           \* table conversation_events
  metrics,          \* table session_stage_metrics: session -> counted events, need_id
  needs,            \* table needs
  rows,             \* table user_productivity_v2
  pc, win, local,   \* per run: next step, window, the slice it carries along
  links,            \* per run: the needs whose sessions are still to be linked
  starts, failures, \* how often a run was started, and failed
  calm,             \* the run that has had the database to itself so far
  done              \* the last run that had, while nothing has changed since

tables == <<events, metrics, needs, rows>>
vars == <<convs, commits, events, metrics, needs, rows, pc, win, local, links,
          starts, failures, calm, done>>

Times == 0..MaxTime
Days == 1..MaxDay
Week(t) == (UtcDay[t] - 1) \div WeekLen      \* EfficiencyV2MondayAnchor

\* DATE(t) BETWEEN the dates of the window. Faulty: the last day is left out.
InWindowOpen(t, w) == w.from <= LocalDay[t] /\ LocalDay[t] < w.to
InWindow(t, w) == w.from <= LocalDay[t] /\ LocalDay[t] <= w.to

NoMetric == [evs |-> {}, need |-> NoNeed]

\* INSERT ... ON CONFLICT DO UPDATE of every column of the model.
Upsert(old, new) == [k \in DOMAIN old \cup DOMAIN new |->
                       IF k \in DOMAIN new THEN new[k] ELSE old[k]]

Empty == [k \in {} |-> k]

\* The conversations of a window, and what they add up to per session.
Selected(w) == {c \in convs : InWindow(StartTime[c], w)}
Grouped(sel) == [s \in {SessionOf[c] : c \in sel} |-> {c \in sel : SessionOf[c] = s}]

-----------------------------------------------------------------------------
(* ResolveEfficiencyV2Needs: which need a session or a commit belongs to.  *)

SessionTimes(s) == {StartTime[c] : c \in {e \in events : SessionOf[e] = s}}
Measured == {s \in Sessions : metrics[s].evs # {}}

CommitsIn(w) == {k \in commits : InWindow(Commit[k].at, w)}

\* The order of the commits query: commit_time, then commit_id.
Earlier(j, k) == Commit[j].at < Commit[k].at \/ (Commit[j].at = Commit[k].at /\ j <= k)
FirstCommit(S) == CHOOSE k \in S : \A j \in S : Earlier(k, j)

Place(x) == <<x.repo, x.branch>>

\* efficiencyV2PropagateCommitBoundaryClues: the first PR named on a branch is
\* given to everything on that branch that names none.
Clue(place, w) ==
  LET named == {k \in CommitsIn(w) : Place(Commit[k]) = place /\ Commit[k].pr # NoPR}
  IN  IF named = {} THEN NoPR ELSE Commit[FirstCommit(named)].pr

\* efficiencyV2ResolveNaturalBoundary: x is a session or a commit.
Boundary(pr, x, start) ==
  CASE pr # NoPR -> <<"pr", pr>>
    [] pr = NoPR /\ x.branch # Mainline -> <<"branch", x.repo, x.branch>>
    [] OTHER -> <<"orphan", x.user, Week(start)>>

SessionKey(s, w) == Boundary(Clue(Place(Session[s]), w), Session[s], Min(SessionTimes(s)))

CommitKey(k, w) == Boundary(IF Commit[k].pr # NoPR THEN Commit[k].pr ELSE Clue(Place(Commit[k]), w),
                            Commit[k], Commit[k].at)

\* efficiencyV2BuildNeed: sessions come before commits, in the order of their
\* queries, and the first candidate gives the primary user.
BuildNeed(ss, ks) ==
  LET times == (UNION {SessionTimes(s) : s \in ss}) \cup {Commit[k].at : k \in ks}
  IN  [sessions |-> ss, commits |-> ks,
       user |-> IF ss # {} THEN Session[Min(ss)].user ELSE Commit[FirstCommit(ks)].user,
       from |-> Min(times), to |-> Max(times), work |-> 0]

ResolveNeeds(w) ==
  [key \in {SessionKey(s, w) : s \in Measured} \cup {CommitKey(k, w) : k \in CommitsIn(w)} |->
     BuildNeed({s \in Measured : SessionKey(s, w) = key},
               {k \in CommitsIn(w) : CommitKey(k, w) = key})]

\* aggregateOneEfficiencyV2Need: active minutes of the sessions plus the
\* commits that lie in no session of the need.
Covered(k, ss) == \E s \in ss : LET t == {StartTime[c] : c \in metrics[s].evs}
                                IN  t # {} /\ Min(t) <= Commit[k].at /\ Commit[k].at <= Max(t)
Actuals(need) == Cardinality(UNION {metrics[s].evs : s \in need.sessions})
                 + Cardinality({k \in need.commits : ~Covered(k, need.sessions)})

\* AggregateEfficiencyV2UserProductivity: one row per user and week of dev_end.
RowKey(n) == <<n.user, Week(n.to)>>
Bucket(slice, x) == [k \in {j \in DOMAIN slice : RowKey(slice[j]) = x} |-> slice[k]]
Work(b) == MapThenSumSet(LAMBDA k : b[k].work, DOMAIN b)
UserWeekRow(b) == [needs |-> DOMAIN b, work |-> Work(b),
                   merged |-> Cardinality({k \in DOMAIN b : b[k].commits # {}})]
BuildRows(slice) == [x \in {RowKey(slice[k]) : k \in DOMAIN slice} |-> UserWeekRow(Bucket(slice, x))]

\* The needs whose development overlaps the window. Faulty: those that begin in it.
BegunIn(w) == {k \in DOMAIN needs : InWindow(needs[k].from, w)}
Overlapping(w) == {k \in DOMAIN needs : /\ LocalDay[needs[k].to] >= w.from
                                        /\ LocalDay[needs[k].from] <= w.to}
Slice(keys) == [k \in keys |-> needs[k]]

-----------------------------------------------------------------------------
NoWindow == [from |-> 1, to |-> MaxDay, auto |-> FALSE]

Init ==
  /\ convs = {} /\ commits = {} /\ events = {}
  /\ metrics = [s \in Sessions |-> NoMetric]
  /\ needs = Empty /\ rows = Empty
  /\ pc = [r \in Runs |-> "idle"]
  /\ win = [r \in Runs |-> NoWindow]
  /\ local = [r \in Runs |-> Empty]
  /\ links = [r \in Runs |-> {}]
  /\ starts = 0 /\ failures = 0
  /\ calm = NoRun /\ done = NoRun

\* import-conv and import-repo commit new rows at any time. A conversation row
\* is inserted once (ON CONFLICT DO NOTHING); none is deleted.
Import ==
  /\ \/ \E c \in Convs \ convs : convs' = convs \cup {c} /\ UNCHANGED commits
     \/ \E k \in Commits \ commits : commits' = commits \cup {k} /\ UNCHANGED convs
  /\ calm' = NoRun /\ done' = NoRun
  /\ UNCHANGED <<tables, pc, win, local, links, starts, failures>>

\* A date that is not given (0) is that of the first or last conversation imported
\* so far, in UTC. Two given dates must be in order.
Window(a, b) ==
  LET range == {UtcDay[StartTime[c]] : c \in convs}
  IN  [from |-> IF a # 0 THEN a ELSE IF range = {} THEN 1 ELSE Min(range),
       to   |-> IF b # 0 THEN b ELSE IF range = {} THEN MaxDay ELSE Max(range),
       auto |-> a = 0 /\ b = 0]

Idle == \A r \in Runs : pc[r] = "idle"

Start(r) ==
  /\ pc[r] = "idle"
  /\ starts < MaxRuns
  /\ \E a, b \in 0..MaxDay :
       /\ a # 0 /\ b # 0 => a <= b
       /\ win' = [win EXCEPT ![r] = Window(a, b)]
  /\ pc' = [pc EXCEPT ![r] = "events"]
  /\ starts' = starts + 1
  /\ calm' = IF Idle THEN r ELSE NoRun
  /\ done' = IF Idle /\ done # NoRun /\ done.win = win'[r] THEN done ELSE NoRun
  /\ UNCHANGED <<convs, commits, tables, local, links, failures>>

Goto(r, from, to) == pc[r] = from /\ pc' = [pc EXCEPT ![r] = to]

\* NormalizeAndUpsertEfficiencyV2ConversationEvents. The events of the window
\* are handed to the next step; those of earlier runs stay in the table.
UpsertEvents(r) ==
  /\ Goto(r, "events", "metrics")
  /\ events' = events \cup Selected(win[r])
  /\ local' = [local EXCEPT ![r] = Grouped(Selected(win[r]))]
  /\ UNCHANGED <<convs, commits, metrics, needs, rows, win, links, starts, failures, calm, done>>

\* BuildAndUpsertEfficiencyV2SessionStageMetrics replaces the whole row of every
\* session with an event in the window, need_id included.
UpsertMetrics(r) ==
  /\ Goto(r, "metrics", "resolve")
  /\ metrics' = [s \in Sessions |-> IF s \in DOMAIN local[r]
                                     THEN [evs |-> local[r][s], need |-> NoNeed]
                                     ELSE metrics[s]]
  /\ local' = [local EXCEPT ![r] = Empty]
  /\ UNCHANGED <<convs, commits, events, needs, rows, win, links, starts, failures, calm, done>>

\* Faulty: an update of known needs in place of the upsert.
UpdateNeeds(r) ==
  /\ Goto(r, "resolve", "link")
  /\ LET resolved == ResolveNeeds(win[r])
     IN  /\ needs' = [k \in DOMAIN needs |-> IF k \in DOMAIN resolved THEN resolved[k] ELSE needs[k]]
         /\ local' = [local EXCEPT ![r] = resolved]
         /\ links' = [links EXCEPT ![r] = {k \in DOMAIN resolved : resolved[k].sessions # {}}]
  /\ UNCHANGED <<convs, commits, events, metrics, rows, win, starts, failures, calm, done>>

\* ResolveAndUpsertEfficiencyV2Needs reads every metric and every event but only
\* the commits of the window. The upsert leaves the actuals of a known need.
UpsertNeeds(r) ==
  /\ Goto(r, "resolve", "link")
  /\ LET resolved == ResolveNeeds(win[r])
         kept == [k \in DOMAIN resolved |->
                    [resolved[k] EXCEPT !.work = IF k \in DOMAIN needs THEN needs[k].work ELSE 0]]
     IN  /\ needs' = Upsert(needs, kept)
         /\ local' = [local EXCEPT ![r] = resolved]
         /\ links' = [links EXCEPT ![r] = {k \in DOMAIN resolved : resolved[k].sessions # {}}]
  /\ UNCHANGED <<convs, commits, events, metrics, rows, win, starts, failures, calm, done>>

\* updateEfficiencyV2StageMetricNeedIDs: one UPDATE per need, outside any
\* transaction; needs without sessions are passed over.
LinkMetrics(r) ==
  /\ pc[r] = "link"
  /\ \E k \in links[r] :
       /\ metrics' = [s \in Sessions |-> IF s \in local[r][k].sessions
                                          THEN [metrics[s] EXCEPT !.need = k] ELSE metrics[s]]
       /\ links' = [links EXCEPT ![r] = @ \ {k}]
  /\ UNCHANGED <<convs, commits, events, needs, rows, pc, win, local, starts, failures, calm, done>>

LinksWritten(r) ==
  /\ links[r] = {}
  /\ Goto(r, "link", "actuals")
  /\ UNCHANGED <<convs, commits, tables, win, local, links, starts, failures, calm, done>>

\* Faulty: the minutes of a run are added to those of the last one.
AddActuals(r) ==
  /\ Goto(r, "actuals", "load")
  /\ needs' = [k \in DOMAIN needs |->
       IF k \in DOMAIN local[r] THEN [needs[k] EXCEPT !.work = @ + Actuals(local[r][k])]
                                ELSE needs[k]]
  /\ local' = [local EXCEPT ![r] = Empty]
  /\ UNCHANGED <<convs, commits, events, metrics, rows, win, links, starts, failures, calm, done>>

\* Faulty: only needs without actuals are aggregated.
UpsertMissingActuals(r) ==
  /\ Goto(r, "actuals", "load")
  /\ needs' = [k \in DOMAIN needs |->
       IF k \in DOMAIN local[r] /\ needs[k].work = 0
       THEN [needs[k] EXCEPT !.work = Actuals(local[r][k])] ELSE needs[k]]
  /\ local' = [local EXCEPT ![r] = Empty]
  /\ UNCHANGED <<convs, commits, events, metrics, rows, win, links, starts, failures, calm, done>>

\* AggregateAndUpsertEfficiencyV2NeedActuals works on the run's own needs and
\* reads the metrics again.
UpsertActuals(r) ==
  /\ Goto(r, "actuals", "load")
  /\ needs' = [k \in DOMAIN needs |->
       IF k \in DOMAIN local[r] THEN [needs[k] EXCEPT !.work = Actuals(local[r][k])]
                                ELSE needs[k]]
  /\ local' = [local EXCEPT ![r] = Empty]
  /\ UNCHANGED <<convs, commits, events, metrics, rows, win, links, starts, failures, calm, done>>

\* AggregateAndUpsertEfficiencyV2UserProductivity: load, then upsert whole rows.
LoadNeeds(r) ==
  /\ Goto(r, "load", "write")
  /\ local' = [local EXCEPT ![r] = Slice(Overlapping(win[r]))]
  /\ UNCHANGED <<convs, commits, tables, win, links, starts, failures, calm, done>>

\* Faulty: the first row written for a user and a week stays.
InsertRows(r) ==
  /\ Goto(r, "write", "idle")
  /\ rows' = Upsert(BuildRows(local[r]), rows)
  /\ UNCHANGED <<convs, commits, events, metrics, needs, links, starts, failures>>
  /\ local' = [local EXCEPT ![r] = Empty]
  /\ win' = [win EXCEPT ![r] = NoWindow]
  /\ calm' = IF calm = r THEN NoRun ELSE calm
  /\ done' = IF calm = r THEN [win |-> win[r], tables |-> tables'] ELSE NoRun

WriteRows(r) ==
  /\ Goto(r, "write", "idle")
  /\ rows' = Upsert(rows, BuildRows(local[r]))
  /\ UNCHANGED <<convs, commits, events, metrics, needs, links, starts, failures>>
  /\ local' = [local EXCEPT ![r] = Empty]
  /\ win' = [win EXCEPT ![r] = NoWindow]
  /\ calm' = IF calm = r THEN NoRun ELSE calm
  /\ done' = IF calm = r THEN [win |-> win[r], tables |-> tables'] ELSE NoRun

\* A statement fails, or the process dies: what has been committed stays.
Fail(r) ==
  /\ pc[r] # "idle"
  /\ failures < MaxFailures
  /\ failures' = failures + 1
  /\ pc' = [pc EXCEPT ![r] = "idle"]
  /\ local' = [local EXCEPT ![r] = Empty]
  /\ links' = [links EXCEPT ![r] = {}]
  /\ win' = [win EXCEPT ![r] = NoWindow]
  /\ calm' = NoRun /\ done' = NoRun
  /\ UNCHANGED <<convs, commits, tables, starts>>

RunStep(r) == \/ UpsertEvents(r) \/ UpsertMetrics(r) \/ UpsertNeeds(r) \/ LinkMetrics(r)
              \/ LinksWritten(r) \/ UpsertActuals(r) \/ LoadNeeds(r) \/ WriteRows(r)

Next == Import \/ \E r \in Runs : Start(r) \/ RunStep(r) \/ Fail(r)

Spec == Init /\ [][Next]_vars

-----------------------------------------------------------------------------
Source == {Session[s] : s \in Sessions} \cup {Commit[k] : k \in Commits}
Keys == {<<"pr", Commit[k].pr>> : k \in Commits}
        \cup {<<"branch", x.repo, x.branch>> : x \in Source}
        \cup {<<"orphan", x.user, Week(t)>> : x \in Source, t \in Times}

TypeOK ==
  /\ convs \subseteq Convs /\ commits \subseteq Commits /\ events \subseteq convs
  /\ \A s \in Sessions : /\ metrics[s].evs \subseteq {c \in events : SessionOf[c] = s}
                         /\ metrics[s].need \in DOMAIN needs \cup {NoNeed}
  /\ DOMAIN needs \subseteq Keys
  /\ \A k \in DOMAIN needs : /\ needs[k].from \in Times /\ needs[k].to \in Times
                             /\ needs[k].from <= needs[k].to /\ needs[k].work \in Nat
  /\ \A x \in DOMAIN rows : rows[x].needs \subseteq DOMAIN needs

\* A second run with the same dates, and nothing else in between, leaves the
\* same logical rows in all four tables (the comment of RunEfficiencyV2Pipeline).
\* Not obvious, because the run first clears need_id and overwrites metrics.
RerunIsIdempotent ==
  [][\A r \in Runs : pc[r] = "write" /\ pc'[r] = "idle" /\ calm = r /\ done # NoRun
        => tables' = done.tables]_vars

\* After a run that had the database to itself, whatever failed runs, narrow
\* runs or overlapping runs left behind, every measured session names a need
\* that names the session, and that need's actuals are those of the metrics.
LinksAreMutual ==
  Idle /\ done # NoRun =>
    \A s \in Measured : /\ metrics[s].need \in DOMAIN needs
                        /\ s \in needs[metrics[s].need].sessions
                        /\ needs[metrics[s].need].work = Actuals(needs[metrics[s].need])

\* The local day of c is not after, and not before, all days in UTC.
BetweenUtcDays(c) == /\ \E d \in convs : LocalDay[StartTime[c]] <= UtcDay[StartTime[d]]
                     /\ \E d \in convs : UtcDay[StartTime[d]] <= LocalDay[StartTime[c]]

\* A run without dates repairs what narrow and interrupted runs damaged: every
\* imported conversation is counted in its session's metric again, but for those on
\* a local day after the last day, or before the first, that any conversation has in
\* UTC (cmd_efficiency_v2.go:369 against efficiency_v2_events.go:222, 225).
FullRunCovers ==
  Idle /\ done # NoRun /\ done.win.auto =>
    \A c \in convs : BetweenUtcDays(c) => c \in metrics[SessionOf[c]].evs

\* The weeks that have no day outside the window.
WeekInside(week, w) == \A t \in Times : Week(t) = week => InWindow(t, w)

\* A run leaves the rows of the weeks inside its window as the whole table of needs
\* has them, although it reads a part of it and adds up whole weeks: no need that
\* counts in such a week is missing from what it reads, and no figure of an earlier
\* run survives in a row that still has needs. Of other weeks it is not so: a need that
\* reaches out of the window takes the row of the week it ends in along, which is
\* written anew from what the window shows (efficiency_v2_user_productivity.go:22).
RowsMatchNeeds ==
  Idle /\ done # NoRun =>
    LET fresh == BuildRows(needs)
    IN  \A x \in DOMAIN fresh : WeekInside(x[2], done.win) => x \in DOMAIN rows /\ rows[x] = fresh[x]

-----------------------------------------------------------------------------
(* What a comment of the code says and the code does not do.               *)

\* cmd_efficiency_v2.go:355: a run without dates spans every DATE(start_time) there
\* is. It ends on the last day in UTC, which the newest DATE(start_time) may follow.
RangeIsOfDates ==
  Idle /\ done # NoRun /\ done.win.auto => \A c \in convs : InWindow(StartTime[c], done.win)
=============================================================================
