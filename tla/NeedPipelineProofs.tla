--------------------------- MODULE NeedPipelineProofs ---------------------------
(***************************************************************************)
(* Proofs about NeedPipeline, for any conversations, commits, windows and  *)
(* number of runs.                                                         *)
(*                                                                         *)
(* What the tables owe to a run is stated per window: Counted, Resolved,   *)
(* LinkedBy and RowsCurrent. Progress says which of them the run that has  *)
(* had the database to itself has established at each of its steps, Rerun  *)
(* that a second such run with the same dates finds what it is about to    *)
(* write, and Quiet when there is such a run at all.                       *)
(***************************************************************************)
EXTENDS NeedPipeline, FiniteSetTheorems, TLAPS

Users == {x.user : x \in Source}
NeedRec == [sessions : SUBSET Sessions, commits : SUBSET Commits, user : Users,
            from : Times, to : Times, work : Nat]
WindowRec == [from : Days, to : Days, auto : BOOLEAN]
Steps == {"idle", "events", "metrics", "resolve", "link", "actuals", "load", "write"}

Function(f) == f = [x \in DOMAIN f |-> f[x]]

Tables ==
  /\ IsFiniteSet(convs) /\ IsFiniteSet(commits)
  /\ metrics \in [Sessions -> [evs : SUBSET Convs, need : Keys \cup {NoNeed}]]
  /\ needs \in [DOMAIN needs -> NeedRec]
  /\ Function(rows)

\* What a run holds between two of its steps, alone or not.
Held(r) ==
  /\ pc[r] = "metrics" =>
       /\ Function(local[r]) /\ DOMAIN local[r] \subseteq Sessions
       /\ \A s \in DOMAIN local[r] : local[r][s] \subseteq {c \in events : SessionOf[c] = s}
  /\ pc[r] \in {"link", "actuals"} =>
       /\ local[r] \in [DOMAIN local[r] -> NeedRec]
       /\ DOMAIN local[r] \subseteq DOMAIN needs
       /\ \A k \in DOMAIN local[r] : local[r][k].commits \subseteq commits
  /\ pc[r] = "link" => links[r] \subseteq DOMAIN local[r]
  /\ pc[r] = "write" => DOMAIN local[r] \subseteq DOMAIN needs

Shape ==
  /\ pc \in [Runs -> Steps] /\ win \in [Runs -> WindowRec]
  /\ DOMAIN local = Runs /\ Function(local)
  /\ DOMAIN links = Runs /\ Function(links)
  /\ calm \in Runs \cup {NoRun}
  /\ \A r \in Runs : Held(r)

Types == TypeOK /\ Tables /\ Shape

-----------------------------------------------------------------------------
(* What the tables hold after a run with window w.                         *)

Counted(w) ==
  /\ Selected(w) \subseteq events
  /\ \A s \in DOMAIN Grouped(Selected(w)) : metrics[s].evs = Grouped(Selected(w))[s]

Worked(n) == [n EXCEPT !.work = Actuals(n)]

Resolved(w) ==
  \A k \in DOMAIN ResolveNeeds(w) : k \in DOMAIN needs /\ needs[k] = Worked(ResolveNeeds(w)[k])

\* The metrics m name the needs that name their sessions.
LinkedBy(m, w) ==
  \A k \in DOMAIN ResolveNeeds(w) : \A s \in ResolveNeeds(w)[k].sessions : m[s].need = k

RowsCurrent(w) ==
  LET fresh == BuildRows(Slice(Overlapping(w)))
  IN  \A x \in DOMAIN fresh : x \in DOMAIN rows /\ rows[x] = fresh[x]

Spans(w) == w.auto => \A c \in convs : BetweenUtcDays(c) => InWindow(StartTime[c], w)

-----------------------------------------------------------------------------
\* The other runs are idle; and the tables a former run left are unchanged.
Quiet ==
  /\ calm \in Runs => pc[calm] # "idle" /\ \A r \in Runs \ {calm} : pc[r] = "idle"
  /\ done # NoRun => Idle \/ (calm \in Runs /\ win[calm] = done.win)

Progress(r) ==
  LET w == win[r]
  IN  /\ Spans(w)
      /\ pc[r] # "events" => Selected(w) \subseteq events
      /\ pc[r] = "metrics" => local[r] = Grouped(Selected(w))
      /\ pc[r] \in {"resolve", "link", "actuals", "load", "write"} => Counted(w)
      /\ pc[r] \in {"link", "actuals"} =>
           /\ local[r] = ResolveNeeds(w)
           /\ \A k \in DOMAIN local[r] :
                /\ needs[k] = [local[r][k] EXCEPT !.work = needs[k].work]
                /\ \/ pc[r] = "link" /\ k \in links[r]
                   \/ \A s \in local[r][k].sessions : metrics[s].need = k
      /\ pc[r] \in {"load", "write"} => Resolved(w) /\ LinkedBy(metrics, w)
      /\ pc[r] = "write" => local[r] = Slice(Overlapping(w))

Rerun(r) ==
  LET w == win[r]
      old == done.tables[2]
  IN  /\ done.tables = <<events, old, needs, rows>>
      /\ old \in [Sessions -> [evs : SUBSET Convs, need : Keys \cup {NoNeed}]]
      /\ pc[r] = "events" => Selected(w) \subseteq events
      /\ pc[r] \in {"events", "metrics"} => Counted(w)
      /\ Resolved(w) /\ LinkedBy(old, w) /\ RowsCurrent(w)
      /\ \A s \in Sessions :
           /\ metrics[s].evs = old[s].evs
           /\ \/ metrics[s] = old[s]
              \/ pc[r] = "resolve" /\ s \in Measured
              \/ pc[r] = "link" /\ \E k \in links[r] : s \in local[r][k].sessions

AllDone ==
  LET w == done.win
  IN  /\ Spans(w) /\ Counted(w) /\ Resolved(w) /\ LinkedBy(metrics, w) /\ RowsCurrent(w)
      /\ w \in WindowRec /\ done.tables = tables

Alone ==
  /\ calm \in Runs => Progress(calm)
  /\ calm \in Runs /\ done # NoRun => Rerun(calm)
  /\ Idle /\ done # NoRun => AllDone

IInv == Types /\ Quiet /\ Alone

-----------------------------------------------------------------------------
(* The first of a set: days, sessions, commits.                            *)

\* A nonempty set of numbers has a least one.
LEMMA MinOf ==
  ASSUME NEW S, S \subseteq Nat, S # {}
  PROVE  Min(S) \in S /\ \A y \in S : Min(S) <= y
<1>1. \E x \in S : \A y \in S : ~(<<y, x>> \in OpToRel(<, Nat))
  BY NatLessThanWellFounded, WFMin
<1>2. \E x \in S : \A y \in S : x <= y
  <2>1. PICK x \in S : \A y \in S : ~(<<y, x>> \in OpToRel(<, Nat))
    BY <1>1
  <2>2. ASSUME NEW y \in S PROVE ~(y < x)
    BY <2>1 DEF OpToRel
  <2>. QED
    BY <2>2
<1>. QED
  BY <1>2 DEF Min

\* A nonempty set of days, or of instants, has a last one.
LEMMA MaxOf ==
  ASSUME NEW n \in Nat, NEW S, S \subseteq 0..n, S # {}
  PROVE  Max(S) \in S /\ \A y \in S : Max(S) >= y
<1>. DEFINE T == {n - d : d \in S}
<1>1. T \subseteq Nat /\ T # {}
  <2>1. \A d \in S : d \in 0..n
    OBVIOUS
  <2>2. \A d \in S : n - d \in Nat
    BY <2>1
  <2>3. PICK d \in S : TRUE
    OBVIOUS
  <2>4. n - d \in T
    OBVIOUS
  <2>. QED
    BY <2>2, <2>4
<1>2. Min(T) \in T /\ \A t \in T : Min(T) <= t
  <2>. HIDE DEF T
  <2>. QED
    BY <1>1, MinOf
<1>3. PICK d \in S : Min(T) = n - d
  BY <1>2
<1>4. \A y \in S : d >= y
  <2>. SUFFICES ASSUME NEW y \in S PROVE d >= y
    OBVIOUS
  <2>1. n - y \in T
    OBVIOUS
  <2>2. n - d <= n - y
    BY <1>2, <1>3, <2>1
  <2>. QED
    BY <2>2
<1>. QED
  BY <1>4 DEF Max

\* The commits query has a first row.
LEMMA FirstOf ==
  ASSUME NEW S, S \subseteq Commits, S # {}
  PROVE  FirstCommit(S) \in S
<1>. DEFINE D == {Commit[k].at : k \in S}
            T == {k \in S : Commit[k].at = Min(D)}
<1>1. D \subseteq Nat /\ D # {}
  <2>1. \A k \in S : Commit[k].at \in Nat
    BY PipelineAssumption
  <2>2. PICK k \in S : TRUE
    OBVIOUS
  <2>3. Commit[k].at \in D
    OBVIOUS
  <2>. QED
    BY <2>1, <2>3
<1>2. Min(D) \in D /\ \A d \in D : Min(D) <= d
  <2>. HIDE DEF D
  <2>. QED
    BY <1>1, MinOf
<1>3. T \subseteq Nat /\ T # {}
  BY <1>2, PipelineAssumption
<1>4. Min(T) \in T /\ \A k \in T : Min(T) <= k
  <2>. HIDE DEF T
  <2>. QED
    BY <1>3, MinOf
<1>5. \A j \in S : Earlier(Min(T), j)
  <2>. SUFFICES ASSUME NEW j \in S PROVE Earlier(Min(T), j)
    OBVIOUS
  <2>1. Commit[j].at \in D /\ Min(D) <= Commit[j].at /\ Commit[Min(T)].at = Min(D)
    BY <1>2, <1>4
  <2>2. Commit[j].at = Min(D) => Min(T) <= j
    BY <1>4
  <2>3. Commit[j].at \in Nat /\ Min(D) \in Nat
    BY <1>1, <1>2
  <2>. HIDE DEF T, D
  <2>. QED
    BY <2>1, <2>2, <2>3 DEF Earlier
<1>. QED
  BY <1>4, <1>5 DEF FirstCommit

-----------------------------------------------------------------------------
(* What the resolution of the needs makes of the tables.                   *)

\* A measured session has an instant at which something happened.
LEMMA TimesOfSession ==
  ASSUME TypeOK, NEW s \in Measured
  PROVE  s \in Sessions /\ SessionTimes(s) \subseteq Times /\ SessionTimes(s) # {}
<1>1. s \in Sessions /\ metrics[s].evs # {} /\ metrics[s].evs \subseteq {c \in events : SessionOf[c] = s}
  BY DEF Measured, TypeOK
<1>2. PICK c \in events : SessionOf[c] = s
  BY <1>1
<1>3. StartTime[c] \in SessionTimes(s)
  BY <1>2 DEF SessionTimes
<1>4. \A e \in events : StartTime[e] \in Times
  BY PipelineAssumption DEF TypeOK, Times
<1>. QED
  BY <1>1, <1>3, <1>4 DEF SessionTimes

\* A branch has no clue, or that of a commit.
LEMMA ClueOfCommit ==
  ASSUME TypeOK, NEW place, NEW w
  PROVE  Clue(place, w) = NoPR \/ \E k \in Commits : Clue(place, w) = Commit[k].pr
<1>. DEFINE named == {k \in CommitsIn(w) : Place(Commit[k]) = place /\ Commit[k].pr # NoPR}
<1>1. named \subseteq Commits
  BY DEF CommitsIn, TypeOK
<1>2. Clue(place, w) = IF named = {} THEN NoPR ELSE Commit[FirstCommit(named)].pr
  BY DEF Clue
<1>3. named # {} => FirstCommit(named) \in Commits
  <2>. HIDE DEF named
  <2>. QED
    BY <1>1, FirstOf
<1>. QED
  BY <1>2, <1>3

LEMMA BoundaryIsKey ==
  ASSUME NEW x \in Source, NEW d \in Times,
         NEW pr, pr = NoPR \/ \E k \in Commits : pr = Commit[k].pr
  PROVE  Boundary(pr, x, d) \in Keys
<1>1. CASE pr # NoPR
  BY <1>1 DEF Boundary, Keys
<1>2. CASE pr = NoPR /\ x.branch # Mainline
  BY <1>2 DEF Boundary, Keys
<1>3. CASE pr = NoPR /\ x.branch = Mainline
  BY <1>3 DEF Boundary, Keys
<1>. QED
  BY <1>1, <1>2, <1>3

LEMMA SessionKeyIsKey ==
  ASSUME TypeOK, NEW s \in Measured, NEW w
  PROVE  SessionKey(s, w) \in Keys
<1>1. s \in Sessions /\ SessionTimes(s) \subseteq Times /\ SessionTimes(s) # {}
  BY TimesOfSession
<1>2. Min(SessionTimes(s)) \in Times
  BY <1>1, MinOf, PipelineAssumption DEF Times
<1>3. Session[s] \in Source
  BY <1>1 DEF Source
<1>. QED
  BY <1>2, <1>3, ClueOfCommit, BoundaryIsKey DEF SessionKey

LEMMA CommitKeyIsKey ==
  ASSUME TypeOK, NEW k \in commits, NEW w
  PROVE  CommitKey(k, w) \in Keys
<1>1. k \in Commits /\ Commit[k] \in Source /\ Commit[k].at \in Times
  BY PipelineAssumption DEF TypeOK, Source, Times
<1>. DEFINE pr == IF Commit[k].pr # NoPR THEN Commit[k].pr ELSE Clue(Place(Commit[k]), w)
<1>2. pr = NoPR \/ \E j \in Commits : pr = Commit[j].pr
  BY <1>1, ClueOfCommit
<1>. HIDE DEF pr
<1>3. Boundary(pr, Commit[k], Commit[k].at) \in Keys
  BY <1>1, <1>2, BoundaryIsKey
<1>. QED
  BY <1>3 DEF CommitKey, pr

LEMMA BuildNeedShape ==
  ASSUME TypeOK, NEW ss, ss \subseteq Measured, NEW ks, ks \subseteq commits, ss # {} \/ ks # {}
  PROVE  /\ BuildNeed(ss, ks) \in NeedRec
         /\ BuildNeed(ss, ks).sessions = ss /\ BuildNeed(ss, ks).commits = ks
         /\ BuildNeed(ss, ks).from <= BuildNeed(ss, ks).to
<1>. DEFINE inSessions == UNION {SessionTimes(s) : s \in ss}
            inCommits == {Commit[k].at : k \in ks}
            times == inSessions \cup inCommits
            user == IF ss # {} THEN Session[Min(ss)].user ELSE Commit[FirstCommit(ks)].user
<1>1. BuildNeed(ss, ks) = [sessions |-> ss, commits |-> ks, user |-> user,
                           from |-> Min(times), to |-> Max(times), work |-> 0]
  <2>1. times = (UNION {SessionTimes(s) : s \in ss}) \cup {Commit[k].at : k \in ks}
    OBVIOUS
  <2>. HIDE DEF times
  <2>. QED
    BY <2>1 DEF BuildNeed
<1>2. ss \subseteq Sessions /\ ks \subseteq Commits
  BY DEF Measured, TypeOK
<1>3. times \subseteq Times /\ times # {}
  <2>1. \A s \in ss : SessionTimes(s) \subseteq Times /\ SessionTimes(s) # {}
    BY TimesOfSession
  <2>2. \A k \in ks : Commit[k].at \in Times
    BY <1>2, PipelineAssumption DEF Times
  <2>3. inSessions \subseteq Times
    <3>1. SUFFICES ASSUME NEW D \in {SessionTimes(s) : s \in ss} PROVE D \subseteq Times
      OBVIOUS
    <3>. QED
      BY <2>1
  <2>4. inCommits \subseteq Times
    BY <2>2
  <2>5. ss # {} => inSessions # {}
    <3>1. SUFFICES ASSUME NEW s \in ss PROVE inSessions # {}
      OBVIOUS
    <3>2. PICK d \in SessionTimes(s) : TRUE
      BY <2>1
    <3>3. SessionTimes(s) \in {SessionTimes(q) : q \in ss}
      OBVIOUS
    <3>. QED
      BY <3>2, <3>3
  <2>6. ks # {} => inCommits # {}
    <3>1. SUFFICES ASSUME NEW k \in ks PROVE inCommits # {}
      OBVIOUS
    <3>2. Commit[k].at \in inCommits
      OBVIOUS
    <3>. QED
      BY <3>2
  <2>. HIDE DEF inSessions, inCommits
  <2>. QED
    BY <2>3, <2>4, <2>5, <2>6
<1>4. user \in Users
  <2>1. ss # {} => Min(ss) \in Sessions
    BY <1>2, MinOf, PipelineAssumption
  <2>2. ss = {} => FirstCommit(ks) \in Commits
    BY <1>2, FirstOf
  <2>. QED
    BY <2>1, <2>2 DEF Users, Source
<1>. HIDE DEF times, user
<1>5. times \subseteq Nat
  BY <1>3, PipelineAssumption DEF Times
<1>6. Min(times) \in times /\ Max(times) \in times /\ Min(times) <= Max(times)
  BY <1>3, <1>5, MinOf, MaxOf, PipelineAssumption DEF Times
<1>. QED
  BY <1>1, <1>2, <1>3, <1>4, <1>6 DEF NeedRec

\* Every measured session and every commit of the window has one need.
LEMMA ResolvedShape ==
  ASSUME TypeOK, NEW w
  PROVE  /\ ResolveNeeds(w) \in [DOMAIN ResolveNeeds(w) -> NeedRec]
         /\ DOMAIN ResolveNeeds(w) \subseteq Keys
         /\ \A k \in DOMAIN ResolveNeeds(w) :
              /\ ResolveNeeds(w)[k].from <= ResolveNeeds(w)[k].to
              /\ ResolveNeeds(w)[k].commits \subseteq commits
              /\ ResolveNeeds(w)[k].sessions = {s \in Measured : SessionKey(s, w) = k}
         /\ \A s \in Measured : SessionKey(s, w) \in DOMAIN ResolveNeeds(w)
<1>. DEFINE dom == {SessionKey(s, w) : s \in Measured} \cup {CommitKey(k, w) : k \in CommitsIn(w)}
            ss(key) == {s \in Measured : SessionKey(s, w) = key}
            ks(key) == {k \in CommitsIn(w) : CommitKey(k, w) = key}
<1>1. ResolveNeeds(w) = [key \in dom |-> BuildNeed(ss(key), ks(key))]
  BY DEF ResolveNeeds
<1>2. CommitsIn(w) \subseteq commits
  BY DEF CommitsIn
<1>3. \A key \in dom : ss(key) # {} \/ ks(key) # {}
  OBVIOUS
<1>4. dom \subseteq Keys
  BY <1>2, SessionKeyIsKey, CommitKeyIsKey
<1>5. \A key \in dom : ss(key) \subseteq Measured /\ ks(key) \subseteq commits
  BY <1>2
<1>6. \A s \in Measured : SessionKey(s, w) \in dom
  OBVIOUS
<1>7. ASSUME NEW key \in dom
      PROVE  /\ BuildNeed(ss(key), ks(key)) \in NeedRec
             /\ BuildNeed(ss(key), ks(key)).from <= BuildNeed(ss(key), ks(key)).to
             /\ BuildNeed(ss(key), ks(key)).commits \subseteq commits
             /\ BuildNeed(ss(key), ks(key)).sessions = {s \in Measured : SessionKey(s, w) = key}
  <2>1. (ss(key) # {} \/ ks(key) # {}) /\ ss(key) \subseteq Measured /\ ks(key) \subseteq commits
    BY <1>3, <1>5
  <2>2. ss(key) = {s \in Measured : SessionKey(s, w) = key}
    OBVIOUS
  <2>. HIDE DEF ss, ks
  <2>3. /\ BuildNeed(ss(key), ks(key)) \in NeedRec
        /\ BuildNeed(ss(key), ks(key)).sessions = ss(key) /\ BuildNeed(ss(key), ks(key)).commits = ks(key)
        /\ BuildNeed(ss(key), ks(key)).from <= BuildNeed(ss(key), ks(key)).to
    BY <2>1, BuildNeedShape
  <2>. QED
    BY <2>1, <2>2, <2>3
<1>. HIDE DEF dom, ss, ks
<1>. QED
  BY <1>1, <1>4, <1>6, <1>7

-----------------------------------------------------------------------------
(* What a step leaves as it was.                                           *)

\* While neither the events nor what is counted of them changes, the instants of a
\* session, the clues, the needs and their minutes stay the same.
LEMMA SameNeeds ==
  ASSUME events' = events, commits' = commits,
         \A s \in Sessions : metrics'[s].evs = metrics[s].evs,
         NEW w
  PROVE  /\ Measured' = Measured
         /\ ResolveNeeds(w)' = ResolveNeeds(w)
<1>1. Measured' = Measured
  BY DEF Measured
<1>2. ASSUME NEW s PROVE SessionTimes(s)' = SessionTimes(s)
  BY DEF SessionTimes
<1>3. CommitsIn(w)' = CommitsIn(w)
  BY DEF CommitsIn
<1>4. ASSUME NEW place PROVE Clue(place, w)' = Clue(place, w)
  BY <1>3 DEF Clue
<1>5. ASSUME NEW s PROVE SessionKey(s, w)' = SessionKey(s, w)
  BY <1>2, <1>4 DEF SessionKey
<1>6. ASSUME NEW k PROVE CommitKey(k, w)' = CommitKey(k, w)
  BY <1>4 DEF CommitKey
<1>7. ASSUME NEW ss, NEW ks PROVE BuildNeed(ss, ks)' = BuildNeed(ss, ks)
  BY <1>2 DEF BuildNeed
<1>. QED
  BY <1>1, <1>3, <1>5, <1>6, <1>7 DEF ResolveNeeds

\* The minutes of a need only depend on what is counted of its sessions.
LEMMA SameActuals ==
  ASSUME \A s \in Sessions : metrics'[s].evs = metrics[s].evs,
         NEW n, n.sessions \subseteq Sessions
  PROVE  Actuals(n)' = Actuals(n) /\ Worked(n)' = Worked(n)
<1>1. \A s \in n.sessions : metrics'[s].evs = metrics[s].evs
  OBVIOUS
<1>2. {metrics'[s].evs : s \in n.sessions} = {metrics[s].evs : s \in n.sessions}
  BY <1>1
<1>3. ASSUME NEW k PROVE Covered(k, n.sessions)' <=> Covered(k, n.sessions)
  BY <1>1 DEF Covered
<1>4. Actuals(n)' = Actuals(n)
  BY <1>2, <1>3 DEF Actuals
<1>. QED
  BY <1>4 DEF Worked

-----------------------------------------------------------------------------
(* The shape of the tables and of what the runs hold.                      *)

\* A window has days of the calendar; one without dates spans all conversations
\* between the days in UTC.
LEMMA WindowType ==
  ASSUME TypeOK, NEW a \in 0..MaxDay, NEW b \in 0..MaxDay
  PROVE  Window(a, b) \in WindowRec /\ Spans(Window(a, b))
<1>. DEFINE range == {UtcDay[StartTime[c]] : c \in convs}
            from == IF a # 0 THEN a ELSE IF range = {} THEN 1 ELSE Min(range)
            to == IF b # 0 THEN b ELSE IF range = {} THEN MaxDay ELSE Max(range)
            auto == a = 0 /\ b = 0
<1>1. Window(a, b) = [from |-> from, to |-> to, auto |-> auto]
  BY DEF Window
<1>2. \A c \in convs : /\ UtcDay[StartTime[c]] \in range
                      /\ UtcDay[StartTime[c]] \in Days /\ LocalDay[StartTime[c]] \in Days
  BY PipelineAssumption DEF TypeOK, Days
<1>3. range \subseteq Days /\ range \subseteq Nat /\ range \subseteq 0..MaxDay
  BY <1>2, PipelineAssumption DEF Days
<1>. HIDE DEF range
<1>4. range # {} => /\ Min(range) \in range /\ \A d \in range : Min(range) <= d
                    /\ Max(range) \in range /\ \A d \in range : Max(range) >= d
  BY <1>3, MinOf, MaxOf, PipelineAssumption
<1>5. from \in Days /\ to \in Days
  <2>1. 1 \in Days /\ MaxDay \in Days /\ (a # 0 => a \in Days) /\ (b # 0 => b \in Days)
    BY PipelineAssumption DEF Days
  <2>2. range # {} => Min(range) \in Days /\ Max(range) \in Days
    BY <1>3, <1>4
  <2>. QED
    BY <2>1, <2>2
<1>6. ASSUME a = 0, b = 0, NEW c \in convs, BetweenUtcDays(c)
      PROVE  from <= LocalDay[StartTime[c]] /\ LocalDay[StartTime[c]] <= to
  <2>1. PICK d \in range : LocalDay[StartTime[c]] <= d
    BY <1>2, <1>6 DEF BetweenUtcDays
  <2>2. PICK e \in range : e <= LocalDay[StartTime[c]]
    BY <1>2, <1>6 DEF BetweenUtcDays
  <2>3. from <= e /\ d <= to
    BY <1>4, <1>6, <2>1
  <2>4. {from, to, d, e, LocalDay[StartTime[c]]} \subseteq Int
    BY <1>2, <1>3, <1>5, <2>1, <2>2 DEF Days
  <2>. HIDE DEF from, to
  <2>. QED
    BY <2>1, <2>2, <2>3, <2>4
<1>7. auto \in BOOLEAN /\ (auto => a = 0 /\ b = 0)
  OBVIOUS
<1>. HIDE DEF from, to, auto
<1>8. Window(a, b) \in WindowRec
  BY <1>1, <1>5, <1>7 DEF WindowRec
<1>9. Spans(Window(a, b))
  <2>1. ASSUME Window(a, b).auto, NEW c \in convs, BetweenUtcDays(c)
        PROVE  InWindow(StartTime[c], Window(a, b))
    <3>1. a = 0 /\ b = 0
      BY <1>1, <1>7, <2>1
    <3>2. Window(a, b).from = from /\ Window(a, b).to = to
      BY <1>1
    <3>. QED
      BY <1>6, <2>1, <3>1, <3>2 DEF InWindow
  <2>. QED
    BY <2>1 DEF Spans
<1>. QED
  BY <1>8, <1>9

\* Minutes are a number, since only so much has been imported.
LEMMA ActualsNat ==
  ASSUME TypeOK, Tables, NEW n \in NeedRec, n.commits \subseteq commits
  PROVE  Actuals(n) \in Nat
<1>. DEFINE U == UNION {metrics[s].evs : s \in n.sessions}
            K == {k \in n.commits : ~Covered(k, n.sessions)}
<1>1. U \subseteq convs
  <2>1. SUFFICES ASSUME NEW D \in {metrics[s].evs : s \in n.sessions} PROVE D \subseteq convs
    OBVIOUS
  <2>2. PICK s \in Sessions : D = metrics[s].evs
    BY DEF NeedRec
  <2>. QED
    BY <2>2 DEF TypeOK
<1>2. K \subseteq commits
  OBVIOUS
<1>. HIDE DEF U, K
<1>3. Cardinality(U) \in Nat /\ Cardinality(K) \in Nat
  BY <1>1, <1>2, FS_Subset, FS_CardinalityType DEF Tables
<1>. QED
  BY <1>3 DEF Actuals, U, K

\* What a run holds is not disturbed by rows that others add.
LEMMA HeldKept ==
  ASSUME NEW q \in Runs, Held(q),
         pc'[q] = pc[q], local'[q] = local[q], links'[q] = links[q],
         events \subseteq events', commits \subseteq commits',
         DOMAIN needs \subseteq DOMAIN needs'
  PROVE  Held(q)'
BY DEF Held, Function

\* A need resolved now, with minutes kept or 0, is a need.
LEMMA KeptWork ==
  ASSUME NEW n \in NeedRec, NEW m \in Nat
  PROVE  [n EXCEPT !.work = m] \in NeedRec /\ [n EXCEPT !.work = m].from = n.from
         /\ [n EXCEPT !.work = m].to = n.to /\ [n EXCEPT !.work = m].work = m
         /\ [n EXCEPT !.work = m].sessions = n.sessions
BY DEF NeedRec

LEMMA InitTypes == Init => Types
<1>. SUFFICES ASSUME Init PROVE Types
  OBVIOUS
<1>. USE DEF Init
<1>1. TypeOK
  BY DEF TypeOK, NoMetric, Empty
<1>2. Tables
  BY FS_EmptySet DEF Tables, NoMetric, Empty, Function
<1>3. Shape
  <2>1. NoWindow \in WindowRec
    BY PipelineAssumption DEF NoWindow, WindowRec, Days
  <2>. QED
    BY <2>1 DEF Shape, Steps, Held, Function
<1>. QED
  BY <1>1, <1>2, <1>3 DEF Types

LEMMA TypesImport == ASSUME Types, Import PROVE Types'
<1>1. /\ UNCHANGED <<events, metrics, needs, rows, pc, win, local, links>>
      /\ calm' = NoRun
      /\ \/ \E c \in Convs : convs' = convs \cup {c} /\ commits' = commits
         \/ \E k \in Commits : commits' = commits \cup {k} /\ convs' = convs
  BY DEF Import, tables
<1>2. TypeOK'
  <2>1. TypeOK
    BY DEF Types
  <2>. QED
    BY <1>1, <2>1 DEF TypeOK
<1>3. Tables'
  <2>1. Tables
    BY DEF Types
  <2>2. IsFiniteSet(convs') /\ IsFiniteSet(commits')
    BY <1>1, <2>1, FS_AddElement DEF Tables
  <2>. QED
    BY <1>1, <2>1, <2>2 DEF Tables, Function
<1>4. Shape'
  <2>1. Shape
    BY DEF Types
  <2>2. \A q \in Runs : Held(q)'
    BY <1>1, <2>1, HeldKept DEF Shape
  <2>. QED
    BY <1>1, <2>1, <2>2 DEF Shape, Function
<1>. QED
  BY <1>2, <1>3, <1>4 DEF Types

\* A step of run r that keeps what r holds keeps what all of them hold.
LEMMA ShapeStep ==
  ASSUME Shape, NEW r \in Runs, Held(r)',
         pc' \in [Runs -> Steps], win' \in [Runs -> WindowRec], calm' \in Runs \cup {NoRun},
         DOMAIN local' = Runs, Function(local)', DOMAIN links' = Runs, Function(links)',
         \A q \in Runs \ {r} : pc'[q] = pc[q] /\ local'[q] = local[q] /\ links'[q] = links[q],
         events \subseteq events', commits \subseteq commits',
         DOMAIN needs \subseteq DOMAIN needs'
  PROVE  Shape'
<1>1. ASSUME NEW q \in Runs \ {r} PROVE Held(q)'
  BY HeldKept DEF Shape
<1>. QED
  BY <1>1 DEF Shape

LEMMA TypesStart == ASSUME Types, NEW r \in Runs, Start(r) PROVE Types'
<1>1. TypeOK /\ Tables /\ Shape
  BY DEF Types
<1>2. /\ UNCHANGED <<convs, commits, events, metrics, needs, rows, local, links>>
      /\ pc' = [pc EXCEPT ![r] = "events"]
      /\ calm' \in Runs \cup {NoRun}
  BY DEF Start, tables
<1>3. win' \in [Runs -> WindowRec]
  <2>1. PICK a \in 0..MaxDay, b \in 0..MaxDay : win' = [win EXCEPT ![r] = Window(a, b)]
    BY DEF Start
  <2>2. Window(a, b) \in WindowRec
    BY <1>1, WindowType
  <2>. QED
    BY <1>1, <2>1, <2>2 DEF Shape
<1>4. TypeOK' /\ Tables'
  <2>1. TypeOK'
    BY <1>1, <1>2 DEF TypeOK
  <2>2. Tables'
    BY <1>1, <1>2 DEF Tables, Function
  <2>. QED
    BY <2>1, <2>2
<1>5. Held(r)'
  BY <1>1, <1>2 DEF Held, Shape
<1>6. Shape'
  BY <1>1, <1>2, <1>3, <1>5, ShapeStep DEF Shape, Steps, Function
<1>. QED
  BY <1>4, <1>6 DEF Types

LEMMA TypesEvents == ASSUME Types, NEW r \in Runs, UpsertEvents(r) PROVE Types'
<1>. DEFINE sel == Selected(win[r])
<1>1. TypeOK /\ Tables /\ Shape
  BY DEF Types
<1>2. /\ UNCHANGED <<convs, commits, metrics, needs, rows, win, links, calm>>
      /\ events' = events \cup sel
      /\ local' = [local EXCEPT ![r] = Grouped(sel)]
      /\ pc' = [pc EXCEPT ![r] = "metrics"]
  BY DEF UpsertEvents, Goto
<1>3. sel \subseteq convs
  BY DEF Selected
<1>. HIDE DEF sel
<1>4. TypeOK'
  BY <1>1, <1>2, <1>3 DEF TypeOK
<1>5. Tables'
  BY <1>1, <1>2 DEF Tables, Function
<1>6. Held(r)'
  <2>1. pc'[r] = "metrics" /\ local'[r] = Grouped(sel)
    BY <1>1, <1>2 DEF Shape
  <2>2. DOMAIN Grouped(sel) \subseteq Sessions
    BY <1>1, <1>3, PipelineAssumption DEF Grouped, TypeOK
  <2>3. Function(Grouped(sel))
    BY DEF Function, Grouped
  <2>4. \A s \in DOMAIN Grouped(sel) : Grouped(sel)[s] \subseteq {c \in events' : SessionOf[c] = s}
    BY <1>2 DEF Grouped
  <2>. QED
    BY <2>1, <2>2, <2>3, <2>4 DEF Held, Function
<1>7. Shape'
  BY <1>1, <1>2, <1>6, ShapeStep DEF Shape, Steps, Function
<1>. QED
  BY <1>4, <1>5, <1>7 DEF Types

LEMMA TypesMetrics == ASSUME Types, NEW r \in Runs, UpsertMetrics(r) PROVE Types'
<1>1. TypeOK /\ Tables /\ Shape /\ Held(r)
  BY DEF Types, Shape
<1>2. /\ UNCHANGED <<convs, commits, events, needs, rows, win, links, calm>>
      /\ pc[r] = "metrics" /\ pc' = [pc EXCEPT ![r] = "resolve"]
      /\ local' = [local EXCEPT ![r] = Empty]
      /\ metrics' = [s \in Sessions |-> IF s \in DOMAIN local[r]
                                         THEN [evs |-> local[r][s], need |-> NoNeed]
                                         ELSE metrics[s]]
  BY DEF UpsertMetrics, Goto
<1>3. \A s \in DOMAIN local[r] : local[r][s] \subseteq {c \in events : SessionOf[c] = s}
  BY <1>1, <1>2 DEF Held
<1>4. ASSUME NEW s \in Sessions
      PROVE  /\ metrics'[s].evs \subseteq {c \in events : SessionOf[c] = s}
             /\ metrics'[s].need \in DOMAIN needs \cup {NoNeed}
             /\ metrics'[s] \in [evs : SUBSET Convs, need : Keys \cup {NoNeed}]
  <2>1. CASE s \in DOMAIN local[r]
    <3>1. metrics'[s] = [evs |-> local[r][s], need |-> NoNeed]
      BY <1>2, <2>1
    <3>2. local[r][s] \subseteq Convs
      BY <1>1, <1>3, <2>1 DEF TypeOK
    <3>. QED
      BY <1>3, <2>1, <3>1, <3>2
  <2>2. CASE s \notin DOMAIN local[r]
    BY <1>1, <1>2, <2>2 DEF TypeOK, Tables
  <2>. QED
    BY <2>1, <2>2
<1>5. TypeOK'
  BY <1>1, <1>2, <1>4 DEF TypeOK
<1>6. Tables'
  <2>1. metrics' \in [Sessions -> [evs : SUBSET Convs, need : Keys \cup {NoNeed}]]
    BY <1>2, <1>4
  <2>. QED
    BY <1>1, <1>2, <2>1 DEF Tables, Function
<1>7. Held(r)'
  BY <1>1, <1>2 DEF Held, Shape
<1>8. Shape'
  BY <1>1, <1>2, <1>7, ShapeStep DEF Shape, Steps, Function
<1>. QED
  BY <1>5, <1>6, <1>8 DEF Types

LEMMA TypesNeeds == ASSUME Types, NEW r \in Runs, UpsertNeeds(r) PROVE Types'
<1>. DEFINE resolved == ResolveNeeds(win[r])
            kept == [k \in DOMAIN resolved |->
                       [resolved[k] EXCEPT !.work = IF k \in DOMAIN needs THEN needs[k].work ELSE 0]]
<1>1. TypeOK /\ Tables /\ Shape
  BY DEF Types
<1>2. /\ UNCHANGED <<convs, commits, events, metrics, rows, win, calm>>
      /\ pc' = [pc EXCEPT ![r] = "link"]
      /\ needs' = Upsert(needs, kept)
      /\ local' = [local EXCEPT ![r] = resolved]
      /\ links' = [links EXCEPT ![r] = {k \in DOMAIN resolved : resolved[k].sessions # {}}]
  BY DEF UpsertNeeds, Goto
<1>3. /\ resolved \in [DOMAIN resolved -> NeedRec] /\ DOMAIN resolved \subseteq Keys
      /\ \A k \in DOMAIN resolved : resolved[k].from <= resolved[k].to /\ resolved[k].commits \subseteq commits
  BY <1>1, ResolvedShape
<1>. HIDE DEF resolved
<1>4. ASSUME NEW k \in DOMAIN resolved
      PROVE  kept[k] \in NeedRec /\ kept[k].from <= kept[k].to
  <2>. DEFINE m == IF k \in DOMAIN needs THEN needs[k].work ELSE 0
  <2>1. m \in Nat
    BY <1>1 DEF TypeOK
  <2>2. kept[k] = [resolved[k] EXCEPT !.work = m]
    OBVIOUS
  <2>. HIDE DEF m, kept
  <2>3. resolved[k] \in NeedRec /\ resolved[k].from <= resolved[k].to
    BY <1>3
  <2>4. kept[k] \in NeedRec /\ kept[k].from = resolved[k].from /\ kept[k].to = resolved[k].to
    BY <2>1, <2>2, <2>3, KeptWork
  <2>. QED
    BY <2>3, <2>4
<1>5. DOMAIN kept = DOMAIN resolved
  OBVIOUS
<1>. HIDE DEF kept
<1>6. /\ DOMAIN needs' = DOMAIN needs \cup DOMAIN resolved
      /\ \A k \in DOMAIN needs' : needs'[k] = IF k \in DOMAIN resolved THEN kept[k] ELSE needs[k]
      /\ needs' = [k \in DOMAIN needs' |-> needs'[k]]
  BY <1>2, <1>5 DEF Upsert
<1>7. ASSUME NEW k \in DOMAIN needs'
      PROVE  needs'[k] \in NeedRec /\ needs'[k].from <= needs'[k].to
  <2>1. CASE k \in DOMAIN resolved
    BY <1>4, <1>6, <2>1
  <2>2. CASE k \notin DOMAIN resolved
    BY <1>1, <1>6, <2>2 DEF TypeOK, Tables
  <2>. QED
    BY <2>1, <2>2
<1>8. TypeOK'
  <2>1. \A k \in DOMAIN needs' : /\ needs'[k].from \in Times /\ needs'[k].to \in Times
                                 /\ needs'[k].work \in Nat
    BY <1>7 DEF NeedRec
  <2>2. \A s \in Sessions : /\ metrics'[s].evs \subseteq {c \in events' : SessionOf[c] = s}
                            /\ metrics'[s].need \in DOMAIN needs' \cup {NoNeed}
    BY <1>1, <1>2, <1>6 DEF TypeOK
  <2>. QED
    BY <1>1, <1>2, <1>3, <1>6, <1>7, <2>1, <2>2 DEF TypeOK
<1>9. Tables'
  <2>1. needs' \in [DOMAIN needs' -> NeedRec]
    BY <1>6, <1>7
  <2>. QED
    BY <1>1, <1>2, <2>1 DEF Tables, Function
<1>10. Held(r)'
  <2>1. pc'[r] = "link" /\ local'[r] = resolved /\ links'[r] \subseteq DOMAIN resolved
    BY <1>1, <1>2 DEF Shape
  <2>. QED
    BY <1>2, <1>3, <1>6, <2>1 DEF Held
<1>11. Shape'
  BY <1>1, <1>2, <1>6, <1>10, ShapeStep DEF Shape, Steps, Function
<1>. QED
  BY <1>8, <1>9, <1>11 DEF Types

LEMMA TypesLink == ASSUME Types, NEW r \in Runs, LinkMetrics(r) PROVE Types'
<1>1. TypeOK /\ Tables /\ Shape /\ Held(r)
  BY DEF Types, Shape
<1>2. PICK k \in links[r] :
        /\ metrics' = [s \in Sessions |-> IF s \in local[r][k].sessions
                                           THEN [metrics[s] EXCEPT !.need = k] ELSE metrics[s]]
        /\ links' = [links EXCEPT ![r] = @ \ {k}]
  BY DEF LinkMetrics
<1>3. /\ UNCHANGED <<convs, commits, events, needs, rows, pc, win, local, calm>>
      /\ pc[r] = "link"
  BY DEF LinkMetrics
<1>4. k \in DOMAIN needs /\ k \in Keys
  BY <1>1, <1>3 DEF Held, TypeOK
<1>5. ASSUME NEW s \in Sessions
      PROVE  /\ metrics'[s].evs = metrics[s].evs
             /\ metrics'[s].need \in DOMAIN needs \cup {NoNeed}
             /\ metrics'[s] \in [evs : SUBSET Convs, need : Keys \cup {NoNeed}]
  <2>1. metrics[s] \in [evs : SUBSET Convs, need : Keys \cup {NoNeed}]
    BY <1>1 DEF Tables
  <2>2. CASE s \in local[r][k].sessions
    BY <1>2, <1>4, <2>1, <2>2
  <2>3. CASE s \notin local[r][k].sessions
    BY <1>1, <1>2, <2>1, <2>3 DEF TypeOK
  <2>. QED
    BY <2>2, <2>3
<1>6. TypeOK'
  BY <1>1, <1>3, <1>5 DEF TypeOK
<1>7. Tables'
  <2>1. metrics' \in [Sessions -> [evs : SUBSET Convs, need : Keys \cup {NoNeed}]]
    BY <1>2, <1>5
  <2>. QED
    BY <1>1, <1>3, <2>1 DEF Tables, Function
<1>8. Held(r)'
  BY <1>1, <1>2, <1>3 DEF Held, Shape, Function
<1>9. Shape'
  BY <1>1, <1>2, <1>3, <1>8, ShapeStep DEF Shape, Steps, Function
<1>. QED
  BY <1>6, <1>7, <1>9 DEF Types

LEMMA TypesActuals == ASSUME Types, NEW r \in Runs, UpsertActuals(r) PROVE Types'
<1>1. TypeOK /\ Tables /\ Shape /\ Held(r)
  BY DEF Types, Shape
<1>2. /\ UNCHANGED <<convs, commits, events, metrics, rows, win, links, calm>>
      /\ pc[r] = "actuals" /\ pc' = [pc EXCEPT ![r] = "load"]
      /\ needs' = [k \in DOMAIN needs |->
           IF k \in DOMAIN local[r] THEN [needs[k] EXCEPT !.work = Actuals(local[r][k])] ELSE needs[k]]
      /\ local' = [local EXCEPT ![r] = Empty]
  BY DEF UpsertActuals, Goto
<1>3. ASSUME NEW k \in DOMAIN needs
      PROVE  /\ needs'[k] \in NeedRec /\ needs'[k].from = needs[k].from /\ needs'[k].to = needs[k].to
  <2>1. needs[k] \in NeedRec
    BY <1>1 DEF Tables
  <2>2. CASE k \in DOMAIN local[r]
    <3>1. local[r][k] \in NeedRec /\ local[r][k].commits \subseteq commits
      BY <1>1, <1>2, <2>2 DEF Held
    <3>2. Actuals(local[r][k]) \in Nat
      BY <1>1, <3>1, ActualsNat
    <3>3. needs'[k] = [needs[k] EXCEPT !.work = Actuals(local[r][k])]
      BY <1>2, <2>2
    <3>. QED
      BY <2>1, <3>2, <3>3, KeptWork
  <2>3. CASE k \notin DOMAIN local[r]
    BY <1>2, <2>1, <2>3
  <2>. QED
    BY <2>2, <2>3
<1>4. DOMAIN needs' = DOMAIN needs /\ needs' = [k \in DOMAIN needs |-> needs'[k]]
  BY <1>2
<1>5. TypeOK'
  <2>1. \A k \in DOMAIN needs' : needs'[k].from <= needs'[k].to
    BY <1>1, <1>3, <1>4 DEF TypeOK
  <2>2. \A k \in DOMAIN needs' : needs'[k].from \in Times /\ needs'[k].to \in Times /\ needs'[k].work \in Nat
    BY <1>3, <1>4 DEF NeedRec
  <2>. QED
    BY <1>1, <1>2, <1>4, <2>1, <2>2 DEF TypeOK
<1>6. Tables'
  <2>1. needs' \in [DOMAIN needs' -> NeedRec]
    BY <1>3, <1>4
  <2>. QED
    BY <1>1, <1>2, <2>1 DEF Tables, Function
<1>7. Held(r)'
  BY <1>1, <1>2 DEF Held, Shape
<1>8. Shape'
  BY <1>1, <1>2, <1>4, <1>7, ShapeStep DEF Shape, Steps, Function
<1>. QED
  BY <1>5, <1>6, <1>8 DEF Types

\* The weekly rows are made of the needs of the slice.
LEMMA RowsOfSlice ==
  ASSUME NEW slice, NEW x \in DOMAIN BuildRows(slice)
  PROVE  BuildRows(slice)[x].needs \subseteq DOMAIN slice
BY DEF BuildRows, Bucket, UserWeekRow

LEMMA TypesRead ==
  ASSUME Types, NEW r \in Runs, LinksWritten(r) \/ LoadNeeds(r) \/ WriteRows(r) \/ Fail(r)
  PROVE  Types'
<1>1. TypeOK /\ Tables /\ Shape /\ Held(r)
  BY DEF Types, Shape
<1>2. CASE LinksWritten(r)
  <2>1. /\ UNCHANGED <<convs, commits, events, metrics, needs, rows, win, local, links, calm>>
        /\ pc[r] = "link" /\ pc' = [pc EXCEPT ![r] = "actuals"]
    BY <1>2 DEF LinksWritten, Goto, tables
  <2>2. TypeOK' /\ Tables'
    BY <1>1, <2>1 DEF TypeOK, Tables, Function
  <2>3. Held(r)'
    BY <1>1, <2>1 DEF Held, Shape
  <2>4. Shape'
    BY <1>1, <2>1, <2>3, ShapeStep DEF Shape, Steps, Function
  <2>. QED
    BY <2>2, <2>4 DEF Types
<1>3. CASE LoadNeeds(r)
  <2>1. /\ UNCHANGED <<convs, commits, events, metrics, needs, rows, win, links, calm>>
        /\ pc' = [pc EXCEPT ![r] = "write"]
        /\ local' = [local EXCEPT ![r] = Slice(Overlapping(win[r]))]
    BY <1>3 DEF LoadNeeds, Goto, tables
  <2>2. TypeOK' /\ Tables'
    BY <1>1, <2>1 DEF TypeOK, Tables, Function
  <2>3. DOMAIN Slice(Overlapping(win[r])) \subseteq DOMAIN needs
    BY DEF Slice, Overlapping
  <2>4. Held(r)'
    BY <1>1, <2>1, <2>3 DEF Held, Shape
  <2>5. Shape'
    BY <1>1, <2>1, <2>4, ShapeStep DEF Shape, Steps, Function
  <2>. QED
    BY <2>2, <2>5 DEF Types
<1>4. CASE WriteRows(r)
  <2>1. /\ UNCHANGED <<convs, commits, events, metrics, needs, links>>
        /\ pc[r] = "write" /\ pc' = [pc EXCEPT ![r] = "idle"]
        /\ local' = [local EXCEPT ![r] = Empty]
        /\ win' = [win EXCEPT ![r] = NoWindow]
        /\ calm' \in {NoRun, calm}
        /\ rows' = Upsert(rows, BuildRows(local[r]))
    BY <1>4 DEF WriteRows, Goto
  <2>2. Function(rows)'
    BY <2>1 DEF Function, Upsert
  <2>3. ASSUME NEW x \in DOMAIN rows' PROVE rows'[x].needs \subseteq DOMAIN needs
    <3>1. CASE x \in DOMAIN BuildRows(local[r])
      <4>1. rows'[x] = BuildRows(local[r])[x]
        BY <2>1, <3>1 DEF Upsert
      <4>. QED
        BY <1>1, <2>1, <3>1, <4>1, RowsOfSlice DEF Held
    <3>2. CASE x \notin DOMAIN BuildRows(local[r])
      BY <1>1, <2>1, <3>2 DEF Upsert, TypeOK
    <3>. QED
      BY <3>1, <3>2
  <2>4. TypeOK' /\ Tables'
    <3>1. TypeOK'
      BY <1>1, <2>1, <2>3 DEF TypeOK
    <3>2. Tables'
      BY <1>1, <2>1, <2>2 DEF Tables
    <3>. QED
      BY <3>1, <3>2
  <2>5. NoWindow \in WindowRec
    BY PipelineAssumption DEF NoWindow, WindowRec, Days
  <2>6. Held(r)'
    BY <1>1, <2>1 DEF Held, Shape
  <2>7. Shape'
    BY <1>1, <2>1, <2>5, <2>6, ShapeStep DEF Shape, Steps, Function
  <2>. QED
    BY <2>4, <2>7 DEF Types
<1>5. CASE Fail(r)
  <2>1. /\ UNCHANGED <<convs, commits, events, metrics, needs, rows>>
        /\ pc' = [pc EXCEPT ![r] = "idle"]
        /\ local' = [local EXCEPT ![r] = Empty]
        /\ links' = [links EXCEPT ![r] = {}]
        /\ win' = [win EXCEPT ![r] = NoWindow]
        /\ calm' = NoRun
    BY <1>5 DEF Fail, tables
  <2>2. TypeOK' /\ Tables'
    BY <1>1, <2>1 DEF TypeOK, Tables, Function
  <2>3. NoWindow \in WindowRec
    BY PipelineAssumption DEF NoWindow, WindowRec, Days
  <2>4. Held(r)'
    BY <1>1, <2>1 DEF Held, Shape
  <2>5. Shape'
    BY <1>1, <2>1, <2>3, <2>4, ShapeStep DEF Shape, Steps, Function
  <2>. QED
    BY <2>2, <2>5 DEF Types
<1>. QED
  BY <1>2, <1>3, <1>4, <1>5

LEMMA TypesStep == Types /\ [Next]_vars => Types'
<1>. SUFFICES ASSUME Types, [Next]_vars PROVE Types'
  OBVIOUS
<1>1. CASE Import
  BY <1>1, TypesImport
<1>2. ASSUME NEW r \in Runs, Start(r) \/ RunStep(r) \/ Fail(r) PROVE Types'
  BY <1>2, TypesStart, TypesEvents, TypesMetrics, TypesNeeds, TypesLink, TypesActuals, TypesRead DEF RunStep
<1>3. CASE UNCHANGED vars
  BY <1>3 DEF vars, Types, TypeOK, Tables, Shape, Held, Function
<1>. QED
  BY <1>1, <1>2, <1>3 DEF Next

\* The tables keep their types and refer to one another: a metric names a need
\* that is there, a weekly row only such needs.
THEOREM TypesAreKept == Spec => []TypeOK
<1>1. Types => TypeOK
  BY DEF Types
<1>. QED
  BY <1>1, InitTypes, TypesStep, PTL DEF Spec

-----------------------------------------------------------------------------
(* The run that has the database to itself.                                *)

LEMMA InitAlone == Init => Quiet /\ Alone
<1>. SUFFICES ASSUME Init PROVE Quiet /\ Alone
  OBVIOUS
<1>1. calm = NoRun /\ done = NoRun /\ NoRun \notin Runs
  BY PipelineAssumption DEF Init
<1>. QED
  BY <1>1 DEF Quiet, Alone

\* A step of a run is one of the calm run, if there is one.
LEMMA OnlyTheCalmRunSteps ==
  ASSUME Quiet, NEW r \in Runs, RunStep(r)
  PROVE  /\ pc[r] # "idle" /\ ~Idle
         /\ calm \in Runs => calm = r
         /\ done # NoRun => calm = r /\ win[r] = done.win
<1>1. pc[r] # "idle"
  BY DEF RunStep, Goto, UpsertEvents, UpsertMetrics, UpsertNeeds, LinkMetrics, LinksWritten,
         UpsertActuals, LoadNeeds, WriteRows
<1>. QED
  BY <1>1 DEF Quiet, Idle

\* Until it writes the rows a run keeps its window and is under way.
LEMMA StepBeforeTheLast ==
  ASSUME Shape, NEW r \in Runs, RunStep(r), ~WriteRows(r)
  PROVE  /\ UNCHANGED <<convs, commits, rows, win, calm, done>>
         /\ pc'[r] # "idle" /\ \A q \in Runs \ {r} : pc'[q] = pc[q]
BY DEF Shape, RunStep, Goto, UpsertEvents, UpsertMetrics, UpsertNeeds, LinkMetrics, LinksWritten,
       UpsertActuals, LoadNeeds, tables

\* The last step leaves the run idle and, if it was calm, remembered.
LEMMA LastStep ==
  ASSUME Shape, NEW r \in Runs, WriteRows(r)
  PROVE  /\ pc[r] = "write" /\ pc'[r] = "idle" /\ \A q \in Runs \ {r} : pc'[q] = pc[q]
         /\ UNCHANGED <<convs, commits, events, metrics, needs>>
         /\ rows' = Upsert(rows, BuildRows(local[r]))
         /\ calm = r => calm' = NoRun /\ done' = [win |-> win[r], tables |-> tables']
         /\ calm # r => calm' = calm /\ done' = NoRun
BY DEF Shape, WriteRows, Goto

LEMMA QuietStep == Types /\ Quiet /\ [Next]_vars => Quiet'
<1>. SUFFICES ASSUME Types, Quiet, [Next]_vars PROVE Quiet'
  OBVIOUS
<1>1. Shape /\ NoRun \notin Runs
  BY PipelineAssumption DEF Types
<1>2. CASE Import
  <2>1. calm' = NoRun /\ done' = NoRun
    BY <1>2 DEF Import
  <2>. QED
    BY <1>1, <2>1 DEF Quiet
<1>3. ASSUME NEW r \in Runs, Start(r) PROVE Quiet'
  <2>1. /\ pc' = [pc EXCEPT ![r] = "events"]
        /\ calm' = IF Idle THEN r ELSE NoRun
        /\ done' = IF Idle /\ done # NoRun /\ done.win = win'[r] THEN done ELSE NoRun
    BY <1>3 DEF Start
  <2>2. pc'[r] = "events" /\ \A q \in Runs \ {r} : pc'[q] = pc[q]
    BY <1>1, <2>1 DEF Shape
  <2>. QED
    BY <1>1, <2>1, <2>2 DEF Quiet, Idle
<1>4. ASSUME NEW r \in Runs, RunStep(r), ~WriteRows(r) PROVE Quiet'
  BY <1>1, <1>4, OnlyTheCalmRunSteps, StepBeforeTheLast DEF Quiet
<1>5. ASSUME NEW r \in Runs, WriteRows(r) PROVE Quiet'
  <2>1. RunStep(r)
    BY <1>5 DEF RunStep
  <2>2. CASE calm = r
    <3>1. calm' = NoRun /\ Idle'
      BY <1>1, <1>5, <2>2, LastStep DEF Quiet, Idle
    <3>. QED
      BY <1>1, <3>1 DEF Quiet
  <2>3. CASE calm # r
    <3>1. calm' \notin Runs /\ done' = NoRun
      BY <1>1, <1>5, <2>1, <2>3, LastStep, OnlyTheCalmRunSteps
    <3>. QED
      BY <1>1, <3>1 DEF Quiet
  <2>. QED
    BY <2>2, <2>3
<1>6. ASSUME NEW r \in Runs, Fail(r) PROVE Quiet'
  <2>1. calm' = NoRun /\ done' = NoRun
    BY <1>6 DEF Fail
  <2>. QED
    BY <1>1, <2>1 DEF Quiet
<1>7. CASE UNCHANGED vars
  BY <1>7 DEF vars, Quiet, Idle
<1>. QED
  BY <1>2, <1>3, <1>4, <1>5, <1>6, <1>7 DEF Next, RunStep

-----------------------------------------------------------------------------
(* What the tables owe to the calm run.                                    *)

\* Claims about the tables outlast a step that changes nothing they speak of.
LEMMA SameClaims ==
  ASSUME TypeOK, UNCHANGED <<convs, commits, events, needs>>,
         \A s \in Sessions : metrics'[s].evs = metrics[s].evs,
         NEW w
  PROVE  /\ Selected(w)' = Selected(w)
         /\ Spans(w) => Spans(w)'
         /\ Counted(w) => Counted(w)'
         /\ Resolved(w) => Resolved(w)'
         /\ \A m : LinkedBy(m, w) => LinkedBy(m, w)'
         /\ rows' = rows => (RowsCurrent(w) => RowsCurrent(w)')
<1>1. Selected(w)' = Selected(w) /\ (Spans(w) => Spans(w)')
  BY DEF Selected, Spans, BetweenUtcDays
<1>2. ResolveNeeds(w)' = ResolveNeeds(w)
  BY SameNeeds
<1>3. Counted(w) => Counted(w)'
  <2>1. DOMAIN Grouped(Selected(w)) \subseteq Sessions
    BY PipelineAssumption DEF Grouped, Selected, TypeOK
  <2>. QED
    BY <1>1, <2>1 DEF Counted
<1>4. ASSUME Resolved(w) PROVE Resolved(w)'
  <2>1. ASSUME NEW k \in DOMAIN ResolveNeeds(w)
        PROVE  Worked(ResolveNeeds(w)[k])' = Worked(ResolveNeeds(w)[k])
    <3>1. PICK n : n = ResolveNeeds(w)[k]
      OBVIOUS
    <3>2. n.sessions \subseteq Sessions
      BY <3>1, ResolvedShape DEF NeedRec
    <3>3. Worked(n)' = Worked(n)
      BY <3>2, SameActuals
    <3>. QED
      BY <1>2, <3>1, <3>3
  <2>. QED
    BY <1>2, <1>4, <2>1 DEF Resolved
<1>5. ASSUME NEW m, LinkedBy(m, w) PROVE LinkedBy(m, w)'
  BY <1>2, <1>5 DEF LinkedBy
<1>6. ASSUME rows' = rows, RowsCurrent(w) PROVE RowsCurrent(w)'
  <2>1. Slice(Overlapping(w))' = Slice(Overlapping(w))
    BY DEF Slice, Overlapping
  <2>. QED
    BY <1>6, <2>1 DEF RowsCurrent
<1>. QED
  BY <1>1, <1>3, <1>4, <1>5, <1>6

\* The needs a run resolves share no session.
LEMMA NeedsAreDisjoint ==
  ASSUME TypeOK, NEW w, NEW j \in DOMAIN ResolveNeeds(w), NEW k \in DOMAIN ResolveNeeds(w),
         NEW s \in ResolveNeeds(w)[j].sessions, s \in ResolveNeeds(w)[k].sessions
  PROVE  j = k
<1>1. ResolveNeeds(w)[j].sessions = {q \in Measured : SessionKey(q, w) = j}
  BY ResolvedShape
<1>2. ResolveNeeds(w)[k].sessions = {q \in Measured : SessionKey(q, w) = k}
  BY ResolvedShape
<1>. QED
  BY <1>1, <1>2

\* Starting a run when nothing is under way.
LEMMA AloneStart == ASSUME Types, Alone, NEW r \in Runs, Start(r) PROVE Alone'
<1>1. TypeOK /\ Tables /\ Shape /\ NoRun \notin Runs
  BY PipelineAssumption DEF Types
<1>2. /\ UNCHANGED <<convs, commits, events, metrics, needs, rows>>
      /\ calm' = IF Idle THEN r ELSE NoRun
      /\ done' = IF Idle /\ done # NoRun /\ done.win = win'[r] THEN done ELSE NoRun
      /\ pc'[r] = "events"
  BY <1>1 DEF Start, tables, Shape
<1>3. PICK a \in 0..MaxDay, b \in 0..MaxDay : win' = [win EXCEPT ![r] = Window(a, b)]
  BY DEF Start
<1>4. PICK w : w = Window(a, b)
  OBVIOUS
<1>5. win'[r] = w /\ Spans(w)
  BY <1>1, <1>3, <1>4, WindowType DEF Shape
<1>6. Spans(w)'
  BY <1>2, <1>5 DEF Spans, BetweenUtcDays
<1>7. Progress(r)'
  BY <1>2, <1>5, <1>6 DEF Progress
<1>8. ASSUME done' # NoRun PROVE Rerun(r)'
  <2>1. Idle /\ done' = done /\ done # NoRun /\ done.win = w
    BY <1>2, <1>5, <1>8
  <2>2. AllDone
    BY <2>1 DEF Alone
  <2>3. /\ Counted(w) /\ Resolved(w) /\ LinkedBy(metrics, w) /\ RowsCurrent(w)
        /\ done.tables = <<events, metrics, needs, rows>>
    BY <2>1, <2>2 DEF AllDone, tables
  <2>4. PICK old : old = metrics
    OBVIOUS
  <2>5. Counted(w)' /\ Resolved(w)' /\ LinkedBy(old, w)' /\ RowsCurrent(w)' /\ Selected(w)' = Selected(w)
    BY <1>1, <1>2, <2>3, <2>4, SameClaims
  <2>6. Selected(w)' \subseteq events'
    BY <1>2, <2>3, <2>5 DEF Counted
  <2>7. done'.tables = <<events', old, needs', rows'>> /\ done'.tables[2] = old /\ metrics' = old
    BY <1>2, <2>1, <2>3, <2>4
  <2>8. old \in [Sessions -> [evs : SUBSET Convs, need : Keys \cup {NoNeed}]]
    BY <1>1, <2>4 DEF Tables
  <2>. QED
    BY <1>2, <1>5, <2>5, <2>6, <2>7, <2>8 DEF Rerun
<1>9. ~Idle'
  BY <1>2 DEF Idle
<1>. QED
  BY <1>1, <1>2, <1>7, <1>8, <1>9 DEF Alone

\* Before its last step it is enough to look at the calm run.
LEMMA AloneMidway ==
  ASSUME Types, Quiet, NEW r \in Runs, RunStep(r), ~WriteRows(r),
         calm = r => Progress(r)' /\ (done # NoRun => Rerun(r)')
  PROVE  Alone'
<1>1. /\ calm' = calm /\ done' = done /\ pc'[r] # "idle"
  BY StepBeforeTheLast DEF Types
<1>2. ~Idle'
  BY <1>1 DEF Idle
<1>3. (calm \in Runs => calm = r) /\ (done # NoRun => calm = r)
  BY OnlyTheCalmRunSteps
<1>. QED
  BY <1>1, <1>2, <1>3 DEF Alone

LEMMA EventsStep ==
  ASSUME Types, NEW r \in Runs, UpsertEvents(r), Progress(r), done # NoRun => Rerun(r)
  PROVE  Progress(r)' /\ (done # NoRun => Rerun(r)')
<1>1. TypeOK /\ Tables /\ Shape
  BY DEF Types
<1>2. PICK w : w = win[r]
  OBVIOUS
<1>3. /\ UNCHANGED <<convs, commits, metrics, needs, rows, done>>
      /\ pc[r] = "events" /\ pc'[r] = "metrics" /\ win'[r] = w
      /\ events' = events \cup Selected(w) /\ local'[r] = Grouped(Selected(w))
  BY <1>1, <1>2 DEF UpsertEvents, Goto, Shape
<1>4. Selected(w)' = Selected(w) /\ Spans(w)'
  BY <1>2, <1>3 DEF Selected, Spans, BetweenUtcDays, Progress
<1>5. Progress(r)'
  BY <1>3, <1>4 DEF Progress
<1>6. ASSUME done # NoRun PROVE Rerun(r)'
  <2>1. Rerun(r)
    BY <1>6
  <2>2. events' = events
    BY <1>2, <1>3, <2>1 DEF Rerun
  <2>3. PICK old : old = done.tables[2]
    OBVIOUS
  <2>4. Counted(w)' /\ Resolved(w)' /\ LinkedBy(old, w)' /\ RowsCurrent(w)'
    BY <1>1, <1>2, <1>3, <2>1, <2>2, <2>3, SameClaims DEF Rerun
  <2>5. \A s \in Sessions : metrics[s] = old[s]
    BY <1>3, <2>1, <2>3 DEF Rerun
  <2>. QED
    BY <1>3, <2>1, <2>2, <2>3, <2>4, <2>5 DEF Rerun
<1>. QED
  BY <1>5, <1>6

LEMMA MetricsStep ==
  ASSUME Types, NEW r \in Runs, UpsertMetrics(r), Progress(r), done # NoRun => Rerun(r)
  PROVE  Progress(r)' /\ (done # NoRun => Rerun(r)')
<1>1. TypeOK /\ Tables /\ Shape
  BY DEF Types
<1>2. PICK w : w = win[r]
  OBVIOUS
<1>. DEFINE g == Grouped(Selected(w))
<1>3. /\ UNCHANGED <<convs, commits, events, needs, rows, done>>
      /\ pc[r] = "metrics" /\ pc'[r] = "resolve" /\ win'[r] = w
      /\ metrics' = [s \in Sessions |-> IF s \in DOMAIN local[r]
                                         THEN [evs |-> local[r][s], need |-> NoNeed]
                                         ELSE metrics[s]]
  BY <1>1, <1>2 DEF UpsertMetrics, Goto, Shape
<1>4. local[r] = g /\ Selected(w) \subseteq events /\ Spans(w)
  BY <1>2, <1>3 DEF Progress
<1>5. Selected(w)' = Selected(w) /\ Spans(w)' /\ Selected(w)' \subseteq events'
  BY <1>3, <1>4 DEF Selected, Spans, BetweenUtcDays
<1>6. /\ DOMAIN g \subseteq Sessions
      /\ \A s \in DOMAIN g : g[s] # {}
  BY <1>1, PipelineAssumption DEF Grouped, Selected, TypeOK
<1>. HIDE DEF g
<1>7. ASSUME NEW s \in Sessions
      PROVE  (s \in DOMAIN g => metrics'[s].evs = g[s]) /\ (s \notin DOMAIN g => metrics'[s] = metrics[s])
  <2>1. CASE s \in DOMAIN g
    <3>1. metrics'[s] = [evs |-> g[s], need |-> NoNeed]
      BY <1>3, <1>4, <2>1
    <3>. QED
      BY <2>1, <3>1
  <2>2. CASE s \notin DOMAIN g
    BY <1>3, <1>4, <2>2
  <2>. QED
    BY <2>1, <2>2
<1>8. Counted(w)'
  <2>1. Grouped(Selected(w)') = g
    BY <1>5 DEF g
  <2>2. \A s \in DOMAIN g : metrics'[s].evs = g[s]
    BY <1>6, <1>7
  <2>. QED
    BY <1>5, <2>1, <2>2 DEF Counted
<1>9. Progress(r)'
  BY <1>3, <1>5, <1>8 DEF Progress
<1>10. ASSUME done # NoRun PROVE Rerun(r)'
  <2>1. Rerun(r)
    BY <1>10
  <2>2. \A s \in Sessions : metrics'[s].evs = metrics[s].evs
    <3>1. \A s \in DOMAIN g : metrics[s].evs = g[s]
      BY <1>2, <1>3, <2>1 DEF Rerun, Counted, g
    <3>. QED
      BY <1>7, <3>1
  <2>3. PICK old : old = done.tables[2]
    OBVIOUS
  <2>4. Resolved(w)' /\ LinkedBy(old, w)' /\ RowsCurrent(w)'
    BY <1>1, <1>2, <1>3, <2>1, <2>2, <2>3, SameClaims DEF Rerun
  <2>5. ASSUME NEW s \in Sessions
        PROVE  metrics'[s].evs = old[s].evs /\ (metrics'[s] = old[s] \/ s \in Measured')
    <3>1. metrics[s] = old[s]
      BY <1>3, <2>1, <2>3 DEF Rerun
    <3>2. s \in DOMAIN g => s \in Measured'
      BY <1>6, <1>7 DEF Measured
    <3>. QED
      BY <1>7, <2>2, <3>1, <3>2
  <2>. QED
    BY <1>3, <2>1, <2>3, <2>4, <2>5 DEF Rerun
<1>. QED
  BY <1>9, <1>10

\* What a window selects, spans and has counted does not depend on the needs.
LEMMA SameCounts ==
  ASSUME TypeOK, UNCHANGED <<convs, commits, events>>,
         \A s \in Sessions : metrics'[s].evs = metrics[s].evs,
         NEW w
  PROVE  /\ Selected(w)' = Selected(w) /\ ResolveNeeds(w)' = ResolveNeeds(w)
         /\ Spans(w) => Spans(w)'
         /\ Counted(w) => Counted(w)'
<1>1. Selected(w)' = Selected(w) /\ (Spans(w) => Spans(w)')
  BY DEF Selected, Spans, BetweenUtcDays
<1>2. DOMAIN Grouped(Selected(w)) \subseteq Sessions
  BY PipelineAssumption DEF Grouped, Selected, TypeOK
<1>. QED
  BY <1>1, <1>2, SameNeeds DEF Counted

LEMMA NeedsStep ==
  ASSUME Types, NEW r \in Runs, UpsertNeeds(r), Progress(r), done # NoRun => Rerun(r)
  PROVE  Progress(r)' /\ (done # NoRun => Rerun(r)')
<1>1. TypeOK /\ Tables /\ Shape
  BY DEF Types
<1>2. PICK w : w = win[r]
  OBVIOUS
<1>3. PICK resolved : resolved = ResolveNeeds(w)
  OBVIOUS
<1>. DEFINE kept == [k \in DOMAIN resolved |->
                       [resolved[k] EXCEPT !.work = IF k \in DOMAIN needs THEN needs[k].work ELSE 0]]
<1>4. /\ UNCHANGED <<convs, commits, events, metrics, rows, done>>
      /\ pc[r] = "resolve" /\ pc'[r] = "link" /\ win'[r] = w
      /\ needs' = Upsert(needs, kept)
      /\ local'[r] = resolved
      /\ links'[r] = {k \in DOMAIN resolved : resolved[k].sessions # {}}
  BY <1>1, <1>2, <1>3 DEF UpsertNeeds, Goto, Shape
<1>5. /\ resolved \in [DOMAIN resolved -> NeedRec]
      /\ \A k \in DOMAIN resolved : resolved[k].sessions = {s \in Measured : SessionKey(s, w) = k}
      /\ \A s \in Measured : SessionKey(s, w) \in DOMAIN resolved
  BY <1>1, <1>3, ResolvedShape
<1>6. /\ DOMAIN needs' = DOMAIN needs \cup DOMAIN resolved
      /\ needs' = [k \in DOMAIN needs' |-> needs'[k]]
      /\ \A k \in DOMAIN needs' : needs'[k] = IF k \in DOMAIN resolved THEN kept[k] ELSE needs[k]
  BY <1>4 DEF Upsert
<1>7. ASSUME NEW k \in DOMAIN resolved
      PROVE  /\ needs'[k] = [resolved[k] EXCEPT !.work = needs'[k].work]
             /\ k \in DOMAIN needs => needs'[k] = [resolved[k] EXCEPT !.work = needs[k].work]
  <2>. DEFINE m == IF k \in DOMAIN needs THEN needs[k].work ELSE 0
  <2>1. needs'[k] = [resolved[k] EXCEPT !.work = m]
    BY <1>6
  <2>2. k \in DOMAIN needs => m = needs[k].work
    OBVIOUS
  <2>3. m \in Nat
    BY <1>1 DEF TypeOK
  <2>. HIDE DEF m
  <2>4. needs'[k].work = m
    BY <1>5, <2>1, <2>3, KeptWork
  <2>. QED
    BY <2>1, <2>2, <2>4
<1>. HIDE DEF kept
<1>8. /\ Selected(w)' = Selected(w) /\ ResolveNeeds(w)' = resolved
      /\ Spans(w)' /\ Counted(w)' /\ Selected(w)' \subseteq events'
  BY <1>1, <1>2, <1>3, <1>4, SameCounts DEF Progress
<1>9. Progress(r)'
  <2>1. \A k \in DOMAIN resolved : k \in links'[r] \/ \A s \in resolved[k].sessions : metrics'[s].need = k
    BY <1>4
  <2>. QED
    BY <1>4, <1>7, <1>8, <2>1 DEF Progress
<1>10. ASSUME done # NoRun PROVE Rerun(r)'
  <2>1. Rerun(r)
    BY <1>10
  <2>2. \A k \in DOMAIN resolved : k \in DOMAIN needs /\ needs[k] = Worked(resolved[k])
    BY <1>2, <1>3, <2>1 DEF Rerun, Resolved
  <2>3. ASSUME NEW k \in DOMAIN needs' PROVE k \in DOMAIN needs /\ needs'[k] = needs[k]
    <3>1. CASE k \in DOMAIN resolved
      <4>1. PICK m : m = Actuals(resolved[k])
        OBVIOUS
      <4>2. needs[k] = [resolved[k] EXCEPT !.work = m] /\ needs[k] \in NeedRec
        BY <1>1, <2>2, <3>1, <4>1 DEF Worked, Tables
      <4>3. resolved[k] \in NeedRec
        BY <1>5, <3>1
      <4>4. needs[k].work = m
        BY <4>2, <4>3 DEF NeedRec
      <4>. QED
        BY <1>7, <2>2, <3>1, <4>2, <4>4
    <3>2. CASE k \notin DOMAIN resolved
      BY <1>6, <3>2
    <3>. QED
      BY <3>1, <3>2
  <2>4. needs' = needs
    <3>1. DOMAIN needs' = DOMAIN needs
      BY <1>6, <2>3
    <3>2. needs = [k \in DOMAIN needs |-> needs[k]]
      BY <1>1 DEF Tables
    <3>. QED
      BY <1>6, <2>3, <3>1, <3>2
  <2>5. PICK old : old = done.tables[2]
    OBVIOUS
  <2>6. Resolved(w)' /\ LinkedBy(old, w)' /\ RowsCurrent(w)'
    BY <1>1, <1>2, <1>4, <2>1, <2>4, <2>5, SameClaims DEF Rerun
  <2>7. ASSUME NEW s \in Sessions
        PROVE  /\ metrics'[s].evs = old[s].evs
               /\ metrics'[s] = old[s] \/ \E k \in links'[r] : s \in local'[r][k].sessions
    <3>1. metrics[s].evs = old[s].evs /\ (metrics[s] = old[s] \/ s \in Measured)
      BY <1>4, <2>1, <2>5 DEF Rerun
    <3>2. s \in Measured => \E k \in links'[r] : s \in resolved[k].sessions
      BY <1>4, <1>5
    <3>. QED
      BY <1>4, <3>1, <3>2
  <2>. QED
    BY <1>4, <2>1, <2>4, <2>5, <2>6, <2>7 DEF Rerun
<1>. QED
  BY <1>9, <1>10

LEMMA LinkStep ==
  ASSUME Types, NEW r \in Runs, LinkMetrics(r), Progress(r), done # NoRun => Rerun(r)
  PROVE  Progress(r)' /\ (done # NoRun => Rerun(r)')
<1>1. TypeOK /\ Tables /\ Shape /\ Held(r)
  BY DEF Types, Shape
<1>2. PICK w : w = win[r]
  OBVIOUS
<1>3. PICK resolved : resolved = ResolveNeeds(w)
  OBVIOUS
<1>4. PICK k \in links[r] :
        /\ metrics' = [s \in Sessions |-> IF s \in local[r][k].sessions
                                           THEN [metrics[s] EXCEPT !.need = k] ELSE metrics[s]]
        /\ links' = [links EXCEPT ![r] = @ \ {k}]
  BY DEF LinkMetrics
<1>5. /\ UNCHANGED <<convs, commits, events, needs, rows, pc, win, local, done>>
      /\ pc[r] = "link" /\ links'[r] = links[r] \ {k}
      /\ local[r] = resolved /\ k \in DOMAIN resolved
  BY <1>1, <1>2, <1>3, <1>4 DEF LinkMetrics, Shape, Held, Progress
<1>6. /\ \A j \in DOMAIN resolved : resolved[j].sessions \subseteq Sessions
      /\ \A j \in DOMAIN resolved : \A s \in resolved[j].sessions : s \in resolved[k].sessions => j = k
  <2>1. resolved \in [DOMAIN resolved -> NeedRec]
    BY <1>1, <1>3, ResolvedShape
  <2>. QED
    BY <1>1, <1>3, <1>5, <2>1, NeedsAreDisjoint DEF NeedRec
<1>7. ASSUME NEW s \in Sessions
      PROVE  /\ metrics'[s].evs = metrics[s].evs
             /\ s \in resolved[k].sessions => metrics'[s] = [evs |-> metrics[s].evs, need |-> k]
             /\ s \in resolved[k].sessions => metrics'[s].need = k
             /\ s \notin resolved[k].sessions => metrics'[s] = metrics[s]
  <2>1. metrics[s] \in [evs : SUBSET Convs, need : Keys \cup {NoNeed}]
    BY <1>1 DEF Tables
  <2>2. CASE s \in resolved[k].sessions
    BY <1>4, <1>5, <2>1, <2>2
  <2>3. CASE s \notin resolved[k].sessions
    BY <1>4, <1>5, <2>3
  <2>. QED
    BY <2>2, <2>3
<1>8. /\ Selected(w)' = Selected(w) /\ ResolveNeeds(w)' = resolved
      /\ Spans(w)' /\ Counted(w)' /\ Selected(w)' \subseteq events'
  BY <1>1, <1>2, <1>3, <1>5, <1>7, SameCounts DEF Progress
<1>9. Progress(r)'
  <2>1. ASSUME NEW j \in DOMAIN resolved
        PROVE  /\ needs'[j] = [resolved[j] EXCEPT !.work = needs'[j].work]
               /\ j \in links'[r] \/ \A s \in resolved[j].sessions : metrics'[s].need = j
    <3>1. /\ needs[j] = [resolved[j] EXCEPT !.work = needs[j].work]
          /\ j \in links[r] \/ \A s \in resolved[j].sessions : metrics[s].need = j
      BY <1>2, <1>5 DEF Progress
    <3>2. CASE j = k
      <4>1. \A s \in resolved[k].sessions : metrics'[s].need = k
        BY <1>5, <1>6, <1>7
      <4>. QED
        BY <1>5, <3>1, <3>2, <4>1
    <3>3. CASE j # k
      BY <1>5, <1>6, <1>7, <3>1, <3>3
    <3>. QED
      BY <3>2, <3>3
  <2>. QED
    BY <1>2, <1>5, <1>8, <2>1 DEF Progress
<1>10. ASSUME done # NoRun PROVE Rerun(r)'
  <2>1. Rerun(r)
    BY <1>10
  <2>2. PICK old : old = done.tables[2]
    OBVIOUS
  <2>3. Resolved(w)' /\ LinkedBy(old, w)' /\ RowsCurrent(w)'
    BY <1>1, <1>2, <1>5, <1>7, <2>1, <2>2, SameClaims DEF Rerun
  <2>4. ASSUME NEW s \in Sessions
        PROVE  /\ metrics'[s].evs = old[s].evs
               /\ metrics'[s] = old[s] \/ \E j \in links'[r] : s \in local'[r][j].sessions
    <3>1. /\ metrics[s].evs = old[s].evs
          /\ metrics[s] = old[s] \/ \E j \in links[r] : s \in resolved[j].sessions
          /\ old[s] \in [evs : SUBSET Convs, need : Keys \cup {NoNeed}]
      BY <1>5, <2>1, <2>2 DEF Rerun
    <3>2. CASE s \in resolved[k].sessions
      <4>1. old[s].need = k
        BY <1>2, <1>3, <1>5, <2>1, <2>2, <3>2 DEF Rerun, LinkedBy
      <4>. QED
        BY <1>7, <3>1, <3>2, <4>1
    <3>3. CASE s \notin resolved[k].sessions
      BY <1>5, <1>7, <3>1, <3>3
    <3>. QED
      BY <3>2, <3>3
  <2>. QED
    BY <1>2, <1>5, <2>1, <2>2, <2>3, <2>4 DEF Rerun
<1>. QED
  BY <1>9, <1>10

LEMMA ReadStep ==
  ASSUME Types, NEW r \in Runs, LinksWritten(r) \/ LoadNeeds(r), Progress(r), done # NoRun => Rerun(r)
  PROVE  Progress(r)' /\ (done # NoRun => Rerun(r)')
<1>1. TypeOK /\ Tables /\ Shape /\ Held(r)
  BY DEF Types, Shape
<1>2. PICK w : w = win[r]
  OBVIOUS
<1>3. PICK linked : linked = metrics
  OBVIOUS
<1>4. /\ UNCHANGED <<convs, commits, events, metrics, needs, rows, done>>
      /\ win'[r] = w
      /\ \/ /\ pc[r] = "link" /\ pc'[r] = "actuals" /\ links[r] = {} /\ local'[r] = local[r]
         \/ /\ pc[r] = "load" /\ pc'[r] = "write" /\ local'[r] = Slice(Overlapping(w))
  BY <1>1, <1>2 DEF LinksWritten, LoadNeeds, Goto, tables, Shape
<1>5. /\ Selected(w)' = Selected(w) /\ ResolveNeeds(w)' = ResolveNeeds(w)
      /\ Spans(w)' /\ Counted(w)' /\ Selected(w)' \subseteq events'
  BY <1>1, <1>2, <1>4, SameCounts DEF Progress
<1>6. Slice(Overlapping(w))' = Slice(Overlapping(w))
  BY <1>4 DEF Slice, Overlapping
<1>7. Progress(r)'
  <2>1. CASE pc[r] = "link"
    BY <1>2, <1>4, <1>5, <2>1 DEF Progress
  <2>2. CASE pc[r] = "load"
    <3>1. Resolved(w)' /\ LinkedBy(linked, w)'
      BY <1>1, <1>2, <1>3, <1>4, <2>2, SameClaims DEF Progress
    <3>2. LinkedBy(metrics, w)'
      BY <1>3, <1>4, <3>1 DEF LinkedBy
    <3>. QED
      BY <1>4, <1>5, <1>6, <2>2, <3>1, <3>2 DEF Progress
  <2>. QED
    BY <1>4, <2>1, <2>2
<1>8. ASSUME done # NoRun PROVE Rerun(r)'
  <2>1. Rerun(r)
    BY <1>8
  <2>2. PICK old : old = done.tables[2]
    OBVIOUS
  <2>3. Resolved(w)' /\ LinkedBy(old, w)' /\ RowsCurrent(w)'
    BY <1>1, <1>2, <1>4, <2>1, <2>2, SameClaims DEF Rerun
  <2>4. \A s \in Sessions : metrics'[s] = old[s]
    BY <1>4, <2>1, <2>2 DEF Rerun
  <2>. QED
    BY <1>4, <2>1, <2>2, <2>3, <2>4 DEF Rerun
<1>. QED
  BY <1>7, <1>8

LEMMA ActualsStep ==
  ASSUME Types, NEW r \in Runs, UpsertActuals(r), Progress(r), done # NoRun => Rerun(r)
  PROVE  Progress(r)' /\ (done # NoRun => Rerun(r)')
<1>1. TypeOK /\ Tables /\ Shape /\ Held(r)
  BY DEF Types, Shape
<1>2. PICK w : w = win[r]
  OBVIOUS
<1>3. PICK resolved : resolved = ResolveNeeds(w)
  OBVIOUS
<1>4. /\ UNCHANGED <<convs, commits, events, metrics, rows, done>>
      /\ pc[r] = "actuals" /\ pc'[r] = "load" /\ win'[r] = w
      /\ needs' = [k \in DOMAIN needs |->
           IF k \in DOMAIN local[r] THEN [needs[k] EXCEPT !.work = Actuals(local[r][k])] ELSE needs[k]]
  BY <1>1, <1>2 DEF UpsertActuals, Goto, Shape
<1>5. /\ local[r] = resolved /\ DOMAIN resolved \subseteq DOMAIN needs
      /\ \A k \in DOMAIN resolved :
           /\ needs[k] = [resolved[k] EXCEPT !.work = needs[k].work]
           /\ \A s \in resolved[k].sessions : metrics[s].need = k
  BY <1>1, <1>2, <1>3, <1>4 DEF Progress, Held
<1>6. resolved \in [DOMAIN resolved -> NeedRec]
  BY <1>1, <1>3, ResolvedShape
<1>7. /\ Selected(w)' = Selected(w) /\ ResolveNeeds(w)' = resolved
      /\ Spans(w)' /\ Counted(w)' /\ Selected(w)' \subseteq events'
  BY <1>1, <1>2, <1>3, <1>4, SameCounts DEF Progress
<1>8. ASSUME NEW k \in DOMAIN resolved
      PROVE  needs'[k] = Worked(resolved[k]) /\ Worked(resolved[k])' = Worked(resolved[k])
  <2>1. PICK m : m = Actuals(resolved[k])
    OBVIOUS
  <2>2. needs'[k] = [needs[k] EXCEPT !.work = m]
    BY <1>4, <1>5, <2>1
  <2>3. resolved[k] \in NeedRec /\ needs[k] = [resolved[k] EXCEPT !.work = needs[k].work]
    BY <1>5, <1>6
  <2>4. needs'[k] = [resolved[k] EXCEPT !.work = m]
    BY <2>2, <2>3 DEF NeedRec
  <2>5. resolved[k].sessions \subseteq Sessions
    BY <2>3 DEF NeedRec
  <2>6. PICK n : n = resolved[k]
    OBVIOUS
  <2>7. Worked(n)' = Worked(n)
    BY <1>4, <2>5, <2>6, SameActuals
  <2>. QED
    BY <2>1, <2>4, <2>6, <2>7 DEF Worked
<1>9. Resolved(w)'
  <2>1. DOMAIN needs' = DOMAIN needs
    BY <1>4
  <2>. QED
    BY <1>5, <1>7, <1>8, <2>1 DEF Resolved
<1>10. LinkedBy(metrics, w)'
  BY <1>4, <1>5, <1>7 DEF LinkedBy
<1>11. Progress(r)'
  BY <1>4, <1>7, <1>9, <1>10 DEF Progress
<1>12. ASSUME done # NoRun PROVE Rerun(r)'
  <2>1. Rerun(r)
    BY <1>12
  <2>2. \A k \in DOMAIN resolved : needs[k] = Worked(resolved[k])
    BY <1>2, <1>3, <2>1 DEF Rerun, Resolved
  <2>3. \A k \in DOMAIN needs : needs'[k] = needs[k]
    BY <1>4, <1>5, <1>8, <2>2
  <2>4. needs' = needs
    <3>1. needs = [k \in DOMAIN needs |-> needs[k]]
      BY <1>1 DEF Tables
    <3>2. needs' = [k \in DOMAIN needs |-> needs'[k]]
      BY <1>4
    <3>. QED
      BY <2>3, <3>1, <3>2
  <2>5. PICK old : old = done.tables[2]
    OBVIOUS
  <2>6. LinkedBy(old, w)' /\ RowsCurrent(w)'
    BY <1>1, <1>2, <1>4, <2>1, <2>4, <2>5, SameClaims DEF Rerun
  <2>7. \A s \in Sessions : metrics'[s] = old[s]
    BY <1>4, <2>1, <2>5 DEF Rerun
  <2>. QED
    BY <1>4, <1>9, <2>1, <2>4, <2>5, <2>6, <2>7 DEF Rerun
<1>. QED
  BY <1>11, <1>12

\* After the last step the tables are what the window makes of the imports.
LEMMA WriteStep ==
  ASSUME Types, NEW r \in Runs, WriteRows(r), calm = r, Progress(r)
  PROVE  AllDone'
<1>1. TypeOK /\ Tables /\ Shape
  BY DEF Types
<1>2. PICK w : w = win[r]
  OBVIOUS
<1>3. /\ pc[r] = "write" /\ UNCHANGED <<convs, commits, events, metrics, needs>>
      /\ rows' = Upsert(rows, BuildRows(local[r]))
      /\ done' = [win |-> w, tables |-> tables']
  BY <1>1, <1>2, LastStep
<1>4. /\ Spans(w) /\ Counted(w) /\ Resolved(w) /\ LinkedBy(metrics, w)
      /\ local[r] = Slice(Overlapping(w))
  BY <1>2, <1>3 DEF Progress
<1>5. PICK linked : linked = metrics
  OBVIOUS
<1>6. Spans(w)' /\ Counted(w)' /\ Resolved(w)' /\ LinkedBy(linked, w)'
  BY <1>1, <1>3, <1>4, <1>5, SameClaims
<1>7. LinkedBy(metrics, w)'
  BY <1>3, <1>5, <1>6 DEF LinkedBy
<1>8. RowsCurrent(w)'
  <2>1. Slice(Overlapping(w))' = local[r]
    BY <1>3, <1>4 DEF Slice, Overlapping
  <2>2. \A x \in DOMAIN BuildRows(local[r]) : x \in DOMAIN rows' /\ rows'[x] = BuildRows(local[r])[x]
    BY <1>3 DEF Upsert
  <2>. QED
    BY <2>1, <2>2 DEF RowsCurrent
<1>9. done'.win = w /\ w \in WindowRec /\ done'.tables = tables'
  BY <1>1, <1>2, <1>3 DEF Shape
<1>. QED
  BY <1>6, <1>7, <1>8, <1>9 DEF AllDone

LEMMA AloneStep == Types /\ Quiet /\ Alone /\ [Next]_vars => Alone'
<1>. SUFFICES ASSUME Types, Quiet, Alone, [Next]_vars PROVE Alone'
  OBVIOUS
<1>1. NoRun \notin Runs
  BY PipelineAssumption
<1>2. CASE Import
  BY <1>1, <1>2 DEF Import, Alone
<1>3. ASSUME NEW r \in Runs, Start(r) PROVE Alone'
  BY <1>3, AloneStart
<1>4. ASSUME NEW r \in Runs, RunStep(r), ~WriteRows(r) PROVE Alone'
  <2>1. calm = r => Progress(r) /\ (done # NoRun => Rerun(r))
    BY DEF Alone
  <2>2. calm = r => Progress(r)' /\ (done # NoRun => Rerun(r)')
    BY <1>4, <2>1, EventsStep, MetricsStep, NeedsStep, LinkStep, ReadStep, ActualsStep DEF RunStep
  <2>. QED
    BY <1>4, <2>2, AloneMidway
<1>5. ASSUME NEW r \in Runs, WriteRows(r) PROVE Alone'
  <2>1. Shape /\ RunStep(r)
    BY <1>5 DEF Types, RunStep
  <2>2. CASE calm = r
    <3>1. calm' = NoRun
      BY <1>5, <2>1, <2>2, LastStep
    <3>2. AllDone'
      BY <1>5, <2>2, WriteStep DEF Alone
    <3>. QED
      BY <1>1, <3>1, <3>2 DEF Alone
  <2>3. CASE calm # r
    <3>1. calm' \notin Runs /\ done' = NoRun
      BY <1>5, <2>1, <2>3, LastStep, OnlyTheCalmRunSteps
    <3>. QED
      BY <3>1 DEF Alone
  <2>. QED
    BY <2>2, <2>3
<1>6. ASSUME NEW r \in Runs, Fail(r) PROVE Alone'
  BY <1>1, <1>6 DEF Fail, Alone
<1>7. CASE UNCHANGED vars
  <2>1. /\ UNCHANGED <<convs, commits, events, metrics, needs, rows, pc, win, local, links, calm, done>>
        /\ tables' = tables /\ TypeOK
    BY <1>7 DEF vars, tables, Types
  <2>2. ASSUME NEW w
        PROVE  /\ Selected(w)' = Selected(w) /\ ResolveNeeds(w)' = ResolveNeeds(w)
               /\ Slice(Overlapping(w))' = Slice(Overlapping(w))
               /\ Spans(w) => Spans(w)'
               /\ Counted(w) => Counted(w)'
               /\ Resolved(w) => Resolved(w)'
               /\ \A m : LinkedBy(m, w) => LinkedBy(m, w)'
               /\ RowsCurrent(w) => RowsCurrent(w)'
    BY <2>1, SameClaims, SameCounts DEF Slice, Overlapping
  <2>3. PICK linked : linked = metrics
    OBVIOUS
  <2>4. ASSUME calm \in Runs PROVE Progress(calm)'
    <3>1. PICK w : w = win[calm]
      OBVIOUS
    <3>2. LinkedBy(metrics, w) => LinkedBy(metrics, w)'
      BY <2>1, <2>2, <2>3 DEF LinkedBy
    <3>. QED
      BY <2>1, <2>2, <2>4, <3>1, <3>2 DEF Alone, Progress
  <2>5. ASSUME calm \in Runs, done # NoRun PROVE Rerun(calm)'
    <3>1. PICK w : w = win[calm]
      OBVIOUS
    <3>2. PICK old : old = done.tables[2]
      OBVIOUS
    <3>3. Rerun(calm) /\ Measured' = Measured
      BY <2>1, <2>5 DEF Alone, Measured
    <3>. QED
      BY <2>1, <2>2, <3>1, <3>2, <3>3 DEF Rerun
  <2>6. ASSUME Idle, done # NoRun PROVE AllDone'
    <3>1. PICK w : w = done.win
      OBVIOUS
    <3>2. LinkedBy(metrics, w) => LinkedBy(metrics, w)'
      BY <2>1, <2>2, <2>3 DEF LinkedBy
    <3>. QED
      BY <2>1, <2>2, <2>6, <3>1, <3>2 DEF Alone, AllDone
  <2>. QED
    BY <2>1, <2>4, <2>5, <2>6 DEF Alone, Idle
<1>. QED
  BY <1>2, <1>3, <1>4, <1>5, <1>6, <1>7 DEF Next, RunStep

LEMMA IInvAlways == Spec => []IInv
<1>1. Init => IInv
  BY InitTypes, InitAlone DEF IInv
<1>2. IInv /\ [Next]_vars => IInv'
  BY TypesStep, QuietStep, AloneStep DEF IInv
<1>. QED
  BY <1>1, <1>2, PTL DEF Spec

-----------------------------------------------------------------------------
(* What a run leaves behind.                                               *)

\* After a run that had the database to itself every measured session names a
\* need that names it, with the minutes that its sessions' metrics give.
THEOREM RunsLinkBothWays == Spec => []LinksAreMutual
<1>1. IInv => LinksAreMutual
  <2>. SUFFICES ASSUME IInv, Idle, done # NoRun, NEW s \in Measured
                PROVE  /\ metrics[s].need \in DOMAIN needs
                       /\ s \in needs[metrics[s].need].sessions
                       /\ needs[metrics[s].need].work = Actuals(needs[metrics[s].need])
    BY DEF LinksAreMutual
  <2>. DEFINE w == done.win
              k == SessionKey(s, w)
              n == ResolveNeeds(w)[k]
  <2>1. Types /\ TypeOK /\ Tables /\ Resolved(w) /\ LinkedBy(metrics, w)
    BY DEF IInv, Types, Alone, AllDone
  <2>2. k \in DOMAIN ResolveNeeds(w) /\ s \in n.sessions /\ n \in NeedRec /\ n.commits \subseteq commits
    BY <2>1, ResolvedShape
  <2>3. metrics[s].need = k /\ k \in DOMAIN needs /\ needs[k] = Worked(n)
    BY <2>1, <2>2 DEF Resolved, LinkedBy
  <2>. HIDE DEF w, k, n
  <2>4. Actuals(n) \in Nat
    BY <2>1, <2>2, ActualsNat
  <2>5. needs[k].work = Actuals(n) /\ needs[k].sessions = n.sessions /\ needs[k].commits = n.commits
    BY <2>2, <2>3, <2>4 DEF Worked, NeedRec
  <2>6. Actuals(needs[k]) = Actuals(n)
    BY <2>5 DEF Actuals
  <2>. QED
    BY <2>2, <2>3, <2>5, <2>6
<1>. QED
  BY <1>1, IInvAlways, PTL

\* A run without dates counts every conversation in its session's metric, but for
\* those that the days in UTC leave out.
THEOREM FullRunsCover == Spec => []FullRunCovers
<1>1. IInv => FullRunCovers
  <2>. SUFFICES ASSUME IInv, Idle, done # NoRun, done.win.auto, NEW c \in convs, BetweenUtcDays(c)
                PROVE  c \in metrics[SessionOf[c]].evs
    BY DEF FullRunCovers
  <2>. DEFINE w == done.win
  <2>1. Spans(w) /\ Counted(w)
    BY DEF IInv, Alone, AllDone
  <2>2. c \in Selected(w)
    BY <2>1 DEF Spans, Selected
  <2>3. SessionOf[c] \in DOMAIN Grouped(Selected(w)) /\ c \in Grouped(Selected(w))[SessionOf[c]]
    BY <2>2 DEF Grouped
  <2>. QED
    BY <2>1, <2>3 DEF Counted
<1>. QED
  BY <1>1, IInvAlways, PTL

\* What a window shows of a week inside it is all that the week has.
LEMMA WholeWeeksAreRead ==
  ASSUME Types, NEW w \in WindowRec, NEW x, WeekInside(x[2], w)
  PROVE  Bucket(needs, x) = Bucket(Slice(Overlapping(w)), x)
<1>1. ASSUME NEW k \in DOMAIN needs, RowKey(needs[k]) = x PROVE k \in Overlapping(w)
  <2>. DEFINE n == needs[k]
  <2>1. n.from \in Times /\ n.to \in Times /\ n.from <= n.to
    BY DEF Types, TypeOK
  <2>2. Week(n.to) = x[2]
    BY <1>1 DEF RowKey
  <2>3. InWindow(n.to, w)
    BY <2>1, <2>2 DEF WeekInside
  <2>4. LocalDay[n.from] <= LocalDay[n.to] /\ LocalDay[n.from] \in Nat /\ LocalDay[n.to] \in Nat
    BY <2>1, PipelineAssumption DEF Times
  <2>5. w.from \in Nat /\ w.to \in Nat
    BY PipelineAssumption DEF WindowRec, Days
  <2>6. LocalDay[n.to] >= w.from /\ LocalDay[n.from] <= w.to
    <3>. HIDE DEF n
    <3>. QED
      BY <2>3, <2>4, <2>5 DEF InWindow
  <2>. QED
    BY <2>6 DEF Overlapping
<1>. QED
  BY <1>1 DEF Bucket, Slice, Overlapping

\* After a run the rows of the weeks inside its window are those of the whole table
\* of needs.
THEOREM RowsAreCurrent == Spec => []RowsMatchNeeds
<1>1. IInv => RowsMatchNeeds
  <2>. SUFFICES ASSUME IInv, Idle, done # NoRun,
                       NEW x \in DOMAIN BuildRows(needs), WeekInside(x[2], done.win)
                PROVE  x \in DOMAIN rows /\ rows[x] = BuildRows(needs)[x]
    BY DEF RowsMatchNeeds
  <2>. DEFINE w == done.win
              slice == Slice(Overlapping(w))
  <2>1. Types /\ RowsCurrent(w) /\ w \in WindowRec
    BY DEF IInv, Alone, AllDone
  <2>2. Bucket(needs, x) = Bucket(slice, x)
    BY <2>1, WholeWeeksAreRead
  <2>3. PICK k \in DOMAIN needs : RowKey(needs[k]) = x
    BY DEF BuildRows
  <2>4. k \in DOMAIN Bucket(slice, x)
    BY <2>2, <2>3 DEF Bucket
  <2>5. x \in DOMAIN BuildRows(slice)
    BY <2>4 DEF BuildRows, Bucket
  <2>6. BuildRows(slice)[x] = BuildRows(needs)[x]
    BY <2>2, <2>5 DEF BuildRows
  <2>. QED
    BY <2>1, <2>5, <2>6 DEF RowsCurrent
<1>. QED
  BY <1>1, IInvAlways, PTL

\* A second run with the same dates, and nothing else in between, leaves all
\* four tables as the first one left them.
THEOREM RerunsChangeNothing == Spec => RerunIsIdempotent
<1>. DEFINE Same == \A r \in Runs : pc[r] = "write" /\ pc'[r] = "idle" /\ calm = r /\ done # NoRun
                      => tables' = done.tables
<1>1. IInv /\ [Next]_vars => [Same]_vars
  <2>. SUFFICES ASSUME IInv, Next, NEW r \in Runs,
                       pc[r] = "write", pc'[r] = "idle", calm = r, done # NoRun
                PROVE  tables' = done.tables
    OBVIOUS
  <2>1. Types /\ TypeOK /\ Tables /\ Shape /\ Quiet /\ Progress(r) /\ Rerun(r)
    BY DEF IInv, Types, Alone
  <2>2. PICK old : old = done.tables[2]
    OBVIOUS
  <2>3. metrics = old /\ done.tables = <<events, metrics, needs, rows>>
    <3>1. /\ \A s \in Sessions : metrics[s] = old[s]
          /\ done.tables = <<events, old, needs, rows>>
          /\ old \in [Sessions -> [evs : SUBSET Convs, need : Keys \cup {NoNeed}]]
      BY <2>1, <2>2 DEF Rerun
    <3>2. metrics \in [Sessions -> [evs : SUBSET Convs, need : Keys \cup {NoNeed}]]
      BY <2>1 DEF Tables
    <3>3. metrics = old
      BY <3>1, <3>2
    <3>. QED
      BY <3>1, <3>3
  <2>4. CASE WriteRows(r)
    <3>1. UNCHANGED <<events, metrics, needs>> /\ rows' = Upsert(rows, BuildRows(local[r]))
      BY <2>1, <2>4, LastStep
    <3>2. \A x \in DOMAIN BuildRows(local[r]) : x \in DOMAIN rows /\ rows[x] = BuildRows(local[r])[x]
      BY <2>1 DEF Progress, Rerun, RowsCurrent
    <3>3. rows = [x \in DOMAIN rows |-> rows[x]]
      BY <2>1 DEF Tables, Function
    <3>4. rows' = rows
      BY <3>1, <3>2, <3>3 DEF Upsert
    <3>. QED
      BY <2>3, <3>1, <3>4 DEF tables
  <2>5. CASE tables' = tables
    BY <2>3, <2>5 DEF tables
  <2>6. WriteRows(r) \/ tables' = tables
    <3>1. ASSUME NEW q \in Runs, RunStep(q) PROVE WriteRows(r)
      <4>1. q = r
        BY <2>1, <3>1, OnlyTheCalmRunSteps
      <4>. QED
        BY <2>1, <3>1, <4>1, StepBeforeTheLast
    <3>. QED
      BY <3>1 DEF Next, Import, Start, Fail
  <2>. QED
    BY <2>4, <2>5, <2>6
<1>2. Spec => [][Same]_vars
  BY <1>1, IInvAlways, PTL DEF Spec
<1>. QED
  BY <1>2 DEF RerunIsIdempotent
=============================================================================
