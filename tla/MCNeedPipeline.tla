-------------------------- MODULE MCNeedPipeline --------------------------
(* Instants are thirds of a day, the database session is eight hours ahead *)
(* of UTC, and a week has two days. Session 1 spans both weeks and its     *)
(* branch gets a PR; session 2 works on the main line, and the last        *)
(* conversation is before 08:00.                                           *)
EXTENDS NeedPipeline, TLC

At(user, repo, branch) == [user |-> user, repo |-> repo, branch |-> branch]
By(user, repo, branch, at, pr) ==
  [user |-> user, repo |-> repo, branch |-> branch, at |-> at, pr |-> pr]

MCUtcDay    == [t \in 0..MaxTime |-> t \div 3 + 1]
MCLocalDay  == [t \in 0..MaxTime |-> (t + 1) \div 3 + 1]

MCConvs     == {"c1", "c2", "c3"}
MCTwoConvs  == {"c1", "c2"}
MCRuns      == Permutations(Runs)
MCSessionOf == [c \in MCConvs |-> IF c = "c3" THEN 2 ELSE 1]
MCStartTime == [c \in MCConvs |-> CASE c = "c1" -> 3 [] c = "c2" -> 6 [] c = "c3" -> 8]
MCSession   == <<At("alice", "web", "feature"), At("alice", "web", "main")>>
MCCommit    == <<By("alice", "web", "feature", 1, "7"), By("alice", "web", "main", 6, "none")>>
=============================================================================
