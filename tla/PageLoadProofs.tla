---------------------------- MODULE PageLoadProofs ----------------------------
(***************************************************************************)
(* Proof that the load effect keeps the safety part of the promise of      *)
(* PageView, for any requests. What is on the screen can be told from the  *)
(* address only because at most one request counts: the skeleton is shown  *)
(* exactly while it is under way.                                          *)
(***************************************************************************)
EXTENDS PageLoad, TLAPS

Inv ==
  /\ TypeOK /\ SkeletonIffLive /\ ShownIsAsked
  /\ loading => ~failed

\* When the request that counts has ended, or none counted, none counts any more.
LEMMA NoneLeft ==
  ASSUME Inv, NEW c \in calls, calls' = calls \ {c}
  PROVE  /\ c.of \in Requests /\ c.live \in BOOLEAN
         /\ c.live => loading /\ c.of = asked /\ \A d \in calls' : ~d.live
         /\ ~c.live => ((\E d \in calls' : d.live) <=> (\E d \in calls : d.live))
<1>1. c \in [of : Requests, live : BOOLEAN]
  BY DEF Inv, TypeOK
<1>2. ASSUME c.live PROVE \A d \in calls' : ~d.live
  <2>1. SUFFICES ASSUME NEW d \in calls, d # c, d.live PROVE FALSE
    OBVIOUS
  <2>2. d \in [of : Requests, live : BOOLEAN] /\ d.of = asked /\ c.of = asked
    BY <1>2, <2>1 DEF Inv, TypeOK, SkeletonIffLive
  <2>3. d.live = TRUE /\ c.live = TRUE
    BY <1>1, <1>2, <2>1, <2>2
  <2>. QED
    BY <1>1, <2>1, <2>2, <2>3
<1>. QED
  BY <1>1, <1>2 DEF Inv, SkeletonIffLive

\* A request for the new address is sent and those before it are aborted or gone.
LEMMA AskInv ==
  ASSUME NEW q \in Requests, NEW old, \A d \in old : d \in [of : Requests, live : {FALSE}],
         asked' = q, calls' = old \cup {Call(q, TRUE)}, loading' = TRUE, failed' = FALSE,
         rowsOf' \in Requests \cup {NoRequest}
  PROVE  Inv'
<1>1. Call(q, TRUE) \in [of : Requests, live : BOOLEAN] /\ Call(q, TRUE).live /\ Call(q, TRUE).of = q
  BY DEF Call
<1>2. TypeOK'
  <2>1. calls' \subseteq [of : Requests, live : BOOLEAN]
    BY <1>1
  <2>. QED
    BY <2>1 DEF TypeOK
<1>3. SkeletonIffLive'
  <2>1. \E d \in calls' : d.live
    BY <1>1
  <2>2. ASSUME NEW d \in calls', d.live PROVE d.of = asked'
    BY <1>1, <2>2
  <2>. QED
    BY <2>1, <2>2 DEF SkeletonIffLive
<1>4. ShownIsAsked' /\ (loading' => ~failed')
  BY DEF ShownIsAsked
<1>. QED
  BY <1>2, <1>3, <1>4 DEF Inv

\* Only the end of the request that counts changes what is shown.
LEMMA EndInv == ASSUME Inv, NEW c \in calls, End(c) PROVE Inv'
<1>0. calls' = calls \ {c} /\ asked' = asked
  BY DEF End, Answer, Refuse
<1>1. /\ c.of \in Requests
      /\ c.live => loading /\ c.of = asked /\ \A d \in calls' : ~d.live
      /\ ~c.live => ((\E d \in calls' : d.live) <=> (\E d \in calls : d.live))
  BY <1>0, NoneLeft
<1>2. CASE c.live
  <2>1. ~loading' /\ loading' \in BOOLEAN /\ failed' \in BOOLEAN /\ \A d \in calls' : ~d.live
    BY <1>1, <1>2 DEF End, Answer, Refuse, Inv, TypeOK
  <2>2. \/ rowsOf' = asked /\ ~failed'
        \/ rowsOf' = NoRequest /\ failed'
    BY <1>1, <1>2 DEF End, Answer, Refuse, Inv
  <2>3. TypeOK'
    BY <1>0, <2>1, <2>2 DEF Inv, TypeOK
  <2>4. SkeletonIffLive' /\ ShownIsAsked'
    BY <1>0, <2>1, <2>2 DEF SkeletonIffLive, ShownIsAsked
  <2>. QED
    BY <2>1, <2>3, <2>4 DEF Inv
<1>3. CASE ~c.live
  <2>1. UNCHANGED <<rowsOf, loading, failed>>
    BY <1>3 DEF End, Answer, Refuse
  <2>2. TypeOK'
    BY <1>0, <2>1 DEF Inv, TypeOK
  <2>3. SkeletonIffLive'
    BY <1>0, <1>1, <1>3, <2>1 DEF Inv, SkeletonIffLive
  <2>. QED
    BY <1>0, <2>1, <2>2, <2>3 DEF Inv, ShownIsAsked
<1>. QED
  BY <1>2, <1>3

\* Every run and end of the effect keeps the invariant, whatever the address does.
LEMMA InvStep == Inv /\ [Next]_vars => Inv'
<1>. SUFFICES ASSUME Inv, [Next]_vars PROVE Inv'
  OBVIOUS
<1>1. ASSUME NEW q \in Requests, Ask(q) PROVE Inv'
  <2>. DEFINE old == {Call(c.of, FALSE) : c \in calls}
  <2>1. ASSUME NEW d \in old PROVE d \in [of : Requests, live : {FALSE}]
    <3>1. PICK c \in calls : d = Call(c.of, FALSE)
      OBVIOUS
    <3>2. c.of \in Requests
      BY DEF Inv, TypeOK
    <3>. QED
      BY <3>1, <3>2 DEF Call
  <2>2. calls' = old \cup {Call(q, TRUE)} /\ rowsOf' \in Requests \cup {NoRequest}
    BY <1>1 DEF Ask, Inv, TypeOK
  <2>. HIDE DEF old
  <2>. QED
    BY <1>1, <2>1, <2>2, AskInv DEF Ask
<1>2. ASSUME NEW q \in Requests, Open(q) PROVE Inv'
  <2>. DEFINE old == {}
  <2>1. calls' = old \cup {Call(q, TRUE)} /\ rowsOf' \in Requests \cup {NoRequest}
    BY <1>2 DEF Open
  <2>2. \A d \in old : d \in [of : Requests, live : {FALSE}]
    OBVIOUS
  <2>. HIDE DEF old
  <2>. QED
    BY <1>2, <2>1, <2>2, AskInv DEF Open
<1>3. ASSUME NEW c \in calls, End(c) PROVE Inv'
  BY <1>3, EndInv
<1>4. CASE UNCHANGED vars
  BY <1>4 DEF vars, Inv, TypeOK, SkeletonIffLive, ShownIsAsked
<1>. QED
  BY <1>1, <1>2, <1>3, <1>4 DEF Next

\* Whatever else is known, what is under way and what is held are of their types.
LEMMA TypeStep == TypeOK /\ [Next]_vars => TypeOK'
<1>. SUFFICES ASSUME TypeOK, [Next]_vars PROVE TypeOK'
  OBVIOUS
<1>1. ASSUME NEW q \in Requests, Ask(q) \/ Open(q) PROVE TypeOK'
  <2>1. Call(q, TRUE) \in [of : Requests, live : BOOLEAN]
        /\ \A c \in calls : Call(c.of, FALSE) \in [of : Requests, live : BOOLEAN]
    BY DEF TypeOK, Call
  <2>. QED
    BY <1>1, <2>1 DEF TypeOK, Ask, Open
<1>2. ASSUME NEW c \in calls, End(c) PROVE TypeOK'
  BY <1>2 DEF TypeOK, End, Answer, Refuse
<1>3. CASE UNCHANGED vars
  BY <1>3 DEF TypeOK, vars
<1>. QED
  BY <1>1, <1>2, <1>3 DEF Next

\* At first the one request under way is that of the address.
LEMMA InvInit == Init => Inv
<1>. SUFFICES ASSUME Init PROVE Inv
  OBVIOUS
<1>1. Call(asked, TRUE) \in [of : Requests, live : BOOLEAN] /\ Call(asked, TRUE).live
      /\ Call(asked, TRUE).of = asked
  BY DEF Init, Call
<1>2. TypeOK /\ SkeletonIffLive
  BY <1>1 DEF Init, TypeOK, SkeletonIffLive
<1>. QED
  BY <1>2 DEF Init, Inv, ShownIsAsked

\* The skeleton neither outlives the request of the address nor ends before it, and
\* what follows it is the answer of that request or its failure.
THEOREM Invariance == Spec => []Inv
BY InvInit, InvStep, PTL DEF Spec

\* Every step of the effect is one of PageView, or changes nothing on the screen.
LEMMA PromiseStep ==
  ASSUME NoRequest \notin Requests, Inv, [Next]_vars
  PROVE  [View!Next]_<<asked, Seen>>
<1>. USE DEF Inv, TypeOK, SkeletonIffLive, ShownIsAsked
<1>1. ASSUME NEW q \in Requests, Ask(q) \/ Open(q) PROVE View!Go
  BY <1>1 DEF Ask, Open, Seen, View!Go, View!AtFirst
<1>2. ASSUME NEW c \in calls, Answer(c) PROVE View!Settle \/ UNCHANGED <<asked, Seen>>
  BY <1>2 DEF Answer, Seen, View!Settle, View!Answers
<1>3. ASSUME NEW c \in calls, Refuse(c) PROVE View!Settle \/ UNCHANGED <<asked, Seen>>
  BY <1>3 DEF Refuse, Seen, View!Settle, View!Answers
<1>4. CASE UNCHANGED vars
  BY <1>4 DEF vars, Seen
<1>. QED
  BY <1>1, <1>2, <1>3, <1>4 DEF Next, End, View!Next

\* A page that loads from the address only ever moves as PageView says: to pending
\* when the address changes, and from pending to the answer or the failure of the
\* request of that address, whatever the order in which older answers come in.
THEOREM PromiseKept ==
  ASSUME NoRequest \notin Requests
  PROVE  Spec => View!Init /\ [][View!Next]_<<asked, Seen>>
<1>1. Init => View!Init
  BY DEF Init, Seen, View!Init, View!AtFirst
<1>. QED
  BY <1>1, PromiseStep, Invariance, PTL DEF Spec
=============================================================================
