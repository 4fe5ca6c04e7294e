----------------------------- MODULE UrlPageProofs -----------------------------
(***************************************************************************)
(* What the list pages have in common, proved once for any page that reads *)
(* its state from the address (UrlPage): the orders and the pages of their *)
(* tables (ListOrder), and an invariant of the page, which every change of *)
(* the address keeps that goes back to page 1 or follows the bar.          *)
(***************************************************************************)
EXTENDS UrlPage, ListOrder, SequenceTheorems, FiniteSetTheorems, TLAPS

CONSTANTS
  N,               \* how many rows there are
  States, Drafts,  \* what address and fields may hold
  Matching(_)      \* the rows a request is for, all pages of them

-----------------------------------------------------------------------------
(* Orders and what is cut out of them (ListOrder).                         *)

StrictOrder(S, R) ==
  /\ \A x, y \in S : x = y \/ <<x, y>> \in R \/ <<y, x>> \in R
  /\ \A x \in S : <<x, x>> \notin R
  /\ \A x, y, z \in S : <<x, y>> \in R /\ <<y, z>> \in R => <<x, z>> \in R

\* Every rank from 0 on is taken by one member.
LEMMA Ranked ==
  ASSUME NEW S, IsFiniteSet(S), NEW R, StrictOrder(S, R)
  PROVE  /\ Cardinality(S) \in Nat
         /\ \A x \in S : Rank(S, R, x) \in 0 .. Cardinality(S) - 1
         /\ \A x, y \in S : <<x, y>> \in R => Rank(S, R, x) < Rank(S, R, y)
         /\ \A k \in 0 .. Cardinality(S) - 1 : \E x \in S : Rank(S, R, x) = k
<1>. DEFINE Below(x) == {y \in S : <<y, x>> \in R}
            len == Cardinality(S)
<1>1. len \in Nat
  BY FS_CardinalityType
<1>2. \A x : IsFiniteSet(Below(x)) /\ Rank(S, R, x) \in Nat /\ Rank(S, R, x) = Cardinality(Below(x))
  BY FS_Subset, FS_CardinalityType DEF Rank
<1>3. ASSUME NEW x \in S PROVE Rank(S, R, x) \in 0 .. len - 1
  <2>1. x \notin Below(x)
    BY DEF StrictOrder
  <2>2. Below(x) \subseteq S /\ Below(x) # S
    BY <2>1
  <2>3. Cardinality(Below(x)) <= len /\ Cardinality(Below(x)) # len
    BY <2>2, FS_Subset
  <2>. HIDE DEF Below, len
  <2>. QED
    BY <1>1, <1>2, <2>3
<1>4. ASSUME NEW x \in S, NEW y \in S, <<x, y>> \in R PROVE Rank(S, R, x) < Rank(S, R, y)
  <2>1. Below(x) \subseteq Below(y) /\ x \in Below(y) /\ x \notin Below(x)
    BY <1>4 DEF StrictOrder
  <2>2. Cardinality(Below(x)) <= Cardinality(Below(y)) /\ Cardinality(Below(x)) # Cardinality(Below(y))
    BY <1>2, <2>1, FS_Subset
  <2>. HIDE DEF Below
  <2>. QED
    BY <1>2, <2>2
<1>5. ASSUME NEW k \in 0 .. len - 1 PROVE \E x \in S : Rank(S, R, x) = k
  <2>. DEFINE f == [x \in S |-> Rank(S, R, x)]
  <2>. HIDE DEF len
  <2>1. f \in [S -> 0 .. len - 1]
    BY <1>3
  <2>2. \A x, y \in S : f[x] = f[y] => x = y
    <3>. SUFFICES ASSUME NEW x \in S, NEW y \in S, f[x] = f[y], x # y PROVE FALSE
      OBVIOUS
    <3>1. <<x, y>> \in R \/ <<y, x>> \in R
      BY DEF StrictOrder
    <3>2. Rank(S, R, x) = Rank(S, R, y) /\ Rank(S, R, x) \in Nat
      BY <1>2
    <3>. QED
      BY <1>4, <3>1, <3>2
  <2>. HIDE DEF f
  <2>3. f \in Injection(S, 0 .. len - 1)
    BY <2>1, <2>2 DEF Injection, IsInjective
  <2>4. IsFiniteSet(0 .. len - 1) /\ Cardinality(0 .. len - 1) = len
    BY <1>1, FS_Interval
  <2>5. f \in Surjection(S, 0 .. len - 1)
    BY <2>3, <2>4, FS_Injection DEF len
  <2>. QED
    BY <2>5 DEF Surjection, f
<1>. QED
  BY <1>1, <1>3, <1>4, <1>5

\* The members in order: all of them, and each before those that come after it.
LEMMA InOrderIs ==
  ASSUME NEW S, IsFiniteSet(S), NEW R, StrictOrder(S, R)
  PROVE  /\ Cardinality(S) \in Nat
         /\ InOrder(S, R) \in [1..Cardinality(S) -> S]
         /\ \A i, j \in 1..Cardinality(S) : i < j => <<InOrder(S, R)[i], InOrder(S, R)[j]>> \in R
<1>. DEFINE len == Cardinality(S)
            s == InOrder(S, R)
<1>1. len \in Nat
  BY Ranked
<1>2. ASSUME NEW i \in 1..len PROVE s[i] \in S /\ Rank(S, R, s[i]) = i - 1
  <2>1. i - 1 \in 0 .. len - 1
    <3>. HIDE DEF len
    <3>. QED
      BY <1>1
  <2>2. \E x \in S : Rank(S, R, x) = i - 1
    BY <2>1, Ranked
  <2>3. s[i] = CHOOSE x \in S : Rank(S, R, x) = i - 1
    BY DEF InOrder
  <2>. HIDE DEF s, len
  <2>. QED
    BY <2>2, <2>3
<1>3. s \in [1..len -> S]
  BY <1>2 DEF InOrder
<1>4. ASSUME NEW i \in 1..len, NEW j \in 1..len, i < j PROVE <<s[i], s[j]>> \in R
  <2>1. PICK x, y : x = s[i] /\ y = s[j]
    OBVIOUS
  <2>2. x \in S /\ y \in S /\ Rank(S, R, x) = i - 1 /\ Rank(S, R, y) = j - 1
    BY <1>2, <2>1
  <2>3. <<y, x>> \in R => j - 1 < i - 1
    BY <2>2, Ranked
  <2>. HIDE DEF s, len
  <2>4. x # y /\ <<y, x>> \notin R
    BY <1>1, <1>4, <2>2, <2>3
  <2>. QED
    BY <2>1, <2>2, <2>4 DEF StrictOrder
<1>. QED
  BY <1>1, <1>3, <1>4

\* Numbers are ordered by size, rows by their values.
LEMMA NumbersAreOrdered ==
  ASSUME NEW S \in SUBSET Int, NEW desc \in BOOLEAN
  PROVE  StrictOrder(S, ByNumber(S, desc))
BY DEF StrictOrder, ByNumber

LEMMA ValuesAreOrdered ==
  ASSUME NEW T, NEW rows \in Seq(T), NEW value, \A x \in T : value[x] \in Nat \cup {NoValue},
         NEW desc \in BOOLEAN
  PROVE  StrictOrder(DOMAIN rows, ByValue(rows, value, desc))
<1>1. \A i \in DOMAIN rows : i \in Nat /\ value[rows[i]] \in Nat \cup {NoValue}
  OBVIOUS
<1>. QED
  BY <1>1 DEF StrictOrder, ByValue

\* An order goes up or down by a column, or there is none; a click leads to another.
LEMMA OrdersAreKept ==
  ASSUME NEW F, NEW o \in OrdersOver(F)
  PROVE  /\ o.desc \in BOOLEAN
         /\ NoOrder \in OrdersOver(F)
         /\ \A G : (IF o.field \in G THEN o ELSE NoOrder) \in OrdersOver(G)
         /\ \A f \in F : NextOrder(o, f) \in OrdersOver(F)
<1>1. o.desc \in BOOLEAN
  <2>1. CASE o = NoOrder
    BY <2>1 DEF NoOrder
  <2>2. CASE o \in [field : F, desc : BOOLEAN]
    BY <2>2
  <2>. QED
    BY <2>1, <2>2 DEF OrdersOver
<1>2. NoOrder \in OrdersOver(F)
  BY DEF OrdersOver
<1>3. ASSUME NEW G PROVE (IF o.field \in G THEN o ELSE NoOrder) \in OrdersOver(G)
  BY DEF OrdersOver
<1>4. ASSUME NEW f \in F PROVE NextOrder(o, f) \in OrdersOver(F)
  <2>1. By(f, FALSE) \in OrdersOver(F) /\ By(f, TRUE) \in OrdersOver(F)
    BY DEF By, OrdersOver
  <2>. QED
    BY Zenon, <1>2, <2>1 DEF NextOrder
<1>. QED
  BY <1>1, <1>2, <1>3, <1>4

\* Rows sorted in the browser: as many, and those without a value last.
LEMMA SortedRows ==
  ASSUME NEW T, NEW rows \in Seq(T), NEW value, \A x \in T : value[x] \in Nat \cup {NoValue},
         NEW desc \in BOOLEAN
  PROVE  LET q == SortRows(rows, value, desc) IN
         /\ q \in Seq(T) /\ Len(q) = Len(rows)
         /\ \A i, j \in 1..Len(rows) : i < j =>
              \/ value[q[j]] = NoValue
              \/ /\ value[q[i]] # NoValue
                 /\ IF desc THEN value[q[i]] >= value[q[j]] ELSE value[q[i]] <= value[q[j]]
<1>. DEFINE len == Len(rows)
            R == ByValue(rows, value, desc)
            idx == InOrder(1..len, R)
            q == SortRows(rows, value, desc)
<1>1. len \in Nat /\ DOMAIN rows = 1..len /\ \A i \in 1..len : rows[i] \in T
  OBVIOUS
<1>2. IsFiniteSet(1..len) /\ Cardinality(1..len) = len /\ StrictOrder(1..len, R)
  <2>1. StrictOrder(DOMAIN rows, R)
    BY ValuesAreOrdered
  <2>. HIDE DEF len, R
  <2>. QED
    BY <1>1, <2>1, FS_Interval
<1>3. idx \in [1..len -> 1..len] /\ \A i, j \in 1..len : i < j => <<idx[i], idx[j]>> \in R
  <2>. HIDE DEF len, R
  <2>. QED
    BY <1>2, InOrderIs
<1>4. q = [i \in 1..len |-> rows[idx[i]]]
  BY <1>1 DEF SortRows
<1>5. q \in Seq(T) /\ Len(q) = len
  <2>. HIDE DEF len, R, idx, q
  <2>1. \A i \in 1..len : rows[idx[i]] \in T
    BY <1>1, <1>3
  <2>2. q \in [1..len -> T]
    BY <1>4, <2>1
  <2>. QED
    BY <1>1, <2>2
<1>6. ASSUME NEW i \in 1..len, NEW j \in 1..len, i < j
      PROVE  \/ value[q[j]] = NoValue
             \/ /\ value[q[i]] # NoValue
                /\ IF desc THEN value[q[i]] >= value[q[j]] ELSE value[q[i]] <= value[q[j]]
  <2>1. PICK k, l : k = idx[i] /\ l = idx[j]
    OBVIOUS
  <2>2. <<k, l>> \in R /\ k \in 1..len /\ l \in 1..len
    BY <1>3, <1>6, <2>1
  <2>3. PICK a, b : a = value[rows[k]] /\ b = value[rows[l]]
    OBVIOUS
  <2>4. IF a = b THEN k < l
        ELSE IF a = NoValue \/ b = NoValue THEN b = NoValue
        ELSE IF desc THEN a > b ELSE a < b
    BY <2>2, <2>3 DEF ByValue
  <2>5. value[q[i]] = a /\ value[q[j]] = b
    <3>. HIDE DEF len, R, idx, q
    <3>. QED
      BY <1>4, <2>1, <2>3
  <2>6. a \in Nat \cup {NoValue} /\ b \in Nat \cup {NoValue}
    BY <1>1, <2>2, <2>3
  <2>. HIDE DEF len, R, idx, q
  <2>. QED
    BY <2>4, <2>5, <2>6
<1>. QED
  BY <1>5, <1>6

\* A page of the bar is not after the one shown, or there are rows for it.
LEMMA PageBar ==
  ASSUME NEW page \in Nat \ {0}, NEW size \in Nat \ {0}, NEW total \in Nat,
         NEW p \in Reachable(page, total, size)
  PROVE  /\ p \in Nat \ {0}
         /\ p <= page \/ ((p - 1) * size < total /\ p <= total)
<1>. DEFINE n == PageCount(total, size)
<1>1. n \in Nat \ {0} /\ (n = 1 \/ (n - 1) * size < total)
  <2>1. CASE total = 0
    BY <2>1 DEF PageCount
  <2>2. CASE total # 0
    <3>1. PICK d : d = (total + size - 1) \div size
      OBVIOUS
    <3>2. d \in Int /\ d * size <= total + size - 1 /\ total + size - 1 < d * size + size
      BY <3>1
    <3>3. d > 0
      BY <2>2, <3>2
    <3>4. (d - 1) * size = d * size - size
      BY <3>2
    <3>5. n = d
      BY <2>2, <3>1 DEF PageCount
    <3>. HIDE DEF n
    <3>. QED
      BY <3>2, <3>3, <3>4, <3>5
  <2>. QED
    BY <2>1, <2>2
<1>2. p \in 1..n \/ (p = page - 1 /\ page > 1) \/ (p = page + 1 /\ page < n)
  BY DEF Reachable, Neighbours
<1>. HIDE DEF n
<1>3. p \in Nat \ {0} /\ (p <= page \/ p <= n)
  BY <1>1, <1>2
<1>4. ASSUME p > page PROVE (p - 1) * size < total /\ p <= total
  <2>1. p <= n /\ n # 1 /\ p > 1
    BY <1>1, <1>3, <1>4
  <2>2. (p - 1) * size <= (n - 1) * size
    BY <1>1, <1>3, <2>1
  <2>3. p - 1 <= (p - 1) * size
    BY <1>3
  <2>4. (p - 1) * size \in Int /\ (n - 1) * size \in Int
    BY <1>1, <1>3
  <2>. QED
    BY <1>1, <1>3, <2>1, <2>2, <2>3, <2>4
<1>. QED
  BY <1>3, <1>4

\* What there are rows for goes for the pages before it.
LEMMA PagesBefore ==
  ASSUME NEW page \in Nat \ {0}, NEW size \in Nat \ {0}, NEW p \in Nat \ {0}, p <= page
  PROVE  (p - 1) * size <= (page - 1) * size /\ (p - 1) * size \in Nat /\ (page - 1) * size \in Nat
OBVIOUS

\* A page shows rows when there are more than the pages before it hold.
LEMMA PageIsFilled ==
  ASSUME NEW S \in SUBSET Int, IsFiniteSet(S), NEW size \in Nat \ {0}, NEW p \in Nat \ {0},
         (p - 1) * size < Cardinality(S), NEW desc \in BOOLEAN
  PROVE  PageRows(S, p, size, desc) # {}
<1>. DEFINE R == ByNumber(S, desc)
            k == (p - 1) * size
<1>1. StrictOrder(S, R)
  BY NumbersAreOrdered
<1>2. k \in 0 .. Cardinality(S) - 1
  BY FS_CardinalityType
<1>3. PICK x \in S : Rank(S, R, x) = k
  <2>. HIDE DEF R, k
  <2>. QED
    BY <1>1, <1>2, Ranked
<1>4. k \div size = p - 1
  OBVIOUS
<1>. HIDE DEF k
<1>. QED
  BY <1>3, <1>4 DEF PageRows

\* Rows that match are left for the page shown, unless it is the first.
Filled(total, size, page) == page > 1 => (page - 1) * size < total

\* Wherever the bar leads, the page is one of those there may be, and it shows rows
\* if the bar was drawn for what matches, or for nothing.
LEMMA PageChosen ==
  ASSUME N \in Nat, NEW page \in 1..N, NEW size \in Nat \ {0}, NEW total \in 0..N,
         NEW p \in Reachable(page, total, size)
  PROVE  /\ p \in 1..N
         /\ \A n \in Nat : (total = n \/ total = 0) /\ Filled(n, size, page) => Filled(n, size, p)
<1>1. p \in Nat \ {0} /\ (p <= page \/ ((p - 1) * size < total /\ p <= total))
  BY PageBar
<1>2. ASSUME NEW n \in Nat, total = n \/ total = 0, Filled(n, size, page), p > 1
      PROVE  (p - 1) * size < n
  <2>1. CASE p <= page
    <3>1. (p - 1) * size <= (page - 1) * size /\ (p - 1) * size \in Nat /\ (page - 1) * size \in Nat
      BY <1>1, <2>1, PagesBefore
    <3>2. (page - 1) * size < n
      BY <1>1, <1>2, <2>1 DEF Filled
    <3>. QED
      BY <3>1, <3>2
  <2>2. CASE ~(p <= page)
    <3>1. (p - 1) * size < total /\ (p - 1) * size \in Nat
      BY <1>1, <2>2
    <3>. QED
      BY <1>2, <3>1
  <2>. QED
    BY <2>1, <2>2
<1>. QED
  BY <1>1, <1>2 DEF Filled

-----------------------------------------------------------------------------
(* The address and the state it stands for (UrlPage).                      *)

\* What is left out of the address because it is the default is filled in again.
LEMMA RoundTrip ==
  ASSUME NEW D, NEW s, DOMAIN s = DOMAIN D, s = [k \in DOMAIN s |-> s[k]], NEW u,
         u = [k \in {p \in DOMAIN s : p = "range" \/ s[p] # D[p]} |-> s[k]]
  PROVE  [k \in DOMAIN D |-> IF k \in DOMAIN u THEN u[k] ELSE D[k]] = s
<1>1. \A k \in DOMAIN D : (IF k \in DOMAIN u THEN u[k] ELSE D[k]) = s[k]
  OBVIOUS
<1>. QED
  BY <1>1

LEMMA NothingRead ==
  ASSUME NEW D, D = [k \in DOMAIN D |-> D[k]], NEW u, u = <<>>
  PROVE  [k \in DOMAIN D |-> IF k \in DOMAIN u THEN u[k] ELSE D[k]] = D
<1>1. DOMAIN u = {}
  OBVIOUS
<1>. QED
  BY <1>1

LoadP == INSTANCE PageLoadProofs WITH asked <- Asked

\* A step of the effect, or one that leaves it alone.
Loads == LoadP!Next \/ UNCHANGED LoadP!vars

\* A change of the address is a run of the effect, or changes nothing that is loaded.
LEMMA GotoStep ==
  ASSUME NEW u, NEW s, NEW d, NEW e, Goto(u, s, d, e), Read(u) = s, Params(s) \in Requests
  PROVE  /\ state' = s /\ meant' = s /\ early' = e /\ rowsOf' = rowsOf
         /\ draft' = IF u = url THEN d ELSE Refill(s)
         /\ Loads
         /\ u # url => loading'
<1>1. /\ url' = u /\ meant' = s /\ early' = e /\ Rerun(u)
      /\ draft' = IF u = url THEN d ELSE Refill(s)
  BY DEF Goto
<1>2. state' = s
  BY <1>1 DEF state
<1>3. Asked' = Params(s)
  BY <1>2 DEF Asked
<1>4. CASE u = url
  <2>1. UNCHANGED load /\ Asked' = Asked
    BY <1>1, <1>4, <1>3 DEF Rerun, Asked, state
  <2>. QED
    BY <1>1, <1>2, <1>4, <2>1 DEF load, LoadP!vars, Loads
<1>5. CASE u # url
  <2>1. Load!Ask(Params(s))
    BY <1>1, <1>5 DEF Rerun
  <2>2. LoadP!Ask(Params(s)) /\ loading' = TRUE /\ rowsOf' = rowsOf
    BY <2>1 DEF Load!Ask, Load!Call, LoadP!Ask, LoadP!Call
  <2>. QED
    BY <1>1, <1>2, <1>5, <2>2 DEF LoadP!Next, Loads
<1>. QED
  BY <1>4, <1>5

LEMMA ReloadStep ==
  ASSUME Reload, Asked \in Requests
  PROVE  /\ state' = state /\ meant' = meant /\ early' = early
         /\ draft' = Refill(state)
         /\ Loads
<1>1. url' = url /\ draft' = Refill(state) /\ Load!Open(Asked) /\ UNCHANGED <<meant, early>>
  BY DEF Reload
<1>2. LoadP!Open(Asked)
  BY <1>1 DEF Load!Open, Load!Call, LoadP!Open, LoadP!Call
<1>. QED
  BY <1>1, <1>2 DEF state, LoadP!Next, Loads

LEMMA LoadEndsStep ==
  ASSUME NEW c \in calls, LoadEnds(c)
  PROVE  /\ state' = state /\ meant' = meant /\ early' = early /\ draft' = draft
         /\ Loads
<1>1. url' = url /\ Load!End(c) /\ UNCHANGED <<draft, meant, early>>
  BY DEF LoadEnds
<1>2. LoadP!End(c)
  BY <1>1 DEF Load!End, Load!Answer, Load!Refuse, LoadP!End, LoadP!Answer, LoadP!Refuse
<1>. QED
  BY <1>1, <1>2 DEF state, LoadP!Next, Loads

-----------------------------------------------------------------------------
(* The invariant of a page.                                                *)

\* What is written to an address is read from it again, and may be asked for.
Suits ==
  /\ NoRequest \notin Requests
  /\ Defaults \in States /\ Read(<<>>) = Defaults
  /\ \A s \in States : Read(Write(s)) = s /\ Params(s) \in Requests /\ Refill(s) \in Drafts

\* The backend cuts a page of rows out of those that match.
Paged ==
  /\ N \in Nat \ {0} /\ "range" \in Fields /\ Defaults.page = 1
  /\ \A s \in States : s.page \in 1..N /\ s.size \in Nat \ {0}
  /\ \A q \in Requests : /\ Matching(q) \in SUBSET Int /\ IsFiniteSet(Matching(q))
                         /\ Cardinality(Matching(q)) \in 0..N

AddressInv == state \in States /\ draft \in Drafts /\ LoadP!Inv

\* The fields show the dates of the address, the address holds what was set last, and
\* rows are left for its page, unless the page was picked on the total of other rows.
PageInv ==
  /\ AddressInv
  /\ draft.range = state.range
  /\ meant = state
  /\ early \/ Filled(Cardinality(Matching(Asked)), state.size, state.page)

LEMMA LoadsKeep == LoadP!Inv /\ Loads => LoadP!Inv'
BY LoadP!InvStep DEF Loads

LEMMA AddressMove ==
  ASSUME Suits, AddressInv, NEW u, NEW s \in States, NEW d \in Drafts, NEW e,
         Goto(u, s, d, e), Read(u) = s
  PROVE  AddressInv' /\ Loads
<1>1. state' = s /\ draft' = (IF u = url THEN d ELSE Refill(s)) /\ Loads
  BY GotoStep DEF Suits
<1>2. LoadP!Inv'
  BY <1>1, LoadsKeep DEF AddressInv
<1>. QED
  BY <1>1, <1>2 DEF Suits, AddressInv

\* A handler changes the address: to page 1, or one there are rows for, or one picked
\* on other rows.
LEMMA PageMove ==
  ASSUME Suits, Paged, PageInv, NEW u, NEW s \in States, NEW d \in Drafts, NEW e,
         Goto(u, s, d, e), Read(u) = s, u = url => d.range = s.range,
         e \/ s.page = 1 \/ Filled(Cardinality(Matching(Params(s))), s.size, s.page)
  PROVE  PageInv' /\ Loads
<1>1. /\ state' = s /\ meant' = s /\ early' = e
      /\ draft' = (IF u = url THEN d ELSE Refill(s))
  BY GotoStep DEF Suits
<1>2. AddressInv' /\ Loads
  BY AddressMove DEF PageInv
<1>3. Asked' = Params(s)
  BY <1>1 DEF Asked
<1>4. draft'.range = s.range
  BY <1>1 DEF Paged, Refill
<1>5. e \/ Filled(Cardinality(Matching(Params(s))), s.size, s.page)
  BY DEF Filled
<1>. QED
  BY <1>1, <1>2, <1>3, <1>4, <1>5 DEF PageInv

LEMMA PageCommit ==
  ASSUME Suits, Paged, PageInv, NEW s \in States, NEW d \in Drafts, NEW e,
         Commit(s, d, e), d.range = s.range,
         e \/ s.page = 1 \/ Filled(Cardinality(Matching(Params(s))), s.size, s.page)
  PROVE  PageInv' /\ Loads
BY PageMove DEF Commit, Suits

LEMMA PageOpened ==
  ASSUME Suits, Paged, PageInv, OpenFromMenu
  PROVE  PageInv' /\ Loads
<1>1. Goto(<<>>, Defaults, draft, FALSE) /\ Defaults.page = 1 /\ Read(<<>>) = Defaults
  BY DEF OpenFromMenu, Suits, Paged
<1>2. <<>> = url => draft.range = Defaults.range
  BY <1>1 DEF PageInv, state
<1>3. draft \in Drafts /\ Defaults \in States
  BY DEF PageInv, AddressInv, Suits
<1>. QED
  BY <1>1, <1>2, <1>3, PageMove

LEMMA PageReset ==
  ASSUME Suits, Paged, PageInv, Commit(Defaults, Refill(Defaults), FALSE)
  PROVE  PageInv' /\ Loads
<1>1. Refill(Defaults) \in Drafts /\ Refill(Defaults).range = Defaults.range /\ Defaults.page = 1
  BY DEF Suits, Paged, Refill
<1>. QED
  BY <1>1, PageCommit DEF Suits

LEMMA PageReloaded ==
  ASSUME Suits, Paged, PageInv, Reload
  PROVE  PageInv' /\ Loads
<1>1. /\ state' = state /\ meant' = meant /\ early' = early
      /\ draft' = Refill(state) /\ Loads
  BY ReloadStep DEF PageInv, AddressInv, Suits, Asked
<1>2. LoadP!Inv'
  BY <1>1, LoadsKeep DEF PageInv, AddressInv
<1>3. draft' \in Drafts /\ draft'.range = state.range
  BY <1>1 DEF PageInv, AddressInv, Suits, Paged, Refill
<1>. QED
  BY <1>1, <1>2, <1>3 DEF PageInv, AddressInv, Asked

LEMMA PageLoaded ==
  ASSUME PageInv, NEW c \in calls, LoadEnds(c)
  PROVE  PageInv' /\ Loads
<1>1. /\ state' = state /\ meant' = meant /\ early' = early /\ draft' = draft /\ Loads
  BY LoadEndsStep
<1>2. LoadP!Inv'
  BY <1>1, LoadsKeep DEF PageInv, AddressInv
<1>. QED
  BY <1>1, <1>2 DEF PageInv, AddressInv, Asked

\* Nothing else of the page but a field changes, if that.
LEMMA PageFields ==
  ASSUME PageInv, UNCHANGED <<url, load, meant, early>>,
         draft' \in Drafts, draft'.range = draft.range
  PROVE  PageInv' /\ Loads
<1>1. state' = state /\ Asked' = Asked
  BY DEF state, Asked
<1>2. Loads
  BY <1>1 DEF Loads, load, LoadP!vars
<1>3. LoadP!Inv'
  BY <1>2, LoadsKeep DEF PageInv, AddressInv
<1>. QED
  BY <1>1, <1>2, <1>3 DEF PageInv, AddressInv

LEMMA PageStart ==
  ASSUME Suits, Paged, Init
  PROVE  PageInv
<1>1. state = Defaults /\ Asked \in Requests
  BY DEF Init, Suits, state, Asked
<1>2. LoadP!Init
  BY <1>1 DEF Init, Load!Init, Load!Call, LoadP!Init, LoadP!Call
<1>3. LoadP!Inv
  BY <1>2, LoadP!InvInit
<1>4. draft \in Drafts /\ draft.range = state.range /\ meant = state
  BY <1>1 DEF Init, Suits, Paged, Refill
<1>5. state.page = 1
  BY <1>1 DEF Paged
<1>. QED
  BY <1>1, <1>3, <1>4, <1>5 DEF PageInv, AddressInv, Suits, Filled

\* Once nothing is loading the rows are those of the address, or there are none.
LEMMA PageSettled ==
  ASSUME AddressInv, ~loading
  PROVE  rowsOf = IF failed THEN NoRequest ELSE Asked
BY DEF AddressInv, LoadP!Inv, LoadP!ShownIsAsked

\* The bar leads to a page there are rows for, unless it was drawn for other rows.
LEMMA BarLeadsToRows ==
  ASSUME Suits, Paged, PageInv, NEW total,
         total = IF rowsOf = NoRequest THEN 0 ELSE Cardinality(Matching(rowsOf)),
         NEW p \in Reachable(state.page, total, state.size)
  PROVE  /\ p \in 1..N
         /\ loading \/ early \/ Filled(Cardinality(Matching(Asked)), state.size, p)
<1>. DEFINE n == Cardinality(Matching(Asked))
<1>1. state \in States /\ Asked \in Requests
  BY DEF PageInv, AddressInv, Suits, Asked
<1>2. n \in Nat
  BY <1>1 DEF Paged
<1>3. rowsOf \in Requests \cup {NoRequest}
  BY DEF PageInv, AddressInv, LoadP!Inv, LoadP!TypeOK
<1>4. total \in 0..N
  BY <1>3 DEF Paged
<1>5. loading \/ total = n \/ total = 0
  BY PageSettled DEF PageInv
<1>6. state.page \in 1..N /\ state.size \in Nat \ {0} /\ N \in Nat
  BY <1>1 DEF Paged
<1>. HIDE DEF n
<1>7. /\ p \in 1..N
      /\ (total = n \/ total = 0) /\ Filled(n, state.size, state.page) => Filled(n, state.size, p)
  BY <1>2, <1>4, <1>6, PageChosen
<1>8. early \/ Filled(n, state.size, state.page)
  BY DEF PageInv, n
<1>. QED
  BY <1>5, <1>7, <1>8 DEF n

\* A settled page after the first shows rows.
LEMMA PageShowsRows ==
  ASSUME Suits, Paged, PageInv, ~loading, ~failed
  PROVE  /\ rowsOf = Asked /\ rowsOf # NoRequest
         /\ ~early /\ state.page > 1 =>
              \A desc \in BOOLEAN :
                PageRows(Matching(Asked), state.page, state.size, desc) # {}
<1>1. state \in States /\ Asked \in Requests
  BY DEF PageInv, AddressInv, Suits, Asked
<1>2. rowsOf = Asked
  BY PageSettled DEF PageInv
<1>3. ASSUME ~early, state.page > 1, NEW desc \in BOOLEAN
      PROVE  PageRows(Matching(Asked), state.page, state.size, desc) # {}
  <2>1. (state.page - 1) * state.size < Cardinality(Matching(Asked))
    BY <1>3 DEF PageInv, Filled
  <2>2. /\ state.page \in Nat \ {0} /\ state.size \in Nat \ {0}
        /\ Matching(Asked) \in SUBSET Int /\ IsFiniteSet(Matching(Asked))
    BY <1>1 DEF Paged
  <2>. QED
    BY <2>1, <2>2, PageIsFilled
<1>. QED
  BY <1>1, <1>2, <1>3 DEF Suits

\* What a page shows changes to pending with its address, or from pending to the
\* answer or the failure of the request of that address.
LEMMA PageKeepsPromise ==
  ASSUME Suits, AddressInv, AddressInv', Loads
  PROVE  /\ Asked \in Requests \ {NoRequest} /\ Asked' \in Requests \ {NoRequest}
         /\ \/ UNCHANGED <<Asked, LoadP!Seen>>
            \/ LoadP!Seen' = Pending
            \/ /\ LoadP!Seen = Pending /\ LoadP!Seen' \in LoadP!View!Answers(Asked)
               /\ Asked' = Asked
<1>1. Asked \in Requests \ {NoRequest} /\ Asked' \in Requests \ {NoRequest}
  BY DEF Suits, AddressInv, Asked
<1>2. [LoadP!View!Next]_<<Asked, LoadP!Seen>>
  BY LoadP!PromiseStep DEF Suits, AddressInv, Loads
<1>3. LoadP!View!Cover => LoadP!Seen' = Pending
  BY <1>1 DEF LoadP!View!Cover, LoadP!Seen
<1>. QED
  BY <1>1, <1>2, <1>3 DEF LoadP!View!Next, LoadP!View!Go, LoadP!View!Settle, LoadP!View!AtFirst
=============================================================================
