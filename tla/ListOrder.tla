------------------------------ MODULE ListOrder ------------------------------
(***************************************************************************)
(* The column order of the list pages of frontend-react (lib/sort.ts) and  *)
(* the page buttons under their tables (components/ui/Pagination.tsx).     *)
(***************************************************************************)
EXTENDS Integers, FiniteSets, Sequences

CONSTANT NoValue     \* null or undefined: a row shows nothing in a column

NoOrder == [field |-> "", desc |-> FALSE]
By(field, desc) == [field |-> field, desc |-> desc]     \* parseOrder, toOrder
OrdersOver(fields) == {NoOrder} \cup [field : fields, desc : BOOLEAN]

\* A click on a column header: none, ascending, descending, none.
NextOrder(cur, field) ==
  IF cur.field # field THEN By(field, FALSE)
  ELSE IF ~cur.desc THEN By(field, TRUE)
  ELSE NoOrder

\* The members of S in an order of them, a set of pairs: each where its rank is.
Rank(S, R, x) == Cardinality({y \in S : <<y, x>> \in R})
InOrder(S, R) == [k \in 1..Cardinality(S) |-> CHOOSE x \in S : Rank(S, R, x) = k - 1]

\* The backend's order: by the number that stands for the row.
ByNumber(S, desc) == {x \in S \X S : IF desc THEN x[1] > x[2] ELSE x[1] < x[2]}

\* Sorted by value[row]: rows without a value last whatever the
\* direction, rows with the same value in the order they came in.
ByValue(rows, value, desc) ==
  {x \in (DOMAIN rows) \X (DOMAIN rows) :
     LET a == value[rows[x[1]]]
         b == value[rows[x[2]]]
     IN  IF a = b THEN x[1] < x[2]
         ELSE IF a = NoValue \/ b = NoValue THEN b = NoValue
         ELSE IF desc THEN a > b ELSE a < b}

SortRows(rows, value, desc) ==
  LET idx == InOrder(DOMAIN rows, ByValue(rows, value, desc))
  IN  [i \in DOMAIN rows |-> rows[idx[i]]]

\* The pages an answer of `total` rows fills; at least one.
PageCount(total, size) ==
  IF total = 0 THEN 1 ELSE (total + size - 1) \div size

\* pageList: all of them up to seven, else the ends and the neighbours.
Neighbours(page, count) ==
  IF count <= 7 THEN 1..count
  ELSE {1, count, page - 1, page, page + 1} \cap 1..count

ReachableUnbounded(page, total, size) ==   \* faulty: the arrows are never disabled
  {page - 1, page + 1}

\* Where the pagination bar can lead: a page button, previous or next.
Reachable(page, total, size) ==
  LET count == PageCount(total, size)
  IN  Neighbours(page, count)
      \cup (IF page > 1 THEN {page - 1} ELSE {})
      \cup (IF page < count THEN {page + 1} ELSE {})

\* The rows a page holds of those that match, in the order of the backend.
PageRows(matching, page, size, desc) ==
  {r \in matching : Rank(matching, ByNumber(matching, desc), r) \div size = page - 1}
=============================================================================
