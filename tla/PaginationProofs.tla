--------------------------- MODULE PaginationProofs ---------------------------
(***************************************************************************)
(* What the arithmetic of pages promises, for every query and every list.  *)
(***************************************************************************)
EXTENDS Pagination, TLAPS

LEMMA Products ==
  ASSUME NEW a \in Int, NEW b \in Int, NEW l \in Nat
  PROVE  /\ a * l \in Int /\ b * l \in Int
         /\ a <= b => a * l <= b * l
         /\ (a - 1) * l = a * l - l
  OBVIOUS

\* Whatever numbers a query holds, parsePagination asks for 1 to 100 documents
\* and never skips a negative number of them, which MongoDB would refuse.
THEOREM QueriesAreTamed ==
  ASSUME NEW page \in Int, NEW limit \in Int
  PROVE  /\ ParsePagination(page, limit).page \in Nat \ {0}
         /\ ParsePagination(page, limit).limit \in 1 .. 100
         /\ ParsePagination(page, limit).skip \in Nat
<1> DEFINE p == AtLeast(1, OrDefault(page, 1))
           l == AtMost(100, AtLeast(1, OrDefault(limit, 10)))
<1>1. p \in Int /\ p >= 1
  BY DEF AtLeast, OrDefault
<1>2. l \in 1 .. 100
  BY DEF AtMost, AtLeast, OrDefault
<1> HIDE DEF p, l
<1>3. (p - 1) * l \in Int /\ (p - 1) * l >= 0 * l
  BY <1>1, <1>2, Products
<1>4. Skip(p, l) \in Nat
  BY <1>2, <1>3 DEF Skip
<1> QED
  BY <1>1, <1>2, <1>4 DEF ParsePagination, p, l

\* No position is on two pages.
THEOREM PagesAreDisjoint ==
  ASSUME NEW limit \in Nat \ {0}, NEW position \in Nat, NEW p \in Nat, NEW q \in Nat,
         OnPage(position, p, limit), OnPage(position, q, limit)
  PROVE  p = q
<1>1. ASSUME NEW a \in Nat, NEW b \in Nat, a < b,
             OnPage(position, a, limit), OnPage(position, b, limit)
      PROVE  FALSE
  <2>1. (b - 1) * limit \in Int /\ a * limit \in Int /\ (a - 1) * limit = a * limit - limit
    BY Products
  <2>2. a * limit <= (b - 1) * limit
    BY <1>1, Products
  <2> QED
    BY <1>1, <2>1, <2>2 DEF OnPage, Skip
<1> QED
  BY <1>1

\* totalPages is where hasNextPage turns false: it is never said of the last
\* page that there is another, nor of a page before it that there is none.
THEOREM NextUpToTheLast ==
  ASSUME NEW total \in Nat, NEW limit \in Nat \ {0}, NEW page \in Nat
  PROVE  BuildPaginationMeta(total, page, limit).hasNextPage <=>
           page < BuildPaginationMeta(total, page, limit).totalPages
<1> DEFINE t == (total + limit - 1) \div limit
<1>1. /\ t \in Int
      /\ t * limit <= total + limit - 1
      /\ total + limit - 1 < t * limit + limit
  OBVIOUS
<1> HIDE DEF t
<1>2. /\ t * limit \in Int /\ page * limit \in Int /\ (t - 1) * limit = t * limit - limit
      /\ (page - 1) * limit = page * limit - limit
  BY <1>1, Products
<1>3. CASE page < t
  <2>1. page * limit <= (t - 1) * limit
    BY <1>1, <1>3, Products
  <2>2. page * limit < total
    BY <1>1, <1>2, <2>1
  <2> QED
    BY <1>3, <2>2 DEF BuildPaginationMeta, t
<1>4. CASE ~(page < t)
  <2>1. t * limit <= page * limit
    BY <1>1, <1>4, Products
  <2>2. ~(page * limit < total)
    BY <1>1, <1>2, <2>1
  <2> QED
    BY <1>4, <2>2 DEF BuildPaginationMeta, t
<1> QED
  BY <1>3, <1>4

=============================================================================
