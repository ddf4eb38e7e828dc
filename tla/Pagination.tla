------------------------------ MODULE Pagination ------------------------------
(***************************************************************************)
(* Pages of a list (utils/pagination.util.js, BaseRepository.paginate):    *)
(* which positions a page holds, and what is said about the rest.          *)
(***************************************************************************)
EXTENDS Integers

\* parseInt(text) || default: 0 stands for a text that is absent or no number.
OrDefault(n, default) == IF n = 0 THEN default ELSE n

AtLeast(low, n) == IF n < low THEN low ELSE n

AtMost(high, n) == IF n > high THEN high ELSE n

Skip(page, limit) == (page - 1) * limit

ParsePagination(page, limit) ==
  LET p == AtLeast(1, OrDefault(page, 1))
      l == AtMost(100, AtLeast(1, OrDefault(limit, 10))) IN
  [page |-> p, limit |-> l, skip |-> Skip(p, l)]

\* The first position, counted from 1, is on page 1.
OnPage(position, page, limit) ==
  Skip(page, limit) < position /\ position <= Skip(page, limit) + limit

BuildPaginationMeta(total, page, limit) ==
  [totalPages  |-> (total + limit - 1) \div limit,
   hasNextPage |-> page * limit < total,
   hasPrevPage |-> page > 1]

=============================================================================
