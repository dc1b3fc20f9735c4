-------------------------------- MODULE Paging ---------------------------------
(* How the listings cut an ordered result into pages.  The order is the        *)
(* database's and taken to be the same for every page, although the keys that  *)
(* are sorted by may tie.                                                      *)
EXTENDS Naturals, Sequences, FiniteSets

CONSTANTS DefaultLimit,  \* PAGINATION.DEFAULT_LIMIT
          MaxLimit,      \* PAGINATION.MAX_LIMIT
          Unset          \* a parameter the query leaves out

ASSUME PagingAssumption ==
    DefaultLimit \in 1..MaxLimit /\ MaxLimit \in Nat /\ Unset \notin Nat

Least(m, n) == IF m < n THEN m ELSE n

(* The page size of a query.                                                   *)
LimitOf(asked) == Least(IF asked = Unset THEN DefaultLimit ELSE asked, MaxLimit)

(* Defect: pages are counted from 0.                                           *)
SkipFromZero(page, limit) == page * limit

Skip(page, limit) == (page - 1) * limit

(* find().skip(skip).limit(limit) of the ordered result s.                     *)
PageOf(s, page, limit) ==
    SubSeq(s, Skip(page, limit) + 1, Least(Skip(page, limit) + limit, Len(s)))

(* meta.totalPages: the ceiling of total / limit, so none of an empty result.  *)
TotalPages(total, limit) == (total + limit - 1) \div limit

(* The catalogue of a user counts one page of an empty result.                 *)
AtLeastOne(pages) == IF pages = 0 THEN 1 ELSE pages

(* Every order the database may return a result in.                            *)
OrdersOf(S) ==
    {s \in [1..Cardinality(S) -> S] : \A x \in S : \E i \in DOMAIN s : s[i] = x}

(* Turning the pages that either count announces shows every document once,    *)
(* and no page of several is empty.                                            *)
PagesShowAll(S, asked) ==
    LET limit == LimitOf(asked)
        total == TotalPages(Cardinality(S), limit)
        On(s, p) == {PageOf(s, p, limit)[i] : i \in DOMAIN PageOf(s, p, limit)}
    IN  \A s \in OrdersOf(S), last \in {total, AtLeastOne(total)} :
            /\ UNION {On(s, p) : p \in 1..last} = S
            /\ \A p \in 1..last : On(s, p) = {} => S = {}
            /\ \A p, q \in 1..last : p # q => On(s, p) \cap On(s, q) = {}
===============================================================================
