----------------------------- MODULE PagedSearch -----------------------------
(***************************************************************************)
(* How a search is asked for in pages, by the driver and by the requests   *)
(* that read through it (internal/directory/ldapdriver/ops.go Search; in   *)
(* internal/api the search, the LDIF export, the count, the capture, the   *)
(* member audit and the inventory; internal/config readTree;               *)
(* internal/replication ReadConflicts).                                    *)
(*                                                                         *)
(* Entries are numbered as the directory gives them, a cookie is the       *)
(* number of the last entry given under it, and a directory is             *)
(*   paging   whether it has the paging control                            *)
(*   matches  how many entries match                                       *)
(*   page     the most it puts on a page                                   *)
(*   most     its own size limit, over all pages of a search, or None      *)
(*   eager    whether a full last page has a cookie too                    *)
(* Referrals, which only ever make an answer say that it is short, are     *)
(* left out.                                                               *)
(***************************************************************************)
EXTENDS Integers, Sequences

CONSTANTS
  None,
  MaxPageSize,  \* the largest page the driver asks for
  PageSize      \* the page a search names (body.PageSize)

ASSUME PagedSearchConstants == {MaxPageSize, PageSize} \subseteq Nat \ {0} /\ None \notin Int

\* The directories there are.
DirectoryTypes ==
  [paging : BOOLEAN, matches : Nat, page : Nat, most : Nat \cup {None}, eager : BOOLEAN]

Least(m, n) == IF m < n THEN m ELSE n

\* SearchRequest.Normalise, and what Search keeps while it loops.
Request(limit, size, cookie) ==
  [limit |-> limit, size |-> Least(Least(size, MaxPageSize), limit), cookie |-> cookie, out |-> <<>>]

-----------------------------------------------------------------------------
\* What the directory answers one search request: entries and a cookie, or that there are more
\* than its size limit or the request's allows, in which case the driver is given none of them.

LimitExceeded == None

Run(first, last) == [i \in 1..(last - first + 1) |-> first + i - 1]

NextPage(directory, from, size) ==
  LET last == Least(from + Least(size, directory.page), directory.matches) IN
  IF directory.most # None /\ last > directory.most THEN LimitExceeded
  ELSE [entries |-> Run(from + 1, last),
        cookie  |-> IF \/ last < directory.matches
                       \/ directory.eager /\ last = from + Least(size, directory.page)
                    THEN last ELSE None]

AtOnce(directory, limit) ==
  LET most == IF directory.most = None THEN limit ELSE Least(limit, directory.most) IN
  IF directory.matches > most THEN LimitExceeded
  ELSE [entries |-> Run(1, directory.matches), cookie |-> None]

Asked(directory, call) ==
  LET remaining == call.limit - Len(call.out) IN
  IF directory.paging
  THEN NextPage(directory, IF call.cookie = None THEN 0 ELSE call.cookie, Least(call.size, remaining))
  ELSE AtOnce(directory, remaining)

-----------------------------------------------------------------------------
\* Search, one answer further: it returns, or asks again.

Returned(entries, cookie, truncated) ==
  [entries |-> entries, cookie |-> cookie, truncated |-> truncated \/ cookie # None]

\* Mutated form: a cut-off answer is a whole one.
ReturnsUncut(call, page) ==
  IF page = LimitExceeded THEN [entries |-> call.out, cookie |-> None, truncated |-> FALSE]
  ELSE Returned(call.out \o page.entries, page.cookie, FALSE)

Returns(call, page) ==
  IF page = LimitExceeded THEN Returned(call.out, call.cookie, TRUE)
  ELSE Returned(call.out \o page.entries, page.cookie, FALSE)

Continues(call, page) ==
  page # LimitExceeded /\ page.cookie # None /\ Len(call.out) + Len(page.entries) < call.limit

Continued(call, page) == [call EXCEPT !.out = @ \o page.entries, !.cookie = page.cookie]

-----------------------------------------------------------------------------
\* The requests that read in pages, by what they do with what a search returned.

Kinds == {"search", "export", "count", "capture", "config", "audit", "conflicts", "inventory"}

\* Those that answer while they read.
Streams == {"search", "export"}

\* Mutated form: a search asks for a page, whatever is still owed.
WantPage(kind, limit, n, cookie) ==
  IF kind = "search" THEN Request(PageSize, PageSize, cookie) ELSE Request(limit - n, MaxPageSize, cookie)

\* What is asked for next, with n entries read.  A capture, a configuration and an audit read one
\* more than they may hold, to know; the conflicts are read in pages whatever is still owed.
Want(kind, limit, n, cookie) ==
  CASE kind = "search" -> Request(Least(limit - n, PageSize), PageSize, cookie)
    [] kind = "count"  -> Request(limit - n, MaxPageSize, cookie)
    [] kind \in {"export", "inventory"} -> Request(Least(limit - n, MaxPageSize), MaxPageSize, cookie)
    [] kind \in {"capture", "config", "audit"} -> Request(Least(limit + 1 - n, MaxPageSize), MaxPageSize, cookie)
    [] kind = "conflicts" -> Request(MaxPageSize, MaxPageSize, cookie)

Cut(complete) == IF complete THEN "complete" ELSE "truncated"

\* What a request makes of a result: an answer, or "more".  n entries are read with it, cookie is
\* the one it was asked with, and first whether it is the first.
Verdict(kind, limit, n, first, cookie, res) ==
  LET empty == res.entries = <<>>
      more  == res.cookie # None
  IN
  CASE kind = "search" ->
         IF more /\ n < limit /\ (first \/ ~empty) THEN "more" ELSE Cut(~res.truncated /\ ~more)
    [] kind = "export" ->
         IF empty THEN IF first THEN "absent" ELSE Cut(cookie = None \/ n < limit)
         ELSE IF more /\ n < limit THEN "more" ELSE Cut(~more)
    [] kind = "count" ->
         IF n >= limit THEN "truncated" ELSE IF more THEN "more" ELSE Cut(~res.truncated)
    [] kind \in {"capture", "config"} ->
         IF n > limit \/ (res.truncated /\ ~more) THEN "truncated" ELSE IF more THEN "more" ELSE "complete"
    [] kind = "audit" ->
         IF n > limit \/ (res.truncated /\ ~more) THEN "failed" ELSE IF more THEN "more" ELSE "complete"
    [] kind = "conflicts" ->
         IF n >= limit THEN "truncated" ELSE IF more THEN "more" ELSE Cut(~res.truncated)
    [] kind = "inventory" ->
         IF more /\ ~empty /\ n < limit THEN "more" ELSE Cut(~more)

\* A search that fails.  The configuration and the conflicts keep what was read before.
Failed(kind, n) == IF kind \in {"config", "conflicts"} /\ n > 0 THEN "truncated" ELSE "failed"

\* What of the entries read is given to the caller.
Holds(kind, limit, read) ==
  IF kind \in {"capture", "config", "conflicts"} /\ Len(read) > limit THEN SubSeq(read, 1, limit) ELSE read
=============================================================================
