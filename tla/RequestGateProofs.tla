-------------------------- MODULE RequestGateProofs --------------------------
(***************************************************************************)
(* The gate counts its slots, a page is asked for only under one, and what *)
(* is read page by page is what the directory has, from the first entry    *)
(* on, for any number of requests and slots and any directories.           *)
(***************************************************************************)
EXTENDS RequestGate, FiniteSetTheorems, SequenceTheorems, TLAPS

-----------------------------------------------------------------------------
(* Where a reader is in what the directory has *)

\* The entry a cookie stands for: the last one given under it.
From(cookie) == IF cookie = None THEN 0 ELSE cookie

\* A search in the driver, which keeps what it has read so far in out.
Calls == [limit : Nat, size : Nat, cookie : Nat \cup {None}, out : Seq(Nat)]

\* With n entries read before it, a search goes on where they end, and has not read past its limit.
Asking(d, n, c) ==
  /\ c \in Calls /\ Len(c.out) <= c.limit
  /\ c.out = Run(n + 1, n + Len(c.out)) /\ From(c.cookie) = n + Len(c.out)
  /\ c.cookie # None => d.paging
  /\ n + Len(c.out) <= d.matches

Results == [entries : Seq(Nat), cookie : Nat \cup {None}, truncated : BOOLEAN]

\* With n entries read before it, a result continues them, its cookie is where it ends, and one that
\* does not say it is cut off ends where the directory does.
Came(d, n, res) ==
  LET m == n + Len(res.entries) IN
  /\ res \in Results
  /\ res.entries = Run(n + 1, m) /\ m <= d.matches
  /\ res.cookie # None => res.cookie = m /\ d.paging /\ res.truncated
  /\ ~res.truncated => m = d.matches

\* How far a request may read: one entry further than it may hold, where it reads that one to know.
MayRead(k, l, n) ==
  /\ k \in {"search", "count", "export", "inventory"} => n <= l
  /\ k \in {"capture", "config", "audit"} => n <= l + 1

\* What may be kept of a request that has read: no more than its limit, and all there is if it says so.
Kept(d, k, l, n, a) ==
  /\ k \in Streams \cup {"inventory"} \/ a \in {"complete", "truncated"} => n <= l
  /\ a = "complete" /\ k \notin {"export", "inventory"} => n = d.matches

\* A run of numbers is a sequence of them.
LEMMA RunIs ==
  ASSUME NEW m \in Nat, NEW n \in Nat, m <= n + 1
  PROVE  /\ Run(m, n) \in Seq(Nat) /\ Len(Run(m, n)) = n - m + 1
         /\ \A i \in 1..(n - m + 1) : Run(m, n)[i] = m + i - 1
<1> DEFINE k == n - m + 1
<1>1. k \in Nat /\ \A i \in 1..k : m + i - 1 \in Nat
  OBVIOUS
<1>2. Run(m, n) \in [1..k -> Nat]
  BY <1>1 DEF Run
<1> QED
  BY <1>1, <1>2 DEF Run

\* What joining two sequences of numbers gives.
LEMMA Joined ==
  ASSUME NEW s \in Seq(Nat), NEW t \in Seq(Nat)
  PROVE  /\ s \o t \in Seq(Nat) /\ Len(s \o t) = Len(s) + Len(t)
         /\ \A i \in 1..(Len(s) + Len(t)) : (s \o t)[i] = IF i <= Len(s) THEN s[i] ELSE t[i - Len(s)]
  BY ConcatProperties

\* Two runs, the second from where the first ends, are one.
Joins(a, b, b1, c) == Run(a, b) \o Run(b1, c) = Run(a, c)

LEMMA RunsJoin ==
  ASSUME NEW a \in Nat, NEW b \in Nat, NEW c \in Nat, NEW b1 \in Nat, b1 = b + 1, a <= b1, b <= c
  PROVE  Joins(a, b, b1, c)
<1> DEFINE s == Run(a, b)
           t == Run(b1, c)
           u == Run(a, c)
<1>1. s \in Seq(Nat) /\ Len(s) = b - a + 1 /\ \A i \in 1..(b - a + 1) : s[i] = a + i - 1
  BY RunIs
<1>2. t \in Seq(Nat) /\ Len(t) = c - b1 + 1 /\ \A i \in 1..(c - b1 + 1) : t[i] = b1 + i - 1
  <2>1. b1 <= c + 1
    OBVIOUS
  <2> QED
    BY <2>1, RunIs
<1>3. u \in Seq(Nat) /\ Len(u) = c - a + 1 /\ \A i \in 1..(c - a + 1) : u[i] = a + i - 1
  <2>1. a <= c + 1
    OBVIOUS
  <2> QED
    BY <2>1, RunIs
<1> HIDE DEF s, t, u
<1> DEFINE j == b - a + 1
           k == c - b1 + 1
           l == c - a + 1
<1>0. j \in Nat /\ k \in Nat /\ l \in Nat /\ l = j + k /\ b1 = a + j
  OBVIOUS
<1>6. /\ Len(s) = j /\ \A i \in 1..j : s[i] = a + i - 1
      /\ Len(t) = k /\ \A i \in 1..k : t[i] = b1 + i - 1
      /\ Len(u) = l /\ \A i \in 1..l : u[i] = a + i - 1
  BY <1>1, <1>2, <1>3
<1> HIDE DEF j, k, l
<1>4. /\ s \o t \in Seq(Nat) /\ Len(s \o t) = l
      /\ \A i \in 1..l : (s \o t)[i] = IF i <= j THEN s[i] ELSE t[i - j]
  <2>1. /\ s \o t \in Seq(Nat) /\ Len(s \o t) = Len(s) + Len(t)
        /\ \A i \in 1..(Len(s) + Len(t)) : (s \o t)[i] = IF i <= Len(s) THEN s[i] ELSE t[i - Len(s)]
    BY <1>1, <1>2, Joined
  <2>2. Len(s) = j /\ Len(t) = k /\ j + k = l
    BY <1>0, <1>6
  <2> QED
    BY <2>1, <2>2
<1>5. ASSUME NEW i \in 1..l PROVE (s \o t)[i] = u[i]
  <2>1. CASE i <= j
    <3>1. i \in 1..j /\ (s \o t)[i] = s[i]
      BY <1>0, <1>4, <2>1
    <3> QED
      BY <1>6, <3>1
  <2>2. CASE ~(i <= j)
    <3>1. i - j \in 1..k /\ (s \o t)[i] = t[i - j]
      BY <1>0, <1>4, <2>2
    <3>2. t[i - j] = b1 + (i - j) - 1
      BY <1>6, <3>1
    <3> QED
      BY <1>0, <1>6, <3>1, <3>2
  <2> QED
    BY <2>1, <2>2
<1>7. s \o t = u
  <2>1. s \o t \in Seq(Nat) /\ u \in Seq(Nat) /\ Len(s \o t) = l /\ Len(u) = l
    BY <1>3, <1>4, <1>6
  <2> HIDE DEF u
  <2>2. \A i \in 1..Len(s \o t) : (s \o t)[i] = u[i]
    BY <1>5, <2>1
  <2> QED
    BY <2>1, <2>2, SeqEqual
<1> QED
  BY <1>7 DEF s, t, u, Joins

\* No entry is a run of none.
LEMMA RunEmpty == ASSUME NEW n \in Nat PROVE Run(n + 1, n) = <<>>
<1>1. Run(n + 1, n) \in Seq(Nat) /\ Len(Run(n + 1, n)) = 0
  <2>1. n + 1 \in Nat /\ n + 1 <= n + 1 /\ n - (n + 1) + 1 = 0
    OBVIOUS
  <2> QED
    BY <2>1, RunIs
<1> QED
  BY <1>1

\* A page the directory gives goes on where its cookie says, holds no more than is still owed, and
\* its own cookie is where it ends; without one, everything was given.
LEMMA PageGoesOn ==
  ASSUME NEW d \in DirectoryTypes, NEW n \in Nat, NEW c, Asking(d, n, c), Asked(d, c) # LimitExceeded
  PROVE  \E last \in Nat :
           /\ n + Len(c.out) <= last /\ last <= d.matches /\ last <= n + c.limit
           /\ Asked(d, c).entries = Run(n + Len(c.out) + 1, last)
           /\ Asked(d, c).cookie \in {None, last}
           /\ Asked(d, c).cookie # None => d.paging
           /\ Asked(d, c).cookie = None => last = d.matches
<1> DEFINE from == n + Len(c.out)
           owed == c.limit - Len(c.out)
           size == Least(c.size, owed)
<1>1. /\ c.limit \in Nat /\ c.size \in Nat /\ Len(c.out) \in Nat /\ owed \in Nat /\ from \in Nat
      /\ (IF c.cookie = None THEN 0 ELSE c.cookie) = from /\ from <= d.matches
      /\ c.cookie # None => d.paging
  BY DEF Asking, Calls, From
<1>2. size \in Nat /\ size <= owed
  BY <1>1 DEF Least
<1>3. d.matches \in Nat /\ d.page \in Nat /\ d.paging \in BOOLEAN
  BY DEF DirectoryTypes
<1> HIDE DEF size
<1>4. CASE d.paging
  <2> DEFINE step == Least(size, d.page)
             last == Least(from + step, d.matches)
  <2>1. step \in Nat /\ step <= owed /\ from <= last /\ last \in Nat /\ last <= d.matches /\ last <= from + step
    BY <1>1, <1>2, <1>3 DEF Least
  <2>2. Asked(d, c) = NextPage(d, from, size)
    BY <1>1, <1>4 DEF Asked, size
  <2>3. /\ Asked(d, c).entries = Run(from + 1, last)
        /\ Asked(d, c).cookie = IF last < d.matches \/ (d.eager /\ last = from + step) THEN last ELSE None
    BY <2>2 DEF NextPage
  <2> HIDE DEF step, last
  <2>4. last <= n + c.limit
    BY <1>1, <2>1
  <2>5. None \notin Nat
    BY PagedSearchConstants
  <2>6. Asked(d, c).cookie = None => last = d.matches
    BY <1>3, <2>1, <2>3, <2>5
  <2> QED
    BY <1>4, <2>1, <2>3, <2>4, <2>6
<1>5. CASE ~d.paging
  <2>1. from = 0 /\ Len(c.out) = 0 /\ n = 0
    BY <1>1, <1>5
  <2>2. Asked(d, c) = AtOnce(d, owed)
    BY <1>5 DEF Asked
  <2>3. /\ Asked(d, c).entries = Run(1, d.matches) /\ Asked(d, c).cookie = None
        /\ ~(d.matches > (IF d.most = None THEN owed ELSE Least(owed, d.most)))
    BY <2>2 DEF AtOnce
  <2>4. d.most = None \/ d.most \in Nat
    BY DEF DirectoryTypes
  <2>5. d.matches <= owed
    BY <1>1, <1>3, <2>3, <2>4 DEF Least
  <2>6. owed = c.limit /\ from + 1 = 1 /\ n + c.limit = owed
    BY <1>1, <2>1
  <2>7. from <= d.matches /\ d.matches <= n + c.limit /\ Asked(d, c).entries = Run(from + 1, d.matches)
    BY <1>1, <2>3, <2>5, <2>6
  <2>8. /\ n + Len(c.out) <= d.matches /\ d.matches <= d.matches /\ d.matches <= n + c.limit
        /\ Asked(d, c).entries = Run(n + Len(c.out) + 1, d.matches)
        /\ Asked(d, c).cookie \in {None, d.matches}
        /\ Asked(d, c).cookie # None => d.paging
        /\ Asked(d, c).cookie = None => d.matches = d.matches
    BY <1>3, <2>3, <2>7
  <2> QED
    BY <1>3, <2>8, Zenon
<1> QED
  BY <1>3, <1>4, <1>5

\* A page joined to what the search had keeps it in its place.
Grown(n, c, es, last) ==
  /\ c.out \o es \in Seq(Nat) /\ c.out \o es = Run(n + 1, last)
  /\ Len(c.out \o es) = last - n /\ Len(es) = last - n - Len(c.out)

LEMMA OutGrows ==
  ASSUME NEW n \in Nat, NEW c, NEW d, Asking(d, n, c), NEW last \in Nat, n + Len(c.out) <= last,
         NEW es, es = Run(n + Len(c.out) + 1, last)
  PROVE  Grown(n, c, es, last)
<1> DEFINE k == Len(c.out)
           a == n + 1
           b == n + k
           b1 == n + k + 1
<1>1. k \in Nat /\ c.out = Run(a, b)
  BY DEF Asking, Calls
<1>2. a \in Nat /\ b \in Nat /\ b1 \in Nat /\ b1 = b + 1 /\ a <= b1 /\ b <= last /\ a <= last + 1 /\ b1 <= last + 1
  BY <1>1
<1>3. last - a + 1 = last - n /\ last - b1 + 1 = last - n - k
  BY <1>1
<1>4. es = Run(b1, last)
  OBVIOUS
<1> HIDE DEF k, a, b, b1
<1>5. c.out \o es = Run(a, last)
  <2>1. Joins(a, b, b1, last)
    BY <1>2, RunsJoin
  <2> QED
    BY <1>1, <1>4, <2>1 DEF Joins
<1>6. Run(a, last) \in Seq(Nat) /\ Len(Run(a, last)) = last - n
  BY <1>2, <1>3, RunIs
<1>7. Len(es) = last - n - k
  BY <1>2, <1>3, <1>4, RunIs
<1> QED
  BY <1>5, <1>6, <1>7 DEF k, a, Grown

\* Searches and results, made of their parts.
LEMMA IsCall ==
  ASSUME NEW l \in Nat, NEW s \in Nat, NEW k \in Nat \cup {None}, NEW o \in Seq(Nat)
  PROVE  [limit |-> l, size |-> s, cookie |-> k, out |-> o] \in Calls
  BY DEF Calls

LEMMA IsResult ==
  ASSUME NEW es \in Seq(Nat), NEW k \in Nat \cup {None}, NEW t \in BOOLEAN
  PROVE  [entries |-> es, cookie |-> k, truncated |-> t] \in Results
  BY DEF Results

\* What is kept of a search that asks again.
LEMMA ContinuedIs ==
  ASSUME NEW c \in Calls, NEW got
  PROVE  Continued(c, got) = [limit |-> c.limit, size |-> c.size, cookie |-> got.cookie, out |-> c.out \o got.entries]
<1> DEFINE o == c.out \o got.entries
           k == got.cookie
           e == [c EXCEPT !.out = o]
<1>1. Continued(c, got) = [e EXCEPT !.cookie = k]
  BY DEF Continued
<1> HIDE DEF o, k
<1>2. PICK A, B, C, D : c \in [limit : A, size : B, cookie : C, out : D]
  BY DEF Calls
<1>3. e \in [limit : A, size : B, cookie : C, out : {o}] /\ e.limit = c.limit /\ e.size = c.size
  BY <1>2
<1> HIDE DEF e
<1>4. [e EXCEPT !.cookie = k] = [limit |-> e.limit, size |-> e.size, cookie |-> k, out |-> o]
  BY <1>3
<1> QED
  BY <1>1, <1>3, <1>4 DEF o, k

\* A search that asks again still goes on where it ended.
LEMMA ContinuedAsks ==
  ASSUME NEW d \in DirectoryTypes, NEW n \in Nat, NEW c, Asking(d, n, c), Continues(c, Asked(d, c))
  PROVE  Asking(d, n, Continued(c, Asked(d, c))) /\ Continued(c, Asked(d, c)).limit = c.limit
<1> DEFINE got == Asked(d, c)
           next == Continued(c, got)
<1>1. got # LimitExceeded /\ got.cookie # None /\ Len(c.out) + Len(got.entries) < c.limit
  BY DEF Continues
<1>2. PICK last \in Nat :
        /\ n + Len(c.out) <= last /\ last <= d.matches /\ last <= n + c.limit
        /\ got.entries = Run(n + Len(c.out) + 1, last) /\ got.cookie \in {None, last}
        /\ got.cookie # None => d.paging
  BY <1>1, PageGoesOn
<1> HIDE DEF got
<1>3. /\ c.out \o got.entries \in Seq(Nat) /\ c.out \o got.entries = Run(n + 1, last)
      /\ Len(c.out \o got.entries) = last - n
  <2>1. Grown(n, c, got.entries, last)
    BY <1>2, OutGrows
  <2> QED
    BY <2>1 DEF Grown
<1>4. c \in Calls
  BY DEF Asking
<1>5. next = [limit |-> c.limit, size |-> c.size, cookie |-> got.cookie, out |-> c.out \o got.entries]
  BY <1>4, ContinuedIs
<1>6. next \in Calls
  <2>1. c.limit \in Nat /\ c.size \in Nat /\ got.cookie \in Nat \cup {None} /\ c.out \o got.entries \in Seq(Nat)
    BY <1>2, <1>3, <1>4 DEF Calls
  <2> QED
    BY <1>5, <2>1, IsCall
<1>7. Len(next.out) <= next.limit /\ n + Len(next.out) = last /\ From(next.cookie) = last
  BY <1>1, <1>2, <1>3, <1>4, <1>5 DEF Calls, From
<1> HIDE DEF next
<1>8. Asking(d, n, next)
  BY <1>1, <1>2, <1>3, <1>5, <1>6, <1>7 DEF Asking
<1> QED
  BY <1>5, <1>8 DEF got, next

\* What it returns continues what was read before it.
LEMMA ReturnsCome ==
  ASSUME NEW d \in DirectoryTypes, NEW n \in Nat, NEW c, Asking(d, n, c)
  PROVE  Came(d, n, Returns(c, Asked(d, c))) /\ Len(Returns(c, Asked(d, c)).entries) <= c.limit
<1> DEFINE got == Asked(d, c)
           res == Returns(c, got)
<1>0. c.out \in Seq(Nat) /\ c.limit \in Nat /\ c.cookie \in Nat \cup {None} /\ Len(c.out) \in Nat
  BY DEF Asking, Calls
<1>1. CASE got = LimitExceeded
  <2>1. res = [entries |-> c.out, cookie |-> c.cookie, truncated |-> TRUE]
    BY <1>1 DEF Returns, Returned
  <2> HIDE DEF res
  <2> QED
    BY <1>0, <2>1 DEF Came, Results, Asking, From, res
<1>2. CASE got # LimitExceeded
  <2>1. PICK last \in Nat :
          /\ n + Len(c.out) <= last /\ last <= d.matches /\ last <= n + c.limit
          /\ got.entries = Run(n + Len(c.out) + 1, last) /\ got.cookie \in {None, last}
          /\ got.cookie # None => d.paging
          /\ got.cookie = None => last = d.matches
    BY <1>2, PageGoesOn
  <2>2. res = [entries |-> c.out \o got.entries, cookie |-> got.cookie, truncated |-> got.cookie # None]
    BY <1>2 DEF Returns, Returned
  <2> HIDE DEF got, res
  <2>3. /\ c.out \o got.entries \in Seq(Nat) /\ c.out \o got.entries = Run(n + 1, last)
        /\ Len(c.out \o got.entries) = last - n
    <3>1. Grown(n, c, got.entries, last)
      BY <2>1, OutGrows
    <3> QED
      BY <3>1 DEF Grown
  <2>4. res.entries = c.out \o got.entries /\ res.cookie = got.cookie /\ res.truncated = (got.cookie # None)
    BY <2>2
  <2>5. n + Len(res.entries) = last /\ Len(res.entries) <= c.limit
    <3>1. Len(res.entries) = last - n
      BY <2>3, <2>4
    <3>2. last \in Nat /\ last <= n + c.limit /\ c.limit \in Nat
      BY <1>0, <2>1
    <3> HIDE DEF got
    <3> QED
      BY <3>1, <3>2
  <2>6. got.cookie \in Nat \cup {None} /\ (got.cookie # None) \in BOOLEAN
    BY <2>1
  <2>7. res \in Results
    BY <2>2, <2>3, <2>6, IsResult
  <2>8. res.entries = Run(n + 1, last) /\ last <= d.matches
    BY <2>1, <2>3, <2>4
  <2>9. /\ res.cookie # None => res.cookie = last /\ d.paging /\ res.truncated
        /\ ~res.truncated => last = d.matches
    BY <2>1, <2>4
  <2>10. Came(d, n, res)
    BY <2>5, <2>7, <2>8, <2>9 DEF Came
  <2> QED
    BY <2>5, <2>10 DEF got, res
<1> QED
  BY <1>1, <1>2 DEF got, res

\* A request for as much as may be asked for goes on where n entries end.
LEMMA RequestAsks ==
  ASSUME NEW d \in DirectoryTypes, NEW n \in Nat, NEW k \in Nat \cup {None}, From(k) = n, k # None => d.paging,
         n <= d.matches, NEW l \in Nat, NEW s \in Nat
  PROVE  Asking(d, n, Request(l, s, k)) /\ Request(l, s, k).limit = l
<1> DEFINE size == Least(Least(s, MaxPageSize), l)
           c == Request(l, s, k)
<1>1. size \in Nat
  BY PagedSearchConstants DEF Least
<1> HIDE DEF size
<1>2. c = [limit |-> l, size |-> size, cookie |-> k, out |-> <<>>]
  BY DEF Request, size
<1>3. <<>> \in Seq(Nat) /\ Len(<<>>) = 0 /\ Run(n + 1, n) = <<>>
  BY RunEmpty
<1>4. c \in Calls
  BY <1>1, <1>2, <1>3, IsCall
<1>5. c.limit = l /\ c.out = <<>> /\ c.cookie = k
  BY <1>2
<1> HIDE DEF c
<1>6. Len(c.out) <= c.limit /\ n + Len(c.out) = n
  BY <1>3, <1>5
<1>7. Asking(d, n, c)
  BY <1>3, <1>4, <1>5, <1>6 DEF Asking
<1> QED
  BY <1>5, <1>7 DEF c

\* What is asked for next goes on where n entries end, and brings no more than may be read.
LEMMA WantAsks ==
  ASSUME NEW d \in DirectoryTypes, NEW n \in Nat, NEW cookie \in Nat \cup {None}, From(cookie) = n,
         cookie # None => d.paging, n <= d.matches,
         NEW k \in Kinds, NEW l \in Nat \ {0}, k # "conflicts" => n <= l
  PROVE  Asking(d, n, Want(k, l, n, cookie)) /\ MayRead(k, l, n + Want(k, l, n, cookie).limit)
<1>0. MaxPageSize \in Nat /\ PageSize \in Nat
  BY PagedSearchConstants
<1>1. CASE k = "search"
  <2>1. Least(l - n, PageSize) \in Nat /\ n + Least(l - n, PageSize) <= l
    BY <1>0, <1>1 DEF Least
  <2>2. Want(k, l, n, cookie) = Request(Least(l - n, PageSize), PageSize, cookie)
    BY <1>1 DEF Want
  <2> QED
    BY <1>0, <1>1, <2>1, <2>2, RequestAsks DEF MayRead
<1>2. CASE k = "count"
  <2>1. l - n \in Nat /\ n + (l - n) <= l
    BY <1>2
  <2>2. Want(k, l, n, cookie) = Request(l - n, MaxPageSize, cookie)
    BY <1>2 DEF Want
  <2> QED
    BY <1>0, <1>2, <2>1, <2>2, RequestAsks DEF MayRead
<1>3. CASE k \in {"export", "inventory"}
  <2>1. Least(l - n, MaxPageSize) \in Nat /\ n + Least(l - n, MaxPageSize) <= l
    BY <1>0, <1>3 DEF Least
  <2>2. Want(k, l, n, cookie) = Request(Least(l - n, MaxPageSize), MaxPageSize, cookie)
    BY <1>3 DEF Want
  <2> QED
    BY <1>0, <1>3, <2>1, <2>2, RequestAsks DEF MayRead
<1>4. CASE k \in {"capture", "config", "audit"}
  <2>1. Least(l + 1 - n, MaxPageSize) \in Nat /\ n + Least(l + 1 - n, MaxPageSize) <= l + 1
    BY <1>0, <1>4 DEF Least
  <2>2. Want(k, l, n, cookie) = Request(Least(l + 1 - n, MaxPageSize), MaxPageSize, cookie)
    BY <1>4 DEF Want
  <2> QED
    BY <1>0, <1>4, <2>1, <2>2, RequestAsks DEF MayRead
<1>5. CASE k = "conflicts"
  <2>1. Want(k, l, n, cookie) = Request(MaxPageSize, MaxPageSize, cookie)
    BY <1>5 DEF Want
  <2> QED
    BY <1>0, <1>5, <2>1, RequestAsks DEF MayRead
<1> QED
  BY <1>1, <1>2, <1>3, <1>4, <1>5 DEF Kinds

\* More is read only while there is a cookie and the limit is not reached.
LEMMA MoreWants ==
  ASSUME NEW k \in Kinds, NEW l \in Nat \ {0}, NEW n \in Nat, NEW first, NEW cookie, NEW res,
         Verdict(k, l, n, first, cookie, res) = "more"
  PROVE  res.cookie # None /\ (k # "conflicts" => n <= l)
  BY DEF Verdict, Cut, Kinds

\* An answer that says it is complete was not cut off, of all but an export and an inventory, and
\* where one entry more is read than may be held, it was not found.
LEMMA CompleteIs ==
  ASSUME NEW k \in Kinds, NEW l \in Nat \ {0}, NEW n \in Nat, NEW first, NEW cookie, NEW res,
         res.truncated \in BOOLEAN, Verdict(k, l, n, first, cookie, res) = "complete", k \notin {"export", "inventory"}
  PROVE  ~res.truncated /\ (k \in {"capture", "config", "audit", "conflicts"} => n <= l)
  BY DEF Verdict, Cut, Kinds

\* An answer of a count or an audit is within its limit.
LEMMA AnswerWithin ==
  ASSUME NEW l \in Nat \ {0}, NEW n \in Nat, NEW first, NEW cookie, NEW res,
         Verdict("audit", l, n, first, cookie, res) \in {"complete", "truncated"}
  PROVE  n <= l
  BY DEF Verdict, Cut

\* What is held of the entries that were read is the first of them, and of the three that may have
\* read too many no more than the limit.
LEMMA HoldsIs ==
  ASSUME NEW k, NEW l \in Nat \ {0}, NEW n \in Nat, NEW s, s \in Seq(Nat), s = Run(1, n), Len(s) = n
  PROVE  /\ Holds(k, l, s) \in Seq(Nat) /\ Holds(k, l, s) = Run(1, Len(Holds(k, l, s)))
         /\ k \in {"capture", "config", "conflicts"} => Len(Holds(k, l, s)) <= l
         /\ k \notin {"capture", "config", "conflicts"} \/ n <= l => Len(Holds(k, l, s)) = n
<1>1. CASE k \in {"capture", "config", "conflicts"} /\ n > l
  <2> DEFINE t == SubSeq(s, 1, l)
             u == Run(1, l)
  <2>1. Holds(k, l, s) = t
    BY <1>1 DEF Holds
  <2>2. t \in Seq(Nat) /\ Len(t) = l /\ \A i \in 1..l : t[i] = s[i]
    BY <1>1
  <2>3. \A i \in 1..n : s[i] = i
    <3>1. n - 1 + 1 = n /\ 1 <= n + 1 /\ \A i \in 1..n : 1 + i - 1 = i
      OBVIOUS
    <3> QED
      BY <3>1, RunIs
  <2>4. u \in Seq(Nat) /\ Len(u) = l /\ \A i \in 1..l : u[i] = i
    <3>1. l \in Nat /\ l - 1 + 1 = l /\ 1 <= l + 1 /\ \A i \in 1..l : 1 + i - 1 = i
      OBVIOUS
    <3> QED
      BY <3>1, RunIs
  <2> HIDE DEF t, u
  <2>5. \A i \in 1..l : i \in 1..n
    BY <1>1
  <2>6. Len(t) = Len(u) /\ \A i \in 1..Len(t) : t[i] = u[i]
    BY <2>2, <2>3, <2>4, <2>5
  <2>7. t = u
    BY <2>2, <2>4, <2>6, SeqEqual
  <2>8. Holds(k, l, s) \in Seq(Nat) /\ Len(Holds(k, l, s)) = l /\ Holds(k, l, s) = Run(1, l)
    BY <2>1, <2>2, <2>7 DEF u
  <2> QED
    BY <1>1, <2>8
<1>2. CASE ~(k \in {"capture", "config", "conflicts"} /\ n > l)
  <2>1. Holds(k, l, s) = s
    BY <1>2 DEF Holds
  <2> QED
    BY <1>2, <2>1
<1> QED
  BY <1>1, <1>2

\* What a request has read with a result it was given.
ReadOn(d, s, res, m) ==
  /\ s \o res.entries \in Seq(Nat) /\ s \o res.entries = Run(1, m) /\ Len(s \o res.entries) = m
  /\ m \in Nat /\ m <= d.matches

LEMMA AllRead ==
  ASSUME NEW d \in DirectoryTypes, NEW s \in Seq(Nat), NEW n \in Nat, n = Len(s), s = Run(1, n), NEW res, Came(d, n, res),
         NEW m \in Nat, n <= m, m = n + Len(res.entries)
  PROVE  ReadOn(d, s, res, m)
<1>1. res.entries \in Seq(Nat) /\ Len(res.entries) \in Nat /\ m <= d.matches /\ res.entries = Run(n + 1, m)
  <2>1. res \in Results /\ m <= d.matches /\ res.entries = Run(n + 1, m)
    BY DEF Came
  <2>2. res.entries \in Seq(Nat)
    BY <2>1 DEF Results
  <2> QED
    BY <2>1, <2>2
<1> DEFINE b1 == n + 1
<1>2. m \in Nat /\ n <= m /\ 1 <= b1 /\ b1 \in Nat /\ b1 = n + 1 /\ 1 \in Nat
  OBVIOUS
<1>3. res.entries = Run(b1, m)
  BY <1>1
<1> HIDE DEF b1
<1>4. Joins(1, n, b1, m)
  BY <1>2, RunsJoin
<1>5. s \o res.entries = Run(1, m)
  BY <1>3, <1>4 DEF Joins
<1>6. s \o res.entries \in Seq(Nat) /\ Len(s \o res.entries) = m
  BY <1>1, Joined
<1> QED
  BY <1>1, <1>2, <1>5, <1>6 DEF ReadOn

-----------------------------------------------------------------------------
USE RequestGateConstants, PagedSearchConstants

-----------------------------------------------------------------------------
(* The inductive invariant *)

\* Before it has a slot a request has nothing else.
Outside(r) ==
  /\ phase[r] = "waiting" => gated(r)
  /\ phase[r] \in {"new", "waiting", "refused"} \/ ~gated(r) =>
    /\ held[r] = "none" /\ ~kept[r] /\ writing[r] = "none" /\ call[r] = None /\ page[r] = None
    /\ phase[r] \in {"new", "waiting", "refused"} => answer[r] = None

\* The slot is held until the handler has returned and the writer, if there is one, has ended.
Inside(r) ==
  /\ kept[r] <=> writing[r] # "none"
  /\ gated(r) /\ phase[r] = "handler" /\ writing[r] = "none" => held[r] = "held"
  /\ writing[r] = "open" => held[r] = "held"

\* A request asks, or has a page to take, or has answered; and asks and takes only while it is at it.
Reading(r) ==
  /\ call[r] # None => page[r] = None
  /\ answer[r] # None => call[r] = None /\ page[r] = None
  /\ writing[r] = "ended" => answer[r] # None
  /\ phase[r] = "returned" /\ writing[r] = "none" => call[r] = None /\ page[r] = None

Request1(r) == Outside(r) /\ Inside(r) /\ Reading(r)

IInv == TypeOK /\ SlotsCounted /\ \A r \in Requests : Request1(r)

-----------------------------------------------------------------------------
(* The answers there are *)

\* A request that is gated has one of the kinds, and a limit.
LEMMA GatedKind == ASSUME TypeOK, NEW r \in Requests, gated(r) PROVE kind(r) \in Kinds
  BY DEF TypeOK, gated, kind

\* What is made of a result is an answer, or that more is to be read.
LEMMA VerdictIn ==
  ASSUME NEW k \in Kinds, NEW l, NEW n, NEW first, NEW cookie, NEW res
  PROVE  Verdict(k, l, n, first, cookie, res) \in Answers \cup {"more"}
  BY DEF Verdict, Cut, Kinds, Answers

\* What is made of a failure is an answer.
LEMMA FailedIn == ASSUME NEW k, NEW n PROVE Failed(k, n) \in Answers
  BY DEF Failed, Answers

-----------------------------------------------------------------------------
(* Counting the slots *)

\* One more holder is one more slot.
LEMMA OneMore ==
  ASSUME TypeOK, SlotsCounted, NEW r \in Requests, held[r] # "held", held' = [held EXCEPT ![r] = "held"]
  PROVE  Cardinality(Holders') = slots + 1
<1>1. IsFiniteSet(Holders)
  BY FS_Subset DEF Holders
<1>2. Holders' = Holders \cup {r} /\ r \notin Holders
  BY DEF Holders, TypeOK
<1> QED
  BY <1>1, <1>2, FS_AddElement DEF SlotsCounted

\* One holder less is one slot less.
LEMMA OneLess ==
  ASSUME TypeOK, SlotsCounted, NEW r \in Requests, held[r] = "held", held' = [held EXCEPT ![r] = "released"]
  PROVE  Cardinality(Holders') = slots - 1
<1>1. IsFiniteSet(Holders)
  BY FS_Subset DEF Holders
<1>2. Holders' = Holders \ {r} /\ r \in Holders
  BY DEF Holders, TypeOK
<1> QED
  BY <1>1, <1>2, FS_RemoveElement DEF SlotsCounted

\* A slot handed over is as many slots.
LEMMA HandedOver ==
  ASSUME TypeOK, SlotsCounted, NEW r \in Requests, NEW w \in Requests, held[r] = "held", held[w] # "held",
         held' = [held EXCEPT ![r] = "released", ![w] = "held"]
  PROVE  Cardinality(Holders') = slots
<1>1. IsFiniteSet(Holders) /\ IsFiniteSet(Holders \ {r})
  BY FS_Subset DEF Holders
<1>2. Cardinality(Holders \ {r}) = slots - 1
  BY <1>1, FS_RemoveElement DEF SlotsCounted, Holders
<1>3. Holders' = (Holders \ {r}) \cup {w} /\ w \notin Holders \ {r}
  BY DEF Holders, TypeOK
<1>4. Cardinality(Holders') = slots - 1 + 1
  BY <1>1, <1>2, <1>3, FS_AddElement
<1>5. slots \in Int
  BY DEF TypeOK
<1> QED
  BY <1>4, <1>5

\* A holder that gives its slot back takes a slot that was counted.
LEMMA SomeSlot == ASSUME TypeOK, SlotsCounted, NEW r \in Requests, held[r] = "held" PROVE slots >= 1
<1>1. IsFiniteSet(Holders) /\ r \in Holders
  BY FS_Subset DEF Holders
<1>2. Cardinality(Holders) # 0
  BY <1>1, FS_EmptySet
<1> QED
  BY <1>2 DEF SlotsCounted, TypeOK

-----------------------------------------------------------------------------
(* The initial states *)

\* Initially nobody holds a slot.
LEMMA InitInv == Init => IInv
<1> SUFFICES ASSUME Init PROVE IInv
  OBVIOUS
<1>1. TypeOK
  BY DEF Init, TypeOK
<1>2. SlotsCounted
  <2>1. Holders = {} /\ Waiting = {}
    BY DEF Init, Holders, Waiting
  <2> QED
    BY <2>1, FS_EmptySet DEF Init, SlotsCounted
<1>3. \A r \in Requests : Request1(r)
  BY DEF Init, Request1, Outside, Inside, Reading
<1> QED
  BY <1>1, <1>2, <1>3 DEF IInv

-----------------------------------------------------------------------------
(* The steps that leave the slots alone *)

\* They keep the count.
LEMMA SameSlots == ASSUME SlotsCounted, UNCHANGED <<slots, held>>, Waiting' \subseteq Waiting PROVE SlotsCounted'
  BY DEF SlotsCounted, Holders

\* A request that is refused.
LEMMA RefuseInv == ASSUME IInv, NEW r \in Requests, Refuse(r) PROVE IInv'
<1> USE DEF IInv, Refuse, pages, TypeOK
<1>1. TypeOK'
  OBVIOUS
<1>2. SlotsCounted'
  BY SameSlots DEF Waiting
<1>3. \A x \in Requests : Request1(x)'
  BY DEF Request1, Outside, Inside, Reading, gated, kind
<1> QED
  BY <1>1, <1>2, <1>3

\* An exchange with the directory.
LEMMA AskInv == ASSUME IInv, NEW r \in Requests, Ask(r) PROVE IInv'
<1>0. call[r] # None /\ page[r] = None
  BY DEF IInv, Ask, Request1, Reading
<1>1. TypeOK'
  BY DEF IInv, Ask, TypeOK
<1>2. SlotsCounted'
  BY SameSlots DEF IInv, Ask, Waiting
<1>3. \A x \in Requests : Request1(x)'
  <2> SUFFICES ASSUME NEW x \in Requests PROVE Request1(x)'
    OBVIOUS
  <2>1. DOMAIN call = Requests /\ DOMAIN page = Requests
    BY DEF IInv, TypeOK
  <2>2. UNCHANGED <<phase, held, kept, writing, answer, workload>>
    BY DEF Ask
  <2>3. x # r => call'[x] = call[x] /\ page'[x] = page[x]
    BY <2>1 DEF Ask
  <2>4. call'[r] # None => page'[r] = None
    BY <1>0, <2>1 DEF Ask
  <2>5. Request1(x)
    BY DEF IInv
  <2>6. CASE x # r
    BY <2>2, <2>3, <2>5, <2>6 DEF Request1, Outside, Inside, Reading, gated, kind
  <2>7. CASE x = r
    BY <1>0, <2>2, <2>4, <2>5, <2>7 DEF Request1, Outside, Inside, Reading, gated, kind
  <2> QED
    BY <2>6, <2>7
<1> QED
  BY <1>1, <1>2, <1>3 DEF IInv

\* An exchange that fails is the request's answer.
LEMMA AskFailsInv == ASSUME IInv, NEW r \in Requests, AskFails(r) PROVE IInv'
<1>0. call[r] # None /\ page[r] = None
  BY DEF IInv, AskFails, Request1, Reading
<1>1. TypeOK'
  BY FailedIn DEF IInv, AskFails, TypeOK
<1>2. SlotsCounted'
  BY SameSlots DEF IInv, AskFails, Waiting
<1>3. ASSUME NEW x \in Requests PROVE Request1(x)'
  BY <1>0 DEF IInv, TypeOK, AskFails, Request1, Outside, Inside, Reading, gated, kind
<1> QED
  BY <1>1, <1>2, <1>3 DEF IInv

\* A deadline passes.
LEMMA ExpireInv == ASSUME IInv, NEW r \in Requests, Expire(r) PROVE IInv'
<1> USE DEF IInv, Expire, gate, pages
<1>1. TypeOK'
  BY DEF TypeOK
<1>2. SlotsCounted'
  BY SameSlots DEF Waiting
<1>3. \A x \in Requests : Request1(x)'
  BY DEF Request1, Outside, Inside, Reading, gated, kind
<1> QED
  BY <1>1, <1>2, <1>3

\* A writer begins: the slot is kept for it.
LEMMA StreamInv == ASSUME IInv, NEW r \in Requests, Stream(r) PROVE IInv'
<1>0. gated(r) /\ phase[r] = "handler" /\ writing[r] = "none" /\ page[r] # None
  BY DEF Stream, Streams, gated, Bypass
<1>1. TypeOK'
  BY DEF IInv, Stream, TypeOK, gate, pages
<1>2. SlotsCounted'
  BY SameSlots DEF IInv, Stream, Waiting, gate
<1>3. ASSUME NEW x \in Requests PROVE Request1(x)'
  BY <1>0 DEF IInv, TypeOK, Stream, gate, pages, Request1, Outside, Inside, Reading, gated, kind
<1> QED
  BY <1>1, <1>2, <1>3 DEF IInv

\* A page is taken while the request is at it, and leads to an answer or to the next one.
LEMMA TakeInv == ASSUME IInv, NEW r \in Requests, Take(r) PROVE IInv'
<1> DEFINE all == read[r] \o page[r].res.entries
           verdict == Verdict(kind(r), limit(r), Len(all), page[r].asked = None, page[r].asked, page[r].res)
<1>0. page[r] # None /\ call[r] = None /\ answer[r] = None
  BY DEF IInv, Take, Request1, Reading
<1>1. gated(r) /\ kind(r) \in Kinds /\ phase[r] \notin {"new", "waiting", "refused"}
  BY <1>0, GatedKind DEF IInv, Request1, Outside
<1>2. verdict \in Answers \cup {"more"}
  BY <1>1, VerdictIn
<1>3. /\ page' = [page EXCEPT ![r] = None]
      /\ UNCHANGED <<directory, workload, slots, phase, held, kept, writing, expired>>
      /\ \/ UNCHANGED answer /\ \E next : call' = [call EXCEPT ![r] = next]
         \/ answer' = [answer EXCEPT ![r] = verdict] /\ verdict # "more" /\ UNCHANGED call
      /\ \E all2 : read' = [read EXCEPT ![r] = all2]
  BY DEF Take, gate
<1>4. TypeOK'
  BY <1>2, <1>3 DEF IInv, TypeOK
<1>5. SlotsCounted'
  BY <1>3, SameSlots DEF IInv, Waiting
<1>6. writing[r] # "ended" /\ (phase[r] = "returned" => writing[r] = "open")
  BY <1>0, <1>1 DEF IInv, TypeOK, Request1, Reading
<1>7. ASSUME NEW x \in Requests PROVE Request1(x)'
  BY <1>0, <1>1, <1>2, <1>3, <1>6 DEF IInv, TypeOK, Request1, Outside, Inside, Reading, gated, kind
<1> QED
  BY <1>4, <1>5, <1>7 DEF IInv

\* A search or an export that is given up.
LEMMA GiveUpInv == ASSUME IInv, NEW r \in Requests, GiveUp(r) PROVE IInv'
<1>0. page[r] # None /\ call[r] = None /\ gated(r)
  BY DEF IInv, GiveUp, Request1, Reading, Streams, gated, Bypass
<1>1. TypeOK'
  BY DEF IInv, GiveUp, TypeOK, gate, Answers
<1>2. SlotsCounted'
  BY SameSlots DEF IInv, GiveUp, Waiting, gate
<1>3. ASSUME NEW x \in Requests PROVE Request1(x)'
  BY <1>0 DEF IInv, TypeOK, GiveUp, gate, Request1, Outside, Inside, Reading, gated, kind
<1> QED
  BY <1>1, <1>2, <1>3 DEF IInv

-----------------------------------------------------------------------------
(* The steps that take a slot, or give one back *)

\* A request that arrives takes a free slot, waits for one, or needs none.
LEMMA ArriveInv == ASSUME IInv, NEW r \in Requests, Arrive(r) PROVE IInv'
<1>0. /\ phase[r] = "new" /\ held[r] = "none" /\ ~kept[r] /\ writing[r] = "none"
      /\ call[r] = None /\ page[r] = None /\ answer[r] = None
  BY DEF IInv, Request1, Outside, Arrive
<1>1. UNCHANGED <<directory, workload, kept, writing, page, read, expired, answer>>
  BY DEF Arrive
<1>2. CASE gated(r) /\ slots = Slots
  <2>1. phase' = [phase EXCEPT ![r] = "waiting"] /\ UNCHANGED <<slots, held, call>>
    BY <1>2 DEF Arrive
  <2>2. TypeOK'
    BY <1>1, <2>1 DEF IInv, TypeOK
  <2>3. SlotsCounted'
    BY <1>2, <2>1 DEF IInv, SlotsCounted, Holders
  <2>4. ASSUME NEW x \in Requests PROVE Request1(x)'
    BY <1>0, <1>1, <1>2, <2>1 DEF IInv, TypeOK, Request1, Outside, Inside, Reading, gated, kind
  <2> QED
    BY <2>2, <2>3, <2>4 DEF IInv
<1>3. CASE gated(r) /\ slots # Slots
  <2>1. /\ phase' = [phase EXCEPT ![r] = "handler"] /\ held' = [held EXCEPT ![r] = "held"]
        /\ slots' = slots + 1 /\ call' = [call EXCEPT ![r] = First(r)]
    BY <1>3 DEF Arrive, Enter
  <2>2. TypeOK'
    BY <1>1, <2>1 DEF IInv, TypeOK
  <2>3. Cardinality(Holders') = slots'
    BY <1>0, <2>1, OneMore DEF IInv
  <2>4. Waiting = {} /\ slots < Slots
    <3>1. Waiting = {} /\ slots <= Slots
      BY <1>3 DEF IInv, SlotsCounted
    <3>2. slots \in Nat /\ Slots \in Nat
      BY DEF IInv, TypeOK
    <3> QED
      BY <1>3, <3>1, <3>2
  <2>5. Waiting' = {}
    BY <2>1, <2>4 DEF Waiting, IInv, TypeOK
  <2>6. SlotsCounted'
    <3>1. slots \in Nat /\ Slots \in Nat
      BY DEF IInv, TypeOK
    <3> QED
      BY <3>1, <2>1, <2>3, <2>4, <2>5 DEF SlotsCounted
  <2>7. ASSUME NEW x \in Requests PROVE Request1(x)'
    BY <1>0, <1>1, <1>3, <2>1 DEF IInv, TypeOK, Request1, Outside, Inside, Reading, gated, kind
  <2> QED
    BY <2>2, <2>6, <2>7 DEF IInv
<1>4. CASE ~gated(r)
  <2>1. phase' = [phase EXCEPT ![r] = "handler"] /\ held' = [held EXCEPT ![r] = "none"] /\ slots' = slots
    BY <1>4 DEF Arrive, Enter
  <2>2. call' = [call EXCEPT ![r] = None]
    BY <1>4 DEF Arrive, Enter
  <2>3. TypeOK'
    BY <1>1, <2>1, <2>2 DEF IInv, TypeOK
  <2>4. held' = held
    BY <1>0, <2>1 DEF IInv, TypeOK
  <2>5. Waiting' \subseteq Waiting
    BY <2>1 DEF Waiting, IInv, TypeOK
  <2>6. SlotsCounted'
    BY <2>1, <2>4, <2>5, SameSlots DEF IInv
  <2>7. ASSUME NEW x \in Requests PROVE Request1(x)'
    BY <1>0, <1>1, <1>4, <2>1, <2>2 DEF IInv, TypeOK, Request1, Outside, Inside, Reading, gated, kind
  <2> QED
    BY <2>3, <2>6, <2>7 DEF IInv
<1> QED
  BY <1>2, <1>3, <1>4

\* A release keeps the count, if what is left has nobody wait that did not.
LEMMA ReleaseCounts ==
  ASSUME TypeOK, SlotsCounted, NEW r \in Requests, NEW left \in [Requests -> {"new", "waiting", "handler", "returned", "refused"}],
         \A x \in Requests : left[x] = "waiting" => phase[x] = "waiting",
         \A x \in Requests : phase[x] = "waiting" => held[x] = "none",
         Release(r, left)
  PROVE  SlotsCounted' /\ slots' \in Nat
<1>1. CASE held[r] # "held"
  <2>1. UNCHANGED <<slots, held>> /\ Waiting' \subseteq Waiting
    BY <1>1 DEF Release, Waiting
  <2> QED
    BY <2>1, SameSlots DEF TypeOK
<1>2. CASE held[r] = "held" /\ Waiting = {}
  <2>1. slots' = slots - 1 /\ held' = [held EXCEPT ![r] = "released"] /\ phase' = left
    BY <1>2 DEF Release
  <2>2. Cardinality(Holders') = slots'
    BY <1>2, <2>1, OneLess
  <2>3. slots >= 1
    BY <1>2, SomeSlot
  <2>4. Waiting' = {}
    BY <1>2, <2>1 DEF Waiting
  <2> QED
    BY <2>1, <2>2, <2>3, <2>4 DEF SlotsCounted, TypeOK
<1>3. CASE held[r] = "held" /\ Waiting # {}
  <2>1. PICK w \in Waiting :
          /\ phase' = [left EXCEPT ![w] = "handler"]
          /\ held' = [held EXCEPT ![r] = "released", ![w] = "held"]
          /\ UNCHANGED slots
    BY <1>3 DEF Release
  <2>2. w \in Requests /\ held[w] # "held"
    BY DEF Waiting
  <2>3. Cardinality(Holders') = slots'
    BY <1>3, <2>1, <2>2, HandedOver
  <2> QED
    BY <1>3, <2>1, <2>3 DEF SlotsCounted, TypeOK
<1> QED
  BY <1>1, <1>2, <1>3

\* A release leaves every request that had a slot or none as the gate left it, and one that waited
\* at its first search.
LEMMA ReleaseKeeps ==
  ASSUME IInv, NEW r \in Requests, NEW left \in [Requests -> {"new", "waiting", "handler", "returned", "refused"}],
         left[r] # "waiting", \A x \in Requests \ {r} : left[x] = phase[x], Release(r, left),
         UNCHANGED <<workload, kept, page>>, NEW x \in Requests
  PROVE  \/ /\ phase'[x] = left[x] /\ call'[x] = call[x]
            /\ held'[x] = IF x = r /\ held[r] = "held" THEN "released" ELSE held[x]
         \/ /\ x # r /\ phase[x] = "waiting" /\ phase'[x] = "handler" /\ held'[x] = "held"
            /\ call'[x] = First(x)
<1>1. DOMAIN held = Requests /\ DOMAIN call = Requests
  BY DEF IInv, TypeOK
<1>2. CASE held[r] # "held"
  BY <1>2 DEF Release
<1>3. CASE held[r] = "held" /\ Waiting = {}
  BY <1>1, <1>3 DEF Release
<1>4. CASE held[r] = "held" /\ Waiting # {}
  <2>1. PICK w \in Waiting :
          /\ phase' = [left EXCEPT ![w] = "handler"]
          /\ held' = [held EXCEPT ![r] = "released", ![w] = "held"]
          /\ call' = [call EXCEPT ![w] = First(w)]
    BY <1>4 DEF Release
  <2>2. w \in Requests /\ phase[w] = "waiting" /\ held[w] # "held"
    BY DEF Waiting, IInv, Request1, Outside
  <2>3. w # r
    BY <1>4, <2>2
  <2> QED
    BY <1>1, <1>4, <2>1, <2>2, <2>3
<1> QED
  BY <1>2, <1>3, <1>4

\* It keeps the types.
LEMMA ReleaseTypes ==
  ASSUME TypeOK, NEW r \in Requests, NEW left \in [Requests -> {"new", "waiting", "handler", "returned", "refused"}],
         Release(r, left)
  PROVE  /\ phase' \in [Requests -> {"new", "waiting", "handler", "returned", "refused"}]
         /\ held' \in [Requests -> {"none", "held", "released"}] /\ DOMAIN call' = Requests
  BY DEF TypeOK, Release, Waiting

\* The handler returns: the gate takes its slot back, unless it is kept.
LEMMA HandlerReturnsInv == ASSUME IInv, NEW r \in Requests, HandlerReturns(r) PROVE IInv'
<1> DEFINE left == [phase EXCEPT ![r] = "returned"]
<1>0. phase[r] = "handler" /\ (~gated(r) \/ answer[r] # None \/ writing[r] # "none")
  BY DEF HandlerReturns
<1>1. /\ UNCHANGED <<directory, workload, kept, writing, page, read, expired>>
      /\ answer' = [answer EXCEPT ![r] = IF gated(r) THEN @ ELSE "complete"]
  BY DEF HandlerReturns
<1>2. left \in [Requests -> {"new", "waiting", "handler", "returned", "refused"}]
  BY DEF IInv, TypeOK
<1>3. left[r] = "returned" /\ \A x \in Requests \ {r} : left[x] = phase[x]
  BY DEF IInv, TypeOK
<1>4. \A x \in Requests : phase[x] = "waiting" => held[x] = "none"
  BY DEF IInv, Request1, Outside
<1>5. answer' \in [Requests -> Answers \cup {None}]
  BY <1>1 DEF IInv, TypeOK, Answers
<1>6. CASE kept[r]
  <2>1. phase' = left /\ UNCHANGED <<slots, held, call>>
    BY <1>6 DEF HandlerReturns
  <2>2. TypeOK'
    BY <1>1, <1>2, <1>5, <2>1 DEF IInv, TypeOK
  <2>3. Waiting' \subseteq Waiting
    BY <1>3, <2>1 DEF Waiting
  <2>4. SlotsCounted'
    BY <2>1, <2>3, SameSlots DEF IInv
  <2>5. ASSUME NEW x \in Requests PROVE Request1(x)'
    BY <1>0, <1>1, <1>3, <1>6, <2>1 DEF IInv, TypeOK, Request1, Outside, Inside, Reading, gated, kind
  <2> QED
    BY <2>2, <2>4, <2>5 DEF IInv
<1>7. CASE ~kept[r]
  <2>1. Release(r, left)
    BY <1>7 DEF HandlerReturns
  <2>2. SlotsCounted' /\ slots' \in Nat
    BY <1>2, <1>3, <1>4, <2>1, ReleaseCounts DEF IInv
  <2>3. TypeOK'
    BY <1>1, <1>2, <1>5, <2>1, <2>2, ReleaseTypes DEF IInv, TypeOK
  <2>4. writing[r] = "none"
    BY <1>7 DEF IInv, Request1, Inside
  <2>5. ASSUME NEW x \in Requests PROVE Request1(x)'
    <3>1. \/ /\ phase'[x] = left[x] /\ call'[x] = call[x]
             /\ held'[x] = IF x = r /\ held[r] = "held" THEN "released" ELSE held[x]
          \/ /\ x # r /\ phase[x] = "waiting" /\ phase'[x] = "handler" /\ held'[x] = "held"
             /\ call'[x] = First(x)
      BY <1>1, <1>2, <1>3, <2>1, ReleaseKeeps
    <3>2. x # r => answer'[x] = answer[x]
      BY <1>1 DEF IInv, TypeOK
    <3>3. Request1(x)
      BY DEF IInv
    <3>4. CASE x = r
      BY <1>0, <1>1, <1>3, <2>4, <3>1, <3>3, <3>4 DEF IInv, TypeOK, Request1, Outside, Inside, Reading, gated, kind
    <3>5. CASE x # r
      BY <1>1, <1>3, <3>1, <3>2, <3>3, <3>5 DEF Request1, Outside, Inside, Reading, gated, kind
    <3> QED
      BY <3>4, <3>5
  <2> QED
    BY <2>2, <2>3, <2>5 DEF IInv
<1> QED
  BY <1>6, <1>7

\* The writer ends: what it kept goes back.
LEMMA WriterEndsInv == ASSUME IInv, NEW r \in Requests, WriterEnds(r) PROVE IInv'
<1>0. writing[r] = "open" /\ answer[r] # None /\ phase[r] \notin {"new", "waiting", "refused"} /\ gated(r)
  BY DEF WriterEnds, IInv, Request1, Outside
<1>1. /\ UNCHANGED <<directory, workload, kept, page, read, expired, answer>>
      /\ writing' = [writing EXCEPT ![r] = "ended"] /\ Release(r, phase)
  BY DEF WriterEnds
<1>2. phase \in [Requests -> {"new", "waiting", "handler", "returned", "refused"}]
  BY DEF IInv, TypeOK
<1>3. \A x \in Requests : phase[x] = "waiting" => held[x] = "none"
  BY DEF IInv, Request1, Outside
<1>4. SlotsCounted' /\ slots' \in Nat
  BY <1>1, <1>2, <1>3, ReleaseCounts DEF IInv
<1>5. TypeOK'
  BY <1>1, <1>2, <1>4, ReleaseTypes DEF IInv, TypeOK
<1>6. ASSUME NEW x \in Requests PROVE Request1(x)'
  <2>1. \/ /\ phase'[x] = phase[x] /\ call'[x] = call[x]
           /\ held'[x] = IF x = r /\ held[r] = "held" THEN "released" ELSE held[x]
        \/ /\ x # r /\ phase[x] = "waiting" /\ phase'[x] = "handler" /\ held'[x] = "held"
    BY <1>0, <1>1, <1>2, ReleaseKeeps
  <2>2. writing'[x] = IF x = r THEN "ended" ELSE writing[x]
    BY <1>1 DEF IInv, TypeOK
  <2>3. Request1(x)
    BY DEF IInv
  <2> QED
    BY <1>0, <1>1, <2>1, <2>2, <2>3 DEF Request1, Outside, Inside, Reading, gated, kind
<1> QED
  BY <1>4, <1>5, <1>6 DEF IInv

-----------------------------------------------------------------------------
(* What a request has read *)

\* A request has read the first entries the directory has, what it is asking for and the page it has
\* go on from there, and an answer is what may be made of them.
Placed(r) ==
  LET n == Len(read[r]) IN
  /\ read[r] \in Seq(Nat) /\ read[r] = Run(1, n)
  /\ phase[r] \in {"new", "waiting"} \/ ~gated(r) => read[r] = <<>>
  /\ call[r] # None => Asking(directory, n, call[r]) /\ MayRead(kind(r), limit(r), n + call[r].limit)
  /\ page[r] # None =>
       Came(directory, n, page[r].res) /\ MayRead(kind(r), limit(r), n + Len(page[r].res.entries))
  /\ gated(r) => Kept(directory, kind(r), limit(r), n, answer[r])

\* The invariant of what is read.
RInv == directory \in Directories /\ \A r \in Requests : Placed(r)

\* What the constants say of the directory and of a request.
LEMMA Typed ==
  ASSUME IInv, RInv
  PROVE  /\ directory \in DirectoryTypes
         /\ \A r \in Requests : limit(r) \in Nat \ {0} /\ (gated(r) => kind(r) \in Kinds)
  BY GatedKind DEF IInv, TypeOK, RInv, limit

\* A request of whom nothing changes that is read from, or to, stays in its place.
LEMMA StillPlaced ==
  ASSUME NEW x \in Requests, Placed(x), UNCHANGED <<directory, workload>>,
         read'[x] = read[x], call'[x] = call[x], page'[x] = page[x], answer'[x] = answer[x],
         phase'[x] \in {"new", "waiting"} => phase[x] \in {"new", "waiting"}
  PROVE  Placed(x)'
  BY DEF Placed, gated, kind, limit

\* A request that has its slot begins at the first entry.
LEMMA FirstPlaced ==
  ASSUME IInv, RInv, NEW x \in Requests, phase[x] \in {"new", "waiting"}, gated(x), UNCHANGED <<directory, workload>>,
         read'[x] = read[x], call'[x] = First(x), page'[x] = page[x], answer'[x] = answer[x]
  PROVE  Placed(x)'
<1>1. read[x] = <<>> /\ page[x] = None /\ answer[x] = None
  BY DEF RInv, Placed, IInv, Request1, Outside
<1>2. directory \in DirectoryTypes /\ limit(x) \in Nat \ {0} /\ kind(x) \in Kinds
  BY Typed
<1>3. directory.matches \in Nat
  BY <1>2 DEF DirectoryTypes
<1>4. None = None /\ From(None) = 0 /\ 0 <= directory.matches /\ 0 <= limit(x) /\ 0 \in Nat
  BY <1>2, <1>3 DEF From
<1>5. Asking(directory, 0, First(x)) /\ MayRead(kind(x), limit(x), 0 + First(x).limit)
  BY <1>2, <1>4, WantAsks DEF First
<1>6. Run(0 + 1, 0) = <<>> /\ Len(<<>>) = 0 /\ <<>> \in Seq(Nat)
  BY RunEmpty
<1>7. Run(1, 0) = <<>>
  BY <1>6
<1>8. Kept(directory, kind(x), limit(x), 0, None)
  BY <1>2 DEF Kept, Answers
<1> QED
  BY <1>1, <1>5, <1>6, <1>7, <1>8 DEF Placed, gated, kind, limit

\* Initially nothing is read.
LEMMA InitReads == Init => RInv
<1> SUFFICES ASSUME Init PROVE RInv
  OBVIOUS
<1>1. Run(0 + 1, 0) = <<>> /\ Len(<<>>) = 0 /\ <<>> \in Seq(Nat)
  BY RunEmpty
<1>2. Run(1, 0) = <<>>
  BY <1>1
<1>3. ASSUME NEW r \in Requests PROVE Placed(r)
  <2>1. read[r] = <<>> /\ call[r] = None /\ page[r] = None /\ answer[r] = None /\ limit(r) \in Nat
    BY DEF Init, limit
  <2>2. Kept(directory, kind(r), limit(r), 0, None)
    BY <2>1 DEF Kept, Answers
  <2> QED
    BY <1>1, <1>2, <2>1, <2>2 DEF Placed
<1> QED
  BY <1>3 DEF Init, RInv

\* An exchange: the search goes on, or its result continues what was read.
LEMMA AskReads == ASSUME IInv, RInv, NEW r \in Requests, Ask(r) PROVE RInv'
<1> DEFINE got == Asked(directory, call[r])
           n == Len(read[r])
<1>0. call[r] # None /\ page[r] = None /\ gated(r)
  BY DEF IInv, Ask, Request1, Reading, Outside
<1>1. UNCHANGED <<directory, workload, phase, read, answer>> /\ DOMAIN call = Requests /\ DOMAIN page = Requests
  BY DEF Ask, IInv, TypeOK
<1>2. directory \in DirectoryTypes /\ limit(r) \in Nat \ {0} /\ kind(r) \in Kinds
  BY <1>0, Typed
<1>3. Placed(r)
  BY DEF RInv
<1>4. /\ read[r] \in Seq(Nat) /\ n \in Nat /\ Asking(directory, n, call[r])
      /\ MayRead(kind(r), limit(r), n + call[r].limit) /\ call[r].limit \in Nat
  <2>1. read[r] \in Seq(Nat) /\ Asking(directory, n, call[r]) /\ MayRead(kind(r), limit(r), n + call[r].limit)
    BY <1>0, <1>3 DEF Placed
  <2>2. call[r] \in Calls
    BY <2>1 DEF Asking
  <2>3. call[r].limit \in Nat
    BY <2>2 DEF Calls
  <2> QED
    BY <2>1, <2>3
<1>5. ASSUME NEW x \in Requests PROVE Placed(x)'
  <2>1. CASE x # r
    <3>1. call'[x] = call[x] /\ page'[x] = page[x]
      BY <1>1, <2>1 DEF Ask
    <3>2. Placed(x)
      BY DEF RInv
    <3> QED
      BY <1>1, <3>1, <3>2, StillPlaced
  <2>2. CASE x = r /\ Continues(call[r], got)
    <3>1. call'[r] = Continued(call[r], got) /\ page'[r] = None
      BY <1>0, <1>1, <2>2 DEF Ask
    <3>2. Asking(directory, n, call'[r]) /\ call'[r].limit = call[r].limit
      BY <1>2, <1>4, <2>2, <3>1, ContinuedAsks
    <3> QED
      BY <1>1, <1>3, <1>4, <2>2, <3>1, <3>2 DEF Placed, gated, kind, limit
  <2>3. CASE x = r /\ ~Continues(call[r], got)
    <3> DEFINE res == Returns(call[r], got)
    <3>1. call'[r] = None /\ page'[r] = [res |-> res, asked |-> call[r].cookie]
      BY <1>1, <2>3 DEF Ask
    <3>2. Came(directory, n, res) /\ Len(res.entries) <= call[r].limit
      BY <1>2, <1>4, ReturnsCome
    <3> HIDE DEF res
    <3>3. page'[r].res = res
      BY <3>1
    <3>4. MayRead(kind(r), limit(r), n + Len(res.entries))
      <4>1. res.entries \in Seq(Nat)
        BY <3>2 DEF Came, Results
      <4>2. Len(res.entries) \in Nat
        BY <4>1
      <4>3. n \in Nat /\ call[r].limit \in Nat /\ MayRead(kind(r), limit(r), n + call[r].limit)
        BY <1>4
      <4> DEFINE i == Len(res.entries)
                 j == call[r].limit
                 k == kind(r)
                 l == limit(r)
      <4>4. i \in Nat /\ j \in Nat /\ n \in Nat /\ l \in Nat /\ i <= j
        BY <1>2, <3>2, <4>2, <4>3
      <4>5. MayRead(k, l, n + j)
        BY <4>3
      <4> HIDE DEF i, j, k, l, n
      <4>6. MayRead(k, l, n + i)
        BY <4>4, <4>5 DEF MayRead
      <4> QED
        BY <4>6 DEF i, k, l
    <3> QED
      BY <1>1, <1>3, <2>3, <3>1, <3>2, <3>3, <3>4 DEF Placed, gated, kind, limit
  <2> QED
    BY <2>1, <2>2, <2>3
<1> QED
  BY <1>1, <1>5 DEF RInv

\* An exchange that fails: what may be given of what was read is given, or nothing is said of it.
LEMMA AskFailsReads == ASSUME IInv, RInv, NEW r \in Requests, AskFails(r) PROVE RInv'
<1> DEFINE n == Len(read[r])
           h == Holds(kind(r), limit(r), read[r])
           a == Failed(kind(r), n)
<1>0. call[r] # None /\ page[r] = None /\ gated(r) /\ phase[r] \notin {"new", "waiting"}
  BY DEF IInv, AskFails, Request1, Reading, Outside
<1>1. /\ UNCHANGED <<directory, workload, phase, page>> /\ call' = [call EXCEPT ![r] = None]
      /\ read' = [read EXCEPT ![r] = h] /\ answer' = [answer EXCEPT ![r] = a]
      /\ DOMAIN call = Requests /\ DOMAIN read = Requests /\ DOMAIN answer = Requests
  BY DEF AskFails, IInv, TypeOK
<1>2. directory \in DirectoryTypes /\ limit(r) \in Nat \ {0} /\ kind(r) \in Kinds
  BY <1>0, Typed
<1>3. /\ read[r] \in Seq(Nat) /\ read[r] = Run(1, n) /\ Asking(directory, n, call[r])
      /\ MayRead(kind(r), limit(r), n + call[r].limit)
  BY <1>0 DEF RInv, Placed
<1>4. n \in Nat /\ call[r].limit \in Nat
  BY <1>3 DEF Asking, Calls
<1>5. /\ h \in Seq(Nat) /\ h = Run(1, Len(h)) /\ Len(h) \in Nat
      /\ kind(r) \in {"capture", "config", "conflicts"} => Len(h) <= limit(r)
      /\ kind(r) \notin {"capture", "config", "conflicts"} => Len(h) = n
  <2>1. /\ h \in Seq(Nat) /\ h = Run(1, Len(h))
        /\ kind(r) \in {"capture", "config", "conflicts"} => Len(h) <= limit(r)
        /\ kind(r) \notin {"capture", "config", "conflicts"} => Len(h) = n
    BY <1>2, <1>3, <1>4, HoldsIs
  <2> HIDE DEF h
  <2> QED
    BY <2>1
<1>6. Kept(directory, kind(r), limit(r), Len(h), a)
  <2>1. a # "complete" /\ (a = "truncated" => kind(r) \in {"config", "conflicts"})
    BY DEF Failed
  <2>2. kind(r) \in Streams \cup {"inventory"} => n <= limit(r)
    BY <1>2, <1>3, <1>4 DEF MayRead, Streams
  <2> HIDE DEF h, a, n
  <2> QED
    BY <1>5, <2>1, <2>2 DEF Kept, Streams
<1> HIDE DEF h, a
<1>7. ASSUME NEW x \in Requests PROVE Placed(x)'
  <2>1. CASE x # r
    <3>1. Placed(x) /\ call'[x] = call[x] /\ read'[x] = read[x] /\ answer'[x] = answer[x] /\ page'[x] = page[x]
      BY <1>1, <2>1 DEF RInv
    <3> QED
      BY <1>1, <3>1, StillPlaced
  <2>2. CASE x = r
    <3>1. call'[r] = None /\ page'[r] = None /\ read'[r] = h /\ answer'[r] = a
      BY <1>0, <1>1
    <3> QED
      BY <1>0, <1>1, <1>5, <1>6, <2>2, <3>1 DEF Placed, gated, kind, limit
  <2> QED
    BY <2>1, <2>2
<1> QED
  BY <1>1, <1>7 DEF RInv

\* A page that is taken: what was read with it is held, or more is asked for where it ends.
LEMMA TakeReads == ASSUME IInv, RInv, NEW r \in Requests, Take(r) PROVE RInv'
<1> DEFINE n == Len(read[r])
           res == page[r].res
           all == read[r] \o res.entries
           m == n + Len(res.entries)
           verdict == Verdict(kind(r), limit(r), Len(all), page[r].asked = None, page[r].asked, res)
           h == Holds(kind(r), limit(r), all)
           next == Want(kind(r), limit(r), Len(all), res.cookie)
<1>0. /\ page[r] # None /\ call[r] = None /\ answer[r] = None /\ gated(r)
      /\ phase[r] \notin {"new", "waiting"}
  BY DEF IInv, Take, Request1, Reading, Outside
<1>1. /\ UNCHANGED <<directory, workload, phase>> /\ page' = [page EXCEPT ![r] = None]
      /\ verdict = "more" => /\ read' = [read EXCEPT ![r] = all] /\ UNCHANGED answer
                             /\ call' = [call EXCEPT ![r] = next]
      /\ verdict # "more" => /\ read' = [read EXCEPT ![r] = h] /\ UNCHANGED call
                             /\ answer' = [answer EXCEPT ![r] = verdict]
      /\ DOMAIN call = Requests /\ DOMAIN read = Requests /\ DOMAIN answer = Requests /\ DOMAIN page = Requests
  BY DEF Take, gate, IInv, TypeOK
<1>2. directory \in DirectoryTypes /\ limit(r) \in Nat \ {0} /\ kind(r) \in Kinds
  BY <1>0, Typed
<1>3. read[r] \in Seq(Nat) /\ read[r] = Run(1, n) /\ Came(directory, n, res) /\ MayRead(kind(r), limit(r), m)
  BY <1>0 DEF RInv, Placed
<1>4. n \in Nat /\ m \in Nat /\ n <= m
  <2>1. res.entries \in Seq(Nat)
    BY <1>3 DEF Came, Results
  <2>2. Len(res.entries) \in Nat /\ n \in Nat
    BY <1>3, <2>1
  <2> DEFINE i == Len(res.entries)
  <2>3. i \in Nat /\ n \in Nat
    BY <2>2
  <2> HIDE DEF i, n
  <2>4. n + i \in Nat /\ n <= n + i
    BY <2>3
  <2> QED
    BY <2>3, <2>4 DEF i
<1>5. all \in Seq(Nat) /\ all = Run(1, m) /\ Len(all) = m /\ m \in Nat /\ m <= directory.matches
  <2>1. ReadOn(directory, read[r], res, m)
    BY <1>2, <1>3, <1>4, AllRead
  <2> QED
    BY <2>1 DEF ReadOn
<1>6. /\ res.cookie \in Nat \cup {None} /\ res.truncated \in BOOLEAN
      /\ res.cookie # None => res.cookie = m /\ directory.paging
      /\ ~res.truncated => m = directory.matches
  <2>1. res \in Results
    BY <1>3 DEF Came
  <2> QED
    BY <1>3, <2>1 DEF Came, Results
<1> HIDE DEF n, res, all, m, verdict, h, next
<1>7. CASE verdict = "more"
  <2>1. res.cookie # None /\ (kind(r) # "conflicts" => m <= limit(r))
    BY <1>2, <1>5, <1>7, MoreWants DEF verdict
  <2>2. From(res.cookie) = m
    BY <1>6, <2>1 DEF From
  <2>3. Asking(directory, m, next) /\ MayRead(kind(r), limit(r), m + next.limit)
    <3>1. next = Want(kind(r), limit(r), m, res.cookie)
      BY <1>5 DEF next
    <3> QED
      BY <1>2, <1>5, <1>6, <2>1, <2>2, <3>1, WantAsks
  <2>4. Kept(directory, kind(r), limit(r), m, None)
    BY <2>1 DEF Kept, Answers, Streams
  <2>5. call'[r] = next /\ read'[r] = all /\ page'[r] = None /\ answer'[r] = None
    BY <1>0, <1>1, <1>7
  <2> QED
    <3>1. Placed(r)'
      BY <1>0, <1>1, <1>5, <2>3, <2>4, <2>5 DEF Placed, gated, kind, limit
    <3>2. ASSUME NEW x \in Requests, x # r PROVE Placed(x)'
      <4>1. Placed(x) /\ call'[x] = call[x] /\ read'[x] = read[x] /\ answer'[x] = answer[x] /\ page'[x] = page[x]
        BY <1>1, <1>7, <3>2 DEF RInv
      <4> QED
        BY <1>1, <4>1, StillPlaced
    <3> QED
      BY <1>1, <3>1, <3>2 DEF RInv
<1>8. CASE verdict # "more"
  <2>1. /\ h \in Seq(Nat) /\ h = Run(1, Len(h)) /\ Len(h) \in Nat
        /\ kind(r) \in {"capture", "config", "conflicts"} => Len(h) <= limit(r)
        /\ kind(r) \notin {"capture", "config", "conflicts"} \/ m <= limit(r) => Len(h) = m
    <3>1. /\ h \in Seq(Nat) /\ h = Run(1, Len(h))
          /\ kind(r) \in {"capture", "config", "conflicts"} => Len(h) <= limit(r)
          /\ kind(r) \notin {"capture", "config", "conflicts"} \/ m <= limit(r) => Len(h) = m
      BY <1>2, <1>5, HoldsIs DEF h
    <3> QED
      BY <3>1
  <2>2. Kept(directory, kind(r), limit(r), Len(h), verdict)
    <3>1. kind(r) \in Streams \cup {"inventory", "count"} => Len(h) <= limit(r)
      <4> SUFFICES ASSUME kind(r) \in Streams \cup {"inventory", "count"} PROVE Len(h) <= limit(r)
        OBVIOUS
      <4>1. m <= limit(r) /\ Len(h) = m
        BY <1>3, <2>1 DEF MayRead, Streams, m, n, res
      <4> QED
        BY <4>1
    <3>2. kind(r) = "audit" /\ verdict \in {"complete", "truncated"} => Len(h) <= limit(r)
      <4> SUFFICES ASSUME kind(r) = "audit", verdict \in {"complete", "truncated"} PROVE Len(h) <= limit(r)
        OBVIOUS
      <4>1. m <= limit(r)
        BY <1>2, <1>5, AnswerWithin DEF verdict
      <4> QED
        BY <2>1, <4>1
    <3>3. verdict \in {"complete", "truncated"} => Len(h) <= limit(r)
      BY <1>2, <2>1, <3>1, <3>2 DEF Kinds, Streams
    <3>4. verdict = "complete" /\ kind(r) \notin {"export", "inventory"} => Len(h) = directory.matches
      <4> SUFFICES ASSUME verdict = "complete", kind(r) \notin {"export", "inventory"} PROVE Len(h) = directory.matches
        OBVIOUS
      <4>1. ~res.truncated /\ (kind(r) \in {"capture", "config", "audit", "conflicts"} => m <= limit(r))
        BY <1>2, <1>5, <1>6, CompleteIs DEF verdict
      <4> QED
        BY <1>6, <2>1, <4>1
    <3> QED
      BY <3>1, <3>3, <3>4 DEF Kept
  <2>3. call'[r] = None /\ read'[r] = h /\ page'[r] = None /\ answer'[r] = verdict
    BY <1>0, <1>1, <1>8
  <2> QED
    <3>1. Placed(r)'
      BY <1>0, <1>1, <2>1, <2>2, <2>3 DEF Placed, gated, kind, limit
    <3>2. ASSUME NEW x \in Requests, x # r PROVE Placed(x)'
      <4>1. Placed(x) /\ call'[x] = call[x] /\ read'[x] = read[x] /\ answer'[x] = answer[x] /\ page'[x] = page[x]
        BY <1>1, <1>8, <3>2 DEF RInv
      <4> QED
        BY <1>1, <4>1, StillPlaced
    <3> QED
      BY <1>1, <3>1, <3>2 DEF RInv
<1> QED
  BY <1>7, <1>8

\* A search or an export that is given up says nothing of what it read.
LEMMA GiveUpReads == ASSUME IInv, RInv, NEW r \in Requests, GiveUp(r) PROVE RInv'
<1> DEFINE n == Len(read[r])
<1>0. page[r] # None /\ call[r] = None /\ gated(r) /\ kind(r) \in Streams /\ phase[r] \notin {"new", "waiting"}
  BY DEF IInv, GiveUp, Request1, Reading, Outside, Streams, gated, Bypass
<1>1. /\ UNCHANGED <<directory, workload, phase, call, read>> /\ page' = [page EXCEPT ![r] = None]
      /\ answer' = [answer EXCEPT ![r] = "failed"]
      /\ DOMAIN page = Requests /\ DOMAIN answer = Requests
  BY DEF GiveUp, gate, IInv, TypeOK
<1>2. Placed(r)
  BY DEF RInv
<1>3. Kept(directory, kind(r), limit(r), n, "failed")
  BY <1>0, <1>2 DEF Placed, Kept, Streams
<1>4. ASSUME NEW x \in Requests PROVE Placed(x)'
  <2>1. CASE x # r
    <3>1. Placed(x) /\ answer'[x] = answer[x] /\ page'[x] = page[x]
      BY <1>1, <2>1 DEF RInv
    <3> QED
      BY <1>1, <3>1, StillPlaced
  <2>2. CASE x = r
    <3>1. page'[r] = None /\ answer'[r] = "failed"
      BY <1>1
    <3> QED
      BY <1>0, <1>1, <1>2, <1>3, <2>2, <3>1 DEF Placed, gated, kind, limit
  <2> QED
    BY <2>1, <2>2
<1> QED
  BY <1>1, <1>4 DEF RInv

\* A request that arrives has read nothing, and begins at the first entry if it has its slot.
LEMMA ArriveReads == ASSUME IInv, RInv, NEW r \in Requests, Arrive(r) PROVE RInv'
<1>0. phase[r] = "new" /\ call[r] = None
  BY DEF IInv, Request1, Outside, Arrive
<1>1. UNCHANGED <<directory, workload, page, read, answer>> /\ DOMAIN call = Requests /\ DOMAIN phase = Requests
  BY DEF Arrive, IInv, TypeOK
<1>2. ASSUME NEW x \in Requests PROVE Placed(x)'
  <2>0. Placed(x)
    BY DEF RInv
  <2>1. CASE x # r
    <3>1. call'[x] = call[x] /\ phase'[x] = phase[x]
      BY <1>1, <2>1 DEF Arrive, Enter
    <3> QED
      BY <1>1, <2>0, <3>1, StillPlaced
  <2>2. CASE x = r /\ gated(r) /\ slots # Slots
    <3>1. call'[x] = First(x)
      BY <1>1, <2>2 DEF Arrive, Enter
    <3> QED
      BY <1>0, <1>1, <2>2, <3>1, FirstPlaced
  <2>3. CASE x = r /\ ~(gated(r) /\ slots # Slots)
    <3>1. call'[x] = call[x]
      BY <1>0, <1>1, <2>3 DEF Arrive, Enter
    <3> QED
      BY <1>0, <1>1, <2>0, <2>3, <3>1, StillPlaced
  <2> QED
    BY <2>1, <2>2, <2>3
<1> QED
  BY <1>1, <1>2 DEF RInv

\* A release leaves every request where it is, and has one that waited begin at the first entry.
LEMMA ReleaseReads ==
  ASSUME IInv, RInv, NEW r \in Requests, NEW left \in [Requests -> {"new", "waiting", "handler", "returned", "refused"}],
         left[r] \notin {"new", "waiting"}, \A x \in Requests \ {r} : left[x] = phase[x], Release(r, left),
         UNCHANGED <<directory, workload, kept, page, read>>, NEW x \in Requests, answer'[x] = answer[x]
  PROVE  Placed(x)'
<1>0. Placed(x)
  BY DEF RInv
<1>1. \/ phase'[x] = left[x] /\ call'[x] = call[x]
      \/ x # r /\ phase[x] = "waiting" /\ call'[x] = First(x)
  BY ReleaseKeeps
<1>2. CASE phase'[x] = left[x] /\ call'[x] = call[x]
  BY <1>0, <1>2, StillPlaced
<1>3. CASE x # r /\ phase[x] = "waiting" /\ call'[x] = First(x)
  <2>1. gated(x)
    BY <1>3 DEF IInv, Request1, Outside
  <2> QED
    BY <1>3, <2>1, FirstPlaced
<1> QED
  BY <1>1, <1>2, <1>3

LEMMA HandlerReturnsReads == ASSUME IInv, RInv, NEW r \in Requests, HandlerReturns(r) PROVE RInv'
<1> DEFINE left == [phase EXCEPT ![r] = "returned"]
<1>1. /\ UNCHANGED <<directory, workload, kept, page, read>>
      /\ answer' = [answer EXCEPT ![r] = IF gated(r) THEN @ ELSE "complete"]
      /\ DOMAIN answer = Requests /\ DOMAIN phase = Requests
  BY DEF HandlerReturns, IInv, TypeOK
<1>2. left \in [Requests -> {"new", "waiting", "handler", "returned", "refused"}]
  BY DEF IInv, TypeOK
<1>3. left[r] = "returned" /\ \A x \in Requests \ {r} : left[x] = phase[x]
  BY <1>1
<1>4. \/ phase' = left /\ UNCHANGED call
      \/ Release(r, left)
  BY DEF HandlerReturns
<1> HIDE DEF left
<1>5. ASSUME NEW x \in Requests PROVE Placed(x)'
  <2>0. Placed(x)
    BY DEF RInv
  <2>1. CASE x # r \/ gated(r)
    <3>1. answer'[x] = answer[x]
      BY <1>1, <2>1
    <3>2. CASE phase' = left /\ UNCHANGED call
      <4>1. phase'[x] \in {"new", "waiting"} => phase[x] \in {"new", "waiting"}
        BY <1>3, <3>2
      <4> QED
        BY <1>1, <2>0, <3>1, <3>2, <4>1, StillPlaced
    <3>3. CASE Release(r, left)
      BY <1>1, <1>2, <1>3, <3>1, <3>3, ReleaseReads
    <3> QED
      BY <1>4, <3>2, <3>3
  <2>2. CASE x = r /\ ~gated(r)
    <3>1. call[r] = None /\ page[r] = None /\ held[r] = "none"
      BY <2>2 DEF IInv, Request1, Outside
    <3>2. call' = call
      BY <1>4, <3>1 DEF Release
    <3> QED
      BY <1>1, <2>0, <2>2, <3>1, <3>2 DEF Placed, gated, kind, limit
  <2> QED
    BY <2>1, <2>2
<1> QED
  BY <1>1, <1>5 DEF RInv

LEMMA WriterEndsReads == ASSUME IInv, RInv, NEW r \in Requests, WriterEnds(r) PROVE RInv'
<1>0. phase[r] \notin {"new", "waiting"}
  BY DEF WriterEnds, IInv, Request1, Outside
<1>1. UNCHANGED <<directory, workload, kept, page, read, answer>> /\ Release(r, phase)
  BY DEF WriterEnds
<1>2. phase \in [Requests -> {"new", "waiting", "handler", "returned", "refused"}]
  BY DEF IInv, TypeOK
<1>3. ASSUME NEW x \in Requests PROVE Placed(x)'
  BY <1>0, <1>1, <1>2, ReleaseReads
<1> QED
  BY <1>1, <1>3 DEF RInv

\* The other steps read nothing.
LEMMA OthersRead ==
  ASSUME IInv, RInv, NEW r \in Requests, Refuse(r) \/ Expire(r) \/ Stream(r) PROVE RInv'
<1>1. UNCHANGED <<directory, workload, call, page, read, answer>> /\ DOMAIN phase = Requests
  BY DEF Refuse, Expire, Stream, pages, IInv, TypeOK
<1>2. \A x \in Requests : phase'[x] \in {"new", "waiting"} => phase[x] \in {"new", "waiting"}
  BY <1>1 DEF Refuse, Expire, Stream, gate
<1>3. ASSUME NEW x \in Requests PROVE Placed(x)'
  BY <1>1, <1>2, StillPlaced DEF RInv
<1> QED
  BY <1>1, <1>3 DEF RInv

\* Every step keeps what is read in its place.
LEMMA NextReads == IInv /\ RInv /\ [Next]_vars => RInv'
<1> SUFFICES ASSUME IInv, RInv, [Next]_vars PROVE RInv'
  OBVIOUS
<1>1. CASE UNCHANGED vars
  BY <1>1 DEF vars, gate, pages, RInv, Placed, gated, kind, limit
<1>2. CASE Next
  BY <1>1, <1>2, ArriveReads, AskReads, AskFailsReads, GiveUpReads, TakeReads, HandlerReturnsReads, WriterEndsReads,
     OthersRead DEF Next, Step, Done
<1> QED
  BY <1>1, <1>2

-----------------------------------------------------------------------------
(* Every step, and what follows *)

\* Every step keeps the invariant.
LEMMA NextInv == IInv /\ [Next]_vars => IInv'
<1> SUFFICES ASSUME IInv, [Next]_vars PROVE IInv'
  OBVIOUS
<1>1. CASE UNCHANGED vars
  <2> USE <1>1 DEF vars, gate, pages
  <2>1. TypeOK'
    BY DEF IInv, TypeOK
  <2>2. SlotsCounted'
    BY DEF IInv, SlotsCounted, Holders, Waiting
  <2>3. \A r \in Requests : Request1(r)'
    BY DEF IInv, Request1, Outside, Inside, Reading, gated, kind
  <2> QED
    BY <2>1, <2>2, <2>3 DEF IInv
<1>2. CASE Next
  BY <1>1, <1>2, ArriveInv, RefuseInv, AskInv, AskFailsInv, ExpireInv, GiveUpInv, StreamInv, TakeInv,
     HandlerReturnsInv, WriterEndsInv DEF Next, Step, Done
<1> QED
  BY <1>1, <1>2

\* The invariant holds always.
LEMMA AlwaysInv == Spec => []IInv
  BY InitInv, NextInv, PTL DEF Spec

\* The state of the gate and of its requests has its shape (internal/api/limit.go).
THEOREM TypeCorrect == Spec => []TypeOK
<1>1. IInv => TypeOK
  BY DEF IInv
<1> QED
  BY <1>1, AlwaysInv, PTL

\* The channel's length is the number of requests that hold a slot, never above its capacity, and
\* nobody waits while a slot is free, however handlers, writers and refusals interleave.
THEOREM GateCounts == Spec => []SlotsCounted
<1>1. IInv => SlotsCounted
  BY DEF IInv
<1> QED
  BY <1>1, AlwaysInv, PTL

\* No page is asked for outside a slot, neither in a handler nor in the writer it left behind.
THEOREM PagesUnderSlot == Spec => []AskedUnderSlot
<1>1. IInv => AskedUnderSlot
  <2> SUFFICES ASSUME IInv, NEW r \in Requests, call[r] # None PROVE held[r] = "held"
    BY DEF AskedUnderSlot
  <2>1. Request1(r)
    BY DEF IInv
  <2> QED
    BY <2>1 DEF IInv, TypeOK, Request1, Outside, Inside, Reading
<1> QED
  BY <1>1, AlwaysInv, PTL

\* What is read stays in its place always.
LEMMA AlwaysReads == Spec => []RInv
  BY InitInv, NextInv, InitReads, NextReads, PTL DEF Spec

\* Whatever pages the directory makes of it and whatever its limits, what a request has read is what
\* the directory has, from the first entry on, and no more of it is given than was asked for.
THEOREM ReadsAreGapless == Spec => []Gapless
<1>1. IInv /\ RInv => Gapless
  <2> SUFFICES ASSUME IInv, RInv, NEW r \in Requests
      PROVE  /\ \A i \in DOMAIN read[r] : read[r][i] = i
             /\ kind(r) \in Streams \cup {"inventory"} \/ answer[r] \in {"complete", "truncated"} => Len(read[r]) <= limit(r)
    BY DEF Gapless
  <2> DEFINE n == Len(read[r])
  <2>1. Placed(r) /\ limit(r) \in Nat \ {0}
    BY Typed DEF RInv
  <2>2. read[r] \in Seq(Nat) /\ read[r] = Run(1, n)
    BY <2>1 DEF Placed
  <2>3. n \in Nat /\ DOMAIN read[r] = 1..n
    BY <2>2
  <2>4. \A i \in 1..n : Run(1, n)[i] = i
    <3>1. n - 1 + 1 = n /\ 1 <= n + 1 /\ \A i \in 1..n : 1 + i - 1 = i
      BY <2>3
    <3> QED
      BY <2>3, <3>1, RunIs
  <2>5. CASE gated(r)
    BY <2>1, <2>2, <2>3, <2>4, <2>5 DEF Placed, Kept
  <2>6. CASE ~gated(r)
    <3>1. read[r] = <<>> /\ n = 0
      BY <2>1, <2>6 DEF Placed
    <3> QED
      BY <2>1, <2>2, <2>3, <2>4, <3>1
  <2> QED
    BY <2>5, <2>6
<1> QED
  BY <1>1, AlwaysInv, AlwaysReads, PTL

\* An answer that says it is complete is whole, of all requests but the export and the inventory.
THEOREM ShortAnswersSaySo == Spec => []SaysWhenShort
<1>1. RInv => SaysWhenShort
  BY DEF RInv, Placed, Kept, SaysWhenShort
<1> QED
  BY <1>1, AlwaysReads, PTL
=============================================================================
