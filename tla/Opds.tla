-------------------------------- MODULE Opds --------------------------------
(***************************************************************************)
(* A reader that walks through an OPDS listing (internal/opds): it asks    *)
(* for a page and follows the link to the next one until there is none.    *)
(* Every request is admitted by the settings row it reads, the page of an  *)
(* acquisition feed is read in several statements (book.Service.List), the *)
(* links carry the origin the request seems to have come to                *)
(* (internal/proxy), and meanwhile books come, go and get other titles and *)
(* the administrator changes the settings.                                 *)
(***************************************************************************)
EXTENDS Integers, Sequences, FiniteSets, SequencesExt

CONSTANTS
    Book,         \* what a listing lists: books, or authors and tags
    Page, Size,   \* the numbers a client may ask for first
    DefaultSize,  \* the page size when none is asked for, or a wrong one
    MaxSize,      \* the largest page size
    IntMax,       \* the largest int; the smallest is -IntMax - 1
    MaxChanges,   \* changes of the shelf during the walk
    MaxSettings,  \* changes of the settings during the walk
    None          \* no link, no base URL

ASSUME BookAssumption == IsFiniteSet(Book)
ASSUME SizeAssumption == /\ MaxSize \in Nat \ {0} /\ DefaultSize \in 1..MaxSize
                         /\ MaxChanges \in Nat /\ MaxSettings \in Nat
ASSUME IntAssumption  == /\ IntMax \in Nat /\ IntMax >= MaxSize + Cardinality(Book)
                         /\ Page \cup Size \subseteq -IntMax - 1 .. IntMax

VARIABLES
    shelf,    \* the active books in the order of the listing
    setting,  \* the settings row
    asks,     \* the request in hand
    step,     \* where its handler is
    row,      \* the settings row it was admitted by
    total,    \* what Count found
    rows,     \* the rows of the page
    left,     \* those of them it has yet to Get
    status,   \* the status of the last answer
    link,     \* the next link of the last answer
    got,      \* history: the entries the reader has got
    held,     \* history: what has been on the shelf, unmoved, from the start
    added,    \* history: how many entries came or moved
    slipped   \* history: how many went or moved, or came between Count and Find

handler == <<asks, step, row, total, rows, left, status, link>>
history == <<held, added, slipped>>
vars == <<shelf, setting, handler, got, history>>

Mode == {"disabled", "https_only", "http_and_https"}
Scheme == {"http", "https"}
Setting == [mode : Mode, base : Scheme \cup {None}, password : {"old", "new"},
            at : 0..MaxSettings]  \* UpdatedAt

\* Who asks: through a trusted proxy, which says how the client came to it, or
\* directly, which is always plain HTTP, with whatever header.
Peer == [via : {"proxy"}, scheme : Scheme, header : {None}]
        \cup [via : {"direct"}, scheme : {"http"}, header : Scheme \cup {None}]

-----------------------------------------------------------------------------
(* Integers of the machine, and the numbers of a page.                     *)

Wrap(n) == ((n + IntMax + 1) % (2 * IntMax + 2)) - (IntMax + 1)

AtLeast(a, b) == IF a < b THEN b ELSE a
AtMost(a, b) == IF a > b THEN b ELSE a

\* Mutant: no page is too large.
PageSizeUncapped(q) == IF q.size >= 1 THEN q.size ELSE DefaultSize

\* paging, and the same bounds in List.
PageNo(q) == AtLeast(q.page, 1)

PageSize(q) == IF q.size \in 1..MaxSize THEN q.size ELSE DefaultSize

\* Mutant: the offset is the number of the page.
OffsetByPage(q) == Wrap(PageNo(q) - 1)

Offset(q) == Wrap((PageNo(q) - 1) * PageSize(q))

\* Mutant: there is a next page only when it is full.
HasNextFull(q, n) == Wrap((PageNo(q) + 1) * PageSize(q)) <= n

HasNext(q, n) == Wrap(PageNo(q) * PageSize(q)) < n

\* The page of a listing that begins after place from.
PageOf(s, from, n) == SubSeq(s, from + 1, AtMost(from + n, Len(s)))

Overflows(q) == PageNo(q) * PageSize(q) > IntMax

-----------------------------------------------------------------------------
(* The proxy resolver.                                                     *)

Trusted(q) == q.via = "proxy"

\* X-Forwarded-Proto, as the proxy sets it or as a direct peer makes it up.
Forwarded(q) == IF q.via = "proxy" THEN q.scheme ELSE q.header

\* Mutant: the header counts, whoever sends it.
HTTPSForwarded(q) == Forwarded(q) = "https"

\* The server itself listens without TLS.
HTTPS(q) == Trusted(q) /\ Forwarded(q) = "https"

\* Mutant: the scheme of links is that of the connection to the server.
OriginPlain(q, configured) == IF configured # None THEN configured ELSE "http"

\* The scheme of the address links begin with.
Origin(q, configured) ==
    IF configured # None THEN configured
    ELSE IF Trusted(q) /\ Forwarded(q) \in Scheme THEN Forwarded(q)
    ELSE "http"

-----------------------------------------------------------------------------
(* One request.                                                            *)

Go(from, to) == step = from /\ step' = to

Answer(code) ==
    /\ step' = "answered"
    /\ status' = code
    /\ link' = None

\* What BasicAuth decides, in this order.
Verdict(s, q) ==
    IF s.mode = "disabled" THEN 404
    ELSE IF s.mode = "https_only" /\ ~HTTPS(q) THEN 403
    ELSE IF q.password # s.password THEN 401
    ELSE 200

\* BasicAuth reads the settings row, once, and the request goes on with it.
Admit ==
    /\ step = "ask"
    /\ row' = setting
    /\ \/ /\ Verdict(setting, asks) # 200
          /\ Answer(Verdict(setting, asks))
       \/ /\ Verdict(setting, asks) = 200
          /\ step' = asks.feed
          /\ UNCHANGED <<status, link>>
    /\ UNCHANGED <<asks, total, rows, left>>

\* acquisition: List counts ...
Count ==
    /\ Go("acquisition", "find")
    /\ total' = Len(shelf)
    /\ UNCHANGED <<asks, row, rows, left, status, link>>

\* ... then reads the rows of the page; an offset that is not positive is none ...
Find ==
    /\ Go("find", "get")
    /\ LET from == AtLeast(Offset(asks), 0)
       IN  rows' = PageOf(shelf, from, PageSize(asks))
    /\ left' = rows'
    /\ UNCHANGED <<asks, row, total, status, link>>

\* ... and each book of them again, which may be gone by now.
Get ==
    /\ step = "get" /\ left # << >>
    /\ IF Head(left) \in ToSet(shelf)
       THEN /\ left' = Tail(left)
            /\ UNCHANGED <<step, status, link>>
       ELSE /\ Answer(500)
            /\ UNCHANGED left
    /\ UNCHANGED <<asks, row, total, rows>>

Listed ==
    /\ Go("get", "feed")
    /\ left = << >>
    /\ UNCHANGED <<asks, row, total, rows, left, status, link>>

\* Mutant: a page that begins beyond the end is not cut short.
SliceUnclamped ==
    /\ step = "navigation"
    /\ total' = Len(shelf)
    /\ LET from == Offset(asks)
       IN  IF from \notin 0..Len(shelf)
           THEN Answer(500) /\ UNCHANGED rows
           ELSE /\ rows' = PageOf(shelf, from, PageSize(asks))
                /\ step' = "feed"
                /\ UNCHANGED <<status, link>>
    /\ UNCHANGED <<asks, row, left>>

\* navigationRows cuts the page out of one read; a slice that begins below
\* zero is a panic, which the recovery of gin answers.
Slice ==
    /\ step = "navigation"
    /\ total' = Len(shelf)
    /\ LET from == AtMost(Offset(asks), Len(shelf))
       IN  IF from < 0
           THEN Answer(500) /\ UNCHANGED rows
           ELSE /\ rows' = PageOf(shelf, from, PageSize(asks))
                /\ step' = "feed"
                /\ UNCHANGED <<status, link>>
    /\ UNCHANGED <<asks, row, left>>

\* The feed, with a link to the next page when this was not the last.
Feed ==
    /\ step = "feed"
    /\ step' = "answered"
    /\ status' = 200
    /\ got' = got \o rows
    /\ link' = IF HasNext(asks, total)
               THEN [page |-> Wrap(PageNo(asks) + 1), size |-> PageSize(asks),
                     scheme |-> Origin(asks, row.base),
                     via |-> IF row.base # None THEN "proxy" ELSE asks.via,
                     since |-> row.at]
               ELSE None
    /\ UNCHANGED <<asks, row, total, rows, left>>

\* The reader follows the link, by the scheme the link has.
Follow ==
    /\ Go("answered", "ask")
    /\ link # None
    /\ asks' = [asks EXCEPT !.page = link.page, !.size = link.size,
                            !.scheme = link.scheme, !.via = link.via,
                            !.since = link.since]
    /\ UNCHANGED <<row, total, rows, left, status, link>>

-----------------------------------------------------------------------------
(* What others do meanwhile.                                               *)

Between == step = "find"

Arrives(b) ==
    /\ b \notin ToSet(shelf)
    /\ \E i \in 1..Len(shelf) + 1 : shelf' = InsertAt(shelf, i, b)
    /\ added' = added + 1
    /\ slipped' = slipped + (IF Between THEN 1 ELSE 0)
    /\ UNCHANGED held

Leaves(i) ==
    /\ shelf' = RemoveAt(shelf, i)
    /\ held' = held \ {shelf[i]}
    /\ slipped' = slipped + 1
    /\ UNCHANGED added

Moves(i) ==
    /\ \E j \in 1..Len(shelf) : shelf' = InsertAt(RemoveAt(shelf, i), j, shelf[i])
    /\ held' = held \ {shelf[i]}
    /\ added' = added + 1
    /\ slipped' = slipped + 1

Change ==
    /\ added + slipped < MaxChanges
    /\ \/ \E b \in Book : Arrives(b)
       \/ \E i \in 1..Len(shelf) : Leaves(i) \/ Moves(i)
    /\ UNCHANGED <<setting, handler, got>>

\* PUT /system/opds.
Configure ==
    /\ setting.at < MaxSettings
    /\ setting' \in {s \in Setting : s.at = setting.at + 1}
    /\ UNCHANGED <<shelf, handler, got, history>>

-----------------------------------------------------------------------------
Init ==
    /\ shelf \in {s \in SeqOf(Book, Cardinality(Book)) : IsInjective(s)}
    /\ setting \in {s \in Setting : s.at = 0}
    /\ \E p \in Peer, feed \in {"acquisition", "navigation"}, page \in Page, size \in Size :
          asks = [via |-> p.via, scheme |-> p.scheme, header |-> p.header,
                  feed |-> feed, page |-> page, size |-> size,
                  password |-> "old", since |-> -1, first |-> page]
    /\ step = "ask"
    /\ row = setting
    /\ total = 0 /\ rows = << >> /\ left = << >>
    /\ status = 0 /\ link = None
    /\ got = << >> /\ held = ToSet(shelf)
    /\ added = 0 /\ slipped = 0

Handle ==
    \/ Feed
    \/ /\ Admit \/ Count \/ Find \/ Get \/ Listed \/ Slice \/ Follow
       /\ UNCHANGED got

Next ==
    \/ Handle /\ UNCHANGED <<shelf, setting, history>>
    \/ Change
    \/ Configure

Spec == Init /\ [][Next]_vars

-----------------------------------------------------------------------------
\* What a link says of the page it leads to.
Link == [page : -IntMax - 1 .. IntMax, size : 1..MaxSize, scheme : Scheme,
         via : {"proxy", "direct"}, since : 0..MaxSettings]

ASSUME LinkAssumption == None \notin Link

\* Every variable has its type, and a listing names nothing twice.
TypeOK ==
    /\ {shelf, rows, left, got} \subseteq Seq(Book)
    /\ IsInjective(shelf) /\ IsInjective(rows)
    /\ Len(rows) <= MaxSize /\ Len(left) <= MaxSize
    /\ setting \in Setting /\ row \in Setting
    /\ step \in {"ask", "acquisition", "find", "get", "navigation", "feed", "answered"}
    /\ status \in {0, 200, 401, 403, 404, 500}
    /\ total \in 0..Cardinality(Book)
    /\ link \in Link \cup {None}
    /\ held \subseteq ToSet(shelf)
    /\ added \in Nat /\ slipped \in Nat

\* A walk from the first page to the page without a link.
Walked == step = "answered" /\ status = 200 /\ link = None /\ asks.first <= 1

\* A walk misses no more of what was there all the time than entries went or
\* moved meanwhile, or came between Count and Find of one page: nothing is
\* missed because List reads more than once, but that.
MissedAtMost == Walked => Cardinality(held \ ToSet(got)) <= slipped

\* A walk gets no more entries twice than entries came or moved meanwhile.
RepeatedAtMost == asks.first <= 1 => Len(got) - Cardinality(ToSet(got)) <= added

\* A page fails only when a book left the shelf during the walk, or when the
\* client asks for a page whose offset has no int.
FailedForCause == status = 500 => slipped > 0 \/ Overflows(asks)

\* In the mode https_only nothing is listed to a request that did not come by
\* HTTPS to a trusted proxy, whatever header it sends.
ListedBySecure ==
    step \in {"find", "get", "feed"} /\ row.mode = "https_only"
        => asks.via = "proxy" /\ asks.scheme = "https"

\* The server gives no link that it refuses to serve: while the settings stay,
\* a next link leads to no 403, 404 or 401.  A public address without HTTPS is
\* the exception, in the mode https_only.
Followable ==
    (/\ step = "answered" /\ asks.since = setting.at
     /\ ~(setting.mode = "https_only" /\ setting.base = "http"))
        => status \in {200, 500}

-----------------------------------------------------------------------------
(* The inductive invariant of ListedBySecure and Followable.               *)

Ask == [via : {"proxy", "direct"}, scheme : Scheme, header : Scheme \cup {None},
        feed : {"acquisition", "navigation"}, page : Int, size : Int,
        password : {"old", "new"}, since : Int, first : Int]

Admitted == {"acquisition", "find", "get", "navigation", "feed"}

\* A public address without HTTPS, where the server wants HTTPS.
Unreachable(s) == s.mode = "https_only" /\ s.base = "http"

\* What the link of an answer leads to.
Linked == [asks EXCEPT !.page = link.page, !.size = link.size, !.scheme = link.scheme,
                       !.via = link.via, !.since = link.since]

\* A request is admitted by the settings it has read, which no other settings
\* follow under the same number; the link of a page leads to what they admit.
WalkInv ==
    /\ asks \in Ask /\ setting \in Setting /\ row \in Setting
    /\ row.at <= setting.at /\ (row.at = setting.at => row = setting)
    /\ asks.since <= setting.at
    /\ step \in Admitted => Verdict(row, asks) = 200
    /\ step = "answered" /\ link # None =>
          /\ Linked \in Ask /\ link.since = row.at
          /\ Unreachable(row) \/ Verdict(row, Linked) = 200
    /\ step = "ask" /\ asks.since = setting.at =>
          Unreachable(setting) \/ Verdict(setting, asks) = 200
    /\ Followable
-----------------------------------------------------------------------------
(* The inductive invariant of MissedAtMost, RepeatedAtMost, FailedForCause. *)

\* A walk that began at the first page and may still go on.
Walking == asks.first <= 1 /\ (step = "answered" => link # None)

\* How far in the listing the pages read so far reach, and what was on them.
Covered == (IF step \in {"get", "feed", "answered"} THEN PageNo(asks) ELSE PageNo(asks) - 1)
               * PageSize(asks)

Seen == IF step \in {"get", "feed"} THEN got \o rows ELSE got

\* What a listing shows up to place k, and beyond it.
UpTo(s, k)   == {s[i] : i \in {j \in 1..Len(s) : j <= k}}
Beyond(s, k) == {s[i] : i \in {j \in 1..Len(s) : j > k}}

\* A walk from the first page has no page whose offset is not an int, and its
\* links lead on by one page.
Pages ==
    asks.first <= 1 =>
        /\ PageNo(asks) = 1 \/ (PageNo(asks) - 1) * PageSize(asks) < Cardinality(Book)
        /\ link # None /\ step = "answered" =>
              /\ link.page = PageNo(asks) + 1 /\ link.size = PageSize(asks)
              /\ PageNo(asks) * PageSize(asks) < Cardinality(Book)

\* What the pages read so far should have shown and did not; of the last page
\* also what came between Count and Find and pushed others off it.
Missed ==
    /\ Walking => Cardinality((held \cap UpTo(shelf, Covered)) \ ToSet(Seen)) <= slipped
    /\ Walking /\ step = "find" =>
          Cardinality((held \cap UpTo(shelf, Covered)) \ ToSet(Seen)) + Len(shelf) - total <= slipped
    /\ Walking /\ step \in {"get", "feed"} /\ Covered >= total =>
          Cardinality(held \ ToSet(Seen)) <= slipped
    /\ MissedAtMost

\* What the reader has got twice, or is about to: it stands on pages to come.
Repeated ==
    /\ Walking => Len(Seen) - Cardinality(ToSet(Seen))
                     + Cardinality(ToSet(Seen) \cap Beyond(shelf, Covered)) <= added
    /\ RepeatedAtMost

\* Only the last answer has a status, and a book that Get has yet to read is on
\* the shelf unless one left it.
Failed ==
    /\ status = 500 => step = "answered"
    /\ link # None => status = 200
    /\ step = "get" => ToSet(left) \subseteq ToSet(shelf) \/ slipped > 0
    /\ FailedForCause

ReadInv == TypeOK /\ Pages /\ Missed /\ Repeated /\ Failed
=============================================================================
