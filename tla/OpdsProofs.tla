----------------------------- MODULE OpdsProofs -----------------------------
(***************************************************************************)
(* OPDS listings, for any shelf, any page, any walk and any number of      *)
(* changes: who is served, what a walk misses and repeats, and why a page  *)
(* fails.                                                                  *)
(***************************************************************************)
EXTENDS Opds, SequenceTheorems, FiniteSetTheorems, TLAPS

USE DEF Admitted, Scheme

\* A request says by which scheme it came.
LEMMA Askers == ASSUME NEW p \in Peer
                PROVE  /\ p.via \in {"proxy", "direct"} /\ p.scheme \in Scheme
                       /\ p.header \in Scheme \cup {None}
BY DEF Peer

\* Initially a request is in hand that follows no link.
LEMMA WalkInit == Init => WalkInv
<1> SUFFICES ASSUME Init PROVE WalkInv
  OBVIOUS
<1> USE DEF Init
<1>1. PICK p \in Peer, feed \in {"acquisition", "navigation"}, page \in Page, size \in Size :
          asks = [via |-> p.via, scheme |-> p.scheme, header |-> p.header,
                  feed |-> feed, page |-> page, size |-> size,
                  password |-> "old", since |-> -1, first |-> page]
  OBVIOUS
<1>2. page \in Int /\ size \in Int
  BY IntAssumption
<1>3. asks \in Ask /\ asks.since = -1
  BY <1>1, <1>2, Askers DEF Ask
<1>4. setting \in Setting /\ row = setting /\ setting.at = 0
  OBVIOUS
<1>5. QED BY <1>3, <1>4 DEF WalkInv, Followable

\* The settings a request reads are the last ones.
LEMMA WalkAdmit ==
    ASSUME WalkInv, Admit, UNCHANGED setting
    PROVE  WalkInv'
<1>1. /\ step = "ask" /\ row' = setting /\ UNCHANGED asks
      /\ asks \in Ask /\ setting \in Setting
      /\ setting.at \in Int
  BY SizeAssumption DEF Admit, WalkInv, Setting
<1>2. CASE Verdict(setting, asks) = 200
  <2>1. step' = asks.feed /\ asks.feed \in {"acquisition", "navigation"}
    BY <1>1, <1>2 DEF Admit, Answer, Ask
  <2>2. QED BY <1>1, <1>2, <2>1 DEF WalkInv, Followable
<1>3. CASE Verdict(setting, asks) # 200
  <2>1. step' = "answered" /\ link' = None
    BY <1>1, <1>3 DEF Admit, Answer
  <2>2. asks.since = setting.at => Unreachable(setting)
    BY <1>1, <1>3 DEF WalkInv
  <2>3. Followable'
    BY <1>1, <2>2 DEF Followable, Unreachable
  <2>4. QED BY <1>1, <2>1, <2>3 DEF WalkInv
<1>4. QED BY <1>2, <1>3

\* A step in the middle of a request, and one that fails with 500.
LEMMA WalkReads ==
    ASSUME WalkInv, step \in Admitted, UNCHANGED <<asks, row, setting>>,
           step' \in Admitted \/ (step' = "answered" /\ status' = 500 /\ link' = None)
    PROVE  WalkInv'
BY DEF WalkInv, Followable

\* The link of an admitted request is admitted by the same settings.
LEMMA LinkAdmitted ==
    ASSUME WalkInv, Feed, link' # None
    PROVE  /\ Linked' \in Ask /\ link'.since = row.at
           /\ Unreachable(row) \/ Verdict(row, Linked') = 200
<1> DEFINE via == IF row.base # None THEN "proxy" ELSE asks.via
           q == [asks EXCEPT !.page = link'.page, !.size = link'.size,
                             !.scheme = Origin(asks, row.base), !.via = via,
                             !.since = row.at]
<1>1. /\ link' = [page |-> Wrap(PageNo(asks) + 1), size |-> PageSize(asks),
                  scheme |-> Origin(asks, row.base), via |-> via, since |-> row.at]
      /\ asks' = asks /\ asks \in Ask /\ row \in Setting /\ Verdict(row, asks) = 200
  BY DEF Feed, WalkInv
<1>2. link'.page \in Int /\ link'.size \in Int
  <2>1. asks.page \in Int /\ asks.size \in Int
    BY <1>1 DEF Ask
  <2>2. PageSize(asks) \in Int
    BY <2>1, SizeAssumption DEF PageSize
  <2>3. PageNo(asks) \in Int
    BY <2>1 DEF PageNo, AtLeast
  <2>4. IntMax \in Nat
    BY IntAssumption
  <2>5. Wrap(PageNo(asks) + 1) \in Int
    BY <2>3, <2>4 DEF Wrap
  <2>6. QED BY <1>1, <2>2, <2>5
<1>3. Origin(asks, row.base) \in Scheme /\ via \in {"proxy", "direct"} /\ row.at \in Int
  BY <1>1, SizeAssumption DEF Origin, Setting, Ask
<1>4. Linked' = q
  BY <1>1 DEF Linked
<1>5. q \in Ask
  BY <1>1, <1>2, <1>3 DEF Ask
<1>6. ASSUME row.mode = "https_only" PROVE Unreachable(row) \/ HTTPS(q)
  <2>1. asks.via = "proxy" /\ asks.scheme = "https"
    BY <1>1, <1>6 DEF Verdict, HTTPS, Trusted, Forwarded
  <2>2. q.via = "proxy" /\ q.scheme = Origin(asks, row.base)
    BY <1>1, <2>1 DEF Ask
  <2>3. Origin(asks, row.base) = "https" \/ row.base = "http"
    BY <1>1, <2>1 DEF Origin, Trusted, Forwarded, Setting
  <2>4. QED BY <1>6, <2>2, <2>3 DEF Unreachable, HTTPS, Trusted, Forwarded
<1>7. q.password = asks.password
  BY <1>1 DEF Ask
<1>8. Unreachable(row) \/ Verdict(row, q) = 200
  BY <1>1, <1>6, <1>7 DEF Verdict
<1>9. QED
  BY <1>1, <1>4, <1>5, <1>8

\* The answer carries the link, and the reader follows it.
LEMMA WalkFeed ==
    ASSUME WalkInv, Feed, UNCHANGED setting
    PROVE  WalkInv'
<1>1. /\ step' = "answered" /\ status' = 200 /\ UNCHANGED <<asks, row>>
  BY DEF Feed
<1>2. link' # None =>
         /\ Linked' \in Ask /\ link'.since = row.at
         /\ Unreachable(row) \/ Verdict(row, Linked') = 200
  BY LinkAdmitted
<1>3. QED BY <1>1, <1>2 DEF WalkInv, Followable, Unreachable

LEMMA WalkFollow ==
    ASSUME WalkInv, Follow, UNCHANGED setting
    PROVE  WalkInv'
<1>1. /\ step = "answered" /\ step' = "ask" /\ link # None /\ asks' = Linked
      /\ UNCHANGED row
  BY DEF Follow, Go, Linked
<1>2. asks'.since = row.at
  BY <1>1 DEF WalkInv, Linked, Ask
<1>3. QED BY <1>1, <1>2 DEF WalkInv, Followable, Unreachable

\* New settings have a number that no request in hand has seen.
LEMMA WalkConfigure ==
    ASSUME WalkInv, Configure
    PROVE  WalkInv'
<1>1. /\ setting' \in Setting /\ setting'.at = setting.at + 1
      /\ UNCHANGED <<asks, step, row, status, link>>
  BY DEF Configure, handler
<1>2. setting.at \in Int /\ row.at \in Int /\ asks.since \in Int
  BY SizeAssumption DEF WalkInv, Setting, Ask
<1>3. row.at < setting'.at /\ asks.since < setting'.at
  BY <1>1, <1>2 DEF WalkInv
<1>4. Linked' = Linked
  BY <1>1 DEF Linked
<1>5. QED BY <1>1, <1>2, <1>3, <1>4 DEF WalkInv, Followable

\* Every step keeps the invariant.
LEMMA WalkInductive == WalkInv /\ [Next]_vars => WalkInv'
<1> SUFFICES ASSUME WalkInv, [Next]_vars PROVE WalkInv'
  OBVIOUS
<1>1. CASE Handle /\ UNCHANGED <<shelf, setting, history>>
  <2>1. CASE Feed
    BY <1>1, <2>1, WalkFeed
  <2>2. CASE Admit
    BY <1>1, <2>2, WalkAdmit
  <2>3. CASE Follow
    BY <1>1, <2>3, WalkFollow
  <2>4. CASE Count \/ Find \/ Listed
    BY <1>1, <2>4, WalkReads DEF Count, Find, Listed, Go
  <2>5. CASE Get
    BY <1>1, <2>5, WalkReads DEF Get, Answer
  <2>6. CASE Slice
    BY <1>1, <2>6, WalkReads DEF Slice, Answer
  <2>7. QED BY <1>1, <2>1, <2>2, <2>3, <2>4, <2>5, <2>6 DEF Handle
<1>2. CASE Change
  <2>1. UNCHANGED <<setting, asks, step, row, status, link>>
    BY <1>2 DEF Change, handler
  <2>2. QED BY <2>1 DEF WalkInv, Followable, Linked
<1>3. CASE Configure
  BY <1>3, WalkConfigure
<1>4. CASE UNCHANGED vars
  BY <1>4 DEF vars, handler, WalkInv, Followable, Linked
<1>5. QED BY <1>1, <1>2, <1>3, <1>4 DEF Next

\* The invariant holds throughout every walk.
THEOREM WalkInvariance == Spec => []WalkInv
<1>1. QED BY WalkInit, WalkInductive, PTL DEF Spec

\* In the mode https_only only what came by HTTPS to a trusted proxy is listed,
\* though the mode may change while the pages are read.
THEOREM OnlySecureIsListed == Spec => []ListedBySecure
<1>1. WalkInv => ListedBySecure
  BY DEF WalkInv, ListedBySecure, Verdict, HTTPS, Trusted, Forwarded
<1>2. QED BY <1>1, WalkInvariance, PTL

\* While the settings stay, the server serves the links it has given, but for
\* a public address without HTTPS in the mode https_only.
THEOREM LinksAreServed == Spec => []Followable
<1>1. WalkInv => Followable
  BY DEF WalkInv
<1>2. QED BY <1>1, WalkInvariance, PTL

-----------------------------------------------------------------------------
(* Listings.                                                               *)

\* What InsertAt and RemoveAt make of a sequence.
LEMMA Inserted ==
    ASSUME NEW S, NEW s \in Seq(S), NEW i \in 1..Len(s) + 1, NEW e \in S
    PROVE  LET t == InsertAt(s, i, e)
           IN  /\ t \in Seq(S) /\ Len(t) = Len(s) + 1
               /\ \A k \in 1..Len(t) :
                     t[k] = IF k < i THEN s[k] ELSE IF k = i THEN e ELSE s[k - 1]
<1> DEFINE a == SubSeq(s, 1, i - 1)
           b == SubSeq(s, i, Len(s))
           c == a \o <<e>>
<1>1. Len(s) \in Nat /\ \A k \in 1..Len(s) : s[k] \in S
  BY LenProperties, ElementOfSeq
<1>2. a \in Seq(S) /\ Len(a) = i - 1 /\ \A k \in 1..i - 1 : a[k] = s[k]
  <2>1. \A k \in 1..i - 1 : s[k] \in S
    BY <1>1
  <2>2. 1 \in Int /\ i - 1 \in Int
    OBVIOUS
  <2>3. /\ a \in Seq(S) /\ Len(a) = IF 1 <= i - 1 THEN (i - 1) - 1 + 1 ELSE 0
        /\ \A k \in 1..(i - 1) - 1 + 1 : a[k] = s[1 + k - 1]
    BY <2>1, <2>2, SubSeqProperties
  <2>4. QED BY <2>3, <1>1
<1>3. b \in Seq(S) /\ Len(b) = Len(s) - i + 1 /\ \A k \in 1..Len(b) : b[k] = s[i + k - 1]
  <2>1. \A k \in i..Len(s) : s[k] \in S
    BY <1>1
  <2>2. /\ b \in Seq(S) /\ Len(b) = IF i <= Len(s) THEN Len(s) - i + 1 ELSE 0
        /\ \A k \in 1..Len(s) - i + 1 : b[k] = s[i + k - 1]
    BY <1>1, <2>1, SubSeqProperties
  <2>3. QED BY <2>2, <1>1
<1>4. <<e>> \in Seq(S) /\ Len(<<e>>) = 1 /\ <<e>>[1] = e
  OBVIOUS
<1>5. c \in Seq(S) /\ Len(c) = i /\ \A k \in 1..i : c[k] = IF k < i THEN s[k] ELSE e
  <2>1. /\ c \in Seq(S) /\ Len(c) = Len(a) + 1
        /\ \A k \in 1..Len(a) + 1 : c[k] = IF k <= Len(a) THEN a[k] ELSE <<e>>[k - Len(a)]
    BY <1>2, <1>4, ConcatProperties
  <2>2. QED BY <1>2, <1>4, <2>1
<1> HIDE DEF a, b, c
<1>6. /\ c \o b \in Seq(S) /\ Len(c \o b) = Len(c) + Len(b)
      /\ \A k \in 1..Len(c) + Len(b) : (c \o b)[k] = IF k <= Len(c) THEN c[k] ELSE b[k - Len(c)]
  BY <1>3, <1>5, ConcatProperties
<1>7. InsertAt(s, i, e) = c \o b
  BY DEF InsertAt, a, b, c
<1>8. ASSUME NEW k \in 1..Len(c) + Len(b)
      PROVE  (c \o b)[k] = IF k < i THEN s[k] ELSE IF k = i THEN e ELSE s[k - 1]
  <2>1. CASE k <= i
    BY <1>5, <1>6, <1>3, <1>1, <2>1
  <2>2. CASE k > i
    <3>1. (c \o b)[k] = b[k - i] /\ k - i \in 1..Len(b)
      BY <1>5, <1>6, <1>3, <1>1, <2>2
    <3>2. i + (k - i) - 1 = k - 1
      BY <1>1, <1>3, <1>5
    <3>3. QED BY <1>3, <2>2, <3>1, <3>2
  <2>3. QED BY <2>1, <2>2, <1>1, <1>3, <1>5
<1>9. QED BY <1>1, <1>3, <1>5, <1>6, <1>7, <1>8

LEMMA Removed ==
    ASSUME NEW S, NEW s \in Seq(S), NEW i \in 1..Len(s)
    PROVE  LET t == RemoveAt(s, i)
           IN  /\ t \in Seq(S) /\ Len(t) = Len(s) - 1
               /\ \A k \in 1..Len(t) : t[k] = IF k < i THEN s[k] ELSE s[k + 1]
<1> DEFINE a == SubSeq(s, 1, i - 1)
           b == SubSeq(s, i + 1, Len(s))
<1>1. Len(s) \in Nat /\ \A k \in 1..Len(s) : s[k] \in S
  BY LenProperties, ElementOfSeq
<1>2. a \in Seq(S) /\ Len(a) = i - 1 /\ \A k \in 1..i - 1 : a[k] = s[k]
  <2>1. \A k \in 1..i - 1 : s[k] \in S
    BY <1>1
  <2>2. 1 \in Int /\ i - 1 \in Int
    OBVIOUS
  <2>3. /\ a \in Seq(S) /\ Len(a) = IF 1 <= i - 1 THEN (i - 1) - 1 + 1 ELSE 0
        /\ \A k \in 1..(i - 1) - 1 + 1 : a[k] = s[1 + k - 1]
    BY <2>1, <2>2, SubSeqProperties
  <2>4. QED BY <2>3, <1>1
<1>3. b \in Seq(S) /\ Len(b) = Len(s) - i /\ \A k \in 1..Len(b) : b[k] = s[i + k]
  <2>1. \A k \in i + 1..Len(s) : s[k] \in S
    BY <1>1
  <2>2. /\ b \in Seq(S) /\ Len(b) = IF i + 1 <= Len(s) THEN Len(s) - (i + 1) + 1 ELSE 0
        /\ \A k \in 1..Len(s) - (i + 1) + 1 : b[k] = s[(i + 1) + k - 1]
    BY <1>1, <2>1, SubSeqProperties
  <2>3. Len(b) = Len(s) - i
    BY <2>2, <1>1
  <2>4. ASSUME NEW k \in 1..Len(b) PROVE b[k] = s[i + k]
    <3>1. k \in 1..Len(s) - (i + 1) + 1 /\ (i + 1) + k - 1 = i + k
      BY <2>3, <1>1
    <3>2. b[k] = s[(i + 1) + k - 1]
      BY <3>1, <2>2
    <3>3. QED BY <3>1, <3>2
  <2>5. QED BY <2>2, <2>3, <2>4
<1> HIDE DEF a, b
<1>4. /\ a \o b \in Seq(S) /\ Len(a \o b) = Len(a) + Len(b)
      /\ \A k \in 1..Len(a) + Len(b) : (a \o b)[k] = IF k <= Len(a) THEN a[k] ELSE b[k - Len(a)]
  BY <1>2, <1>3, ConcatProperties
<1>5. RemoveAt(s, i) = a \o b
  BY DEF RemoveAt, a, b
<1>6. ASSUME NEW k \in 1..Len(a) + Len(b)
      PROVE  (a \o b)[k] = IF k < i THEN s[k] ELSE s[k + 1]
  <2>1. CASE k < i
    BY <1>2, <1>3, <1>4, <1>1, <2>1
  <2>2. CASE k >= i
    <3>1. (a \o b)[k] = b[k - (i - 1)] /\ k - (i - 1) \in 1..Len(b)
      BY <1>2, <1>3, <1>4, <1>1, <2>2
    <3>2. i + (k - (i - 1)) = k + 1
      BY <1>1, <1>2, <1>3
    <3>3. QED BY <1>3, <2>2, <3>1, <3>2
  <2>3. QED BY <2>1, <2>2, <1>1, <1>2, <1>3
<1>7. Len(a) + Len(b) = Len(s) - 1
  BY <1>1, <1>2, <1>3
<1>8. QED BY <1>4, <1>5, <1>6, <1>7

\* What a listing shows, by place.
LEMMA Places ==
    ASSUME NEW s \in Seq(Book)
    PROVE  /\ Len(s) \in Nat /\ DOMAIN s = 1..Len(s)
           /\ \A x : x \in ToSet(s) <=> \E i \in 1..Len(s) : s[i] = x
           /\ \A k \in Int : \A x : x \in UpTo(s, k) <=> \E i \in 1..Len(s) : i <= k /\ s[i] = x
           /\ \A k \in Int : \A x : x \in Beyond(s, k) <=> \E i \in 1..Len(s) : i > k /\ s[i] = x
<1>1. Len(s) \in Nat /\ DOMAIN s = 1..Len(s)
  BY LenProperties
<1>2. \A x : x \in ToSet(s) <=> \E i \in 1..Len(s) : s[i] = x
  BY <1>1 DEF ToSet
<1>3. \A k \in Int : \A x : x \in UpTo(s, k) <=> \E i \in 1..Len(s) : i <= k /\ s[i] = x
  BY DEF UpTo
<1>4. \A k \in Int : \A x : x \in Beyond(s, k) <=> \E i \in 1..Len(s) : i > k /\ s[i] = x
  BY DEF Beyond
<1>5. QED BY <1>1, <1>2, <1>3, <1>4

\* A book that comes pushes one across any place, and one that goes lets one in.
LEMMA InsertShifts ==
    ASSUME NEW s \in Seq(Book), IsInjective(s), NEW i \in Nat, i >= 1, i <= Len(s) + 1,
           NEW e \in Book, e \notin ToSet(s), NEW t, t = InsertAt(s, i, e)
    PROVE  /\ t \in Seq(Book) /\ IsInjective(t) /\ Len(t) = Len(s) + 1
           /\ ToSet(t) = ToSet(s) \cup {e}
           /\ \A k \in Nat : UpTo(t, k) \subseteq UpTo(s, k) \cup {e}
           /\ \A k \in Nat : Beyond(t, k) \subseteq Beyond(s, k) \cup {IF i > k THEN e ELSE s[k]}
<1>1. /\ t \in Seq(Book) /\ Len(t) = Len(s) + 1
      /\ \A k \in 1..Len(t) : t[k] = IF k < i THEN s[k] ELSE IF k = i THEN e ELSE s[k - 1]
  <2>1. i \in 1..Len(s) + 1
    BY LenProperties
  <2>2. QED BY <2>1, Inserted
<1>2. Len(s) \in Nat
  BY LenProperties
<1>3. \A j \in 1..Len(s) : s[j] = IF j < i THEN t[j] ELSE t[j + 1]
  BY <1>1, <1>2
<1>4. \A j \in 1..Len(s) : s[j] # e
  BY Places
<1>5. IsInjective(t)
  <2> SUFFICES ASSUME NEW a \in 1..Len(t), NEW b \in 1..Len(t), t[a] = t[b] PROVE a = b
    BY <1>1, Places DEF IsInjective
  <2>1. \A x, y \in 1..Len(s) : s[x] = s[y] => x = y
    BY Places DEF IsInjective
  <2>2. DEFINE f(x) == IF x < i THEN x ELSE x - 1
  <2>3. ASSUME NEW x \in 1..Len(t), x # i
        PROVE  f(x) \in 1..Len(s) /\ t[x] = s[f(x)]
    <3>1. CASE x < i
      BY <1>1, <1>2, <3>1
    <3>2. CASE x > i
      BY <1>1, <1>2, <3>2
    <3>3. QED BY <3>1, <3>2, <2>3, <1>1, <1>2
  <2>4. i \in 1..Len(t) /\ t[i] = e
    BY <1>1, <1>2
  <2>5. /\ a # i => f(a) \in 1..Len(s) /\ t[a] = s[f(a)]
        /\ b # i => f(b) \in 1..Len(s) /\ t[b] = s[f(b)]
        /\ (a = i => t[a] = e) /\ (b = i => t[b] = e)
    BY <2>3, <2>4
  <2>6. CASE a = i \/ b = i
    BY <1>4, <2>5, <2>6
  <2>7. CASE a # i /\ b # i
    <3>1. f(a) = f(b)
      BY <2>1, <2>5, <2>7
    <3>2. QED BY <2>7, <3>1, <1>1, <1>2
  <2>8. QED BY <2>6, <2>7
<1>6. ToSet(t) = ToSet(s) \cup {e}
  <2>1. ASSUME NEW x \in ToSet(t) PROVE x \in ToSet(s) \cup {e}
    <3>1. PICK j \in 1..Len(t) : t[j] = x
      BY <1>1, Places
    <3>2. j < i => j \in 1..Len(s)
      BY <1>1, <1>2
    <3>3. j > i => j - 1 \in 1..Len(s)
      BY <1>1, <1>2
    <3>4. j = i => x = e
      BY <1>1, <3>1
    <3>5. j # i => \E n \in 1..Len(s) : s[n] = x
      BY <1>1, <1>2, <3>1, <3>2, <3>3
    <3>6. QED BY <3>4, <3>5, Places
  <2>2. ASSUME NEW x \in ToSet(s) PROVE x \in ToSet(t)
    <3>1. PICK j \in 1..Len(s) : s[j] = x
      BY Places
    <3>2. PICK n \in 1..Len(t) : t[n] = x
      <4>1. {j, j + 1} \subseteq 1..Len(t)
        BY <1>1, <1>2
      <4>2. QED BY <1>3, <3>1, <4>1
    <3>3. QED BY <1>1, <3>2, Places
  <2>3. e \in ToSet(t)
    <3>1. i \in 1..Len(t) /\ t[i] = e
      BY <1>1, <1>2
    <3>2. QED BY <1>1, <3>1, Places
  <2>4. QED BY <2>1, <2>2, <2>3
<1>7. ASSUME NEW k \in Nat
      PROVE  /\ UpTo(t, k) \subseteq UpTo(s, k) \cup {e}
             /\ Beyond(t, k) \subseteq Beyond(s, k) \cup {IF i > k THEN e ELSE s[k]}
  <2>1. ASSUME NEW x \in UpTo(t, k) PROVE x \in UpTo(s, k) \cup {e}
    <3>1. PICK j \in 1..Len(t) : j <= k /\ t[j] = x
      BY <1>1, Places
    <3>2. CASE j < i
      BY <1>1, <1>2, <3>1, <3>2, Places
    <3>3. CASE j = i
      BY <1>1, <3>1, <3>3
    <3>4. CASE j > i
      <4>1. j - 1 \in 1..Len(s) /\ j - 1 <= k /\ s[j - 1] = x
        BY <1>1, <1>2, <3>1, <3>4
      <4>2. QED BY <4>1, Places
    <3>5. QED BY <3>2, <3>3, <3>4, <1>1, <1>2
  <2>2. PICK c : c = IF i > k THEN e ELSE s[k]
    OBVIOUS
  <2>3. ASSUME NEW x \in Beyond(t, k) PROVE x \in Beyond(s, k) \cup {c}
    <3>1. PICK j \in 1..Len(t) : j > k /\ t[j] = x
      BY <1>1, Places
    <3>2. CASE j < i
      BY <1>1, <1>2, <3>1, <3>2, Places
    <3>3. CASE j = i
      BY <1>1, <3>1, <3>3, <2>2
    <3>4. CASE j > i
      <4>1. j - 1 \in 1..Len(s) /\ s[j - 1] = x
        BY <1>1, <1>2, <3>1, <3>4
      <4>2. CASE j - 1 > k
        BY <4>1, <4>2, Places
      <4>3. CASE j - 1 <= k
        BY <4>1, <4>3, <3>1, <3>4, <2>2, <1>1, <1>2
      <4>4. QED BY <4>2, <4>3, <1>1, <1>2
    <3>5. QED BY <3>2, <3>3, <3>4, <1>1, <1>2
  <2>4. QED BY <2>1, <2>2, <2>3
<1>8. QED BY <1>1, <1>5, <1>6, <1>7

LEMMA RemoveShifts ==
    ASSUME NEW s \in Seq(Book), IsInjective(s), NEW i \in 1..Len(s),
           NEW t, t = RemoveAt(s, i)
    PROVE  /\ t \in Seq(Book) /\ IsInjective(t) /\ Len(t) = Len(s) - 1
           /\ ToSet(t) = ToSet(s) \ {s[i]}
           /\ \A k \in Nat : UpTo(t, k) \subseteq UpTo(s, k) \cup {s[k + 1]}
           /\ \A k \in Nat : Beyond(t, k) \subseteq Beyond(s, k)
<1>1. /\ t \in Seq(Book) /\ Len(t) = Len(s) - 1
      /\ \A k \in 1..Len(t) : t[k] = IF k < i THEN s[k] ELSE s[k + 1]
  BY Removed
<1>2. Len(s) \in Nat
  BY LenProperties
<1>3. \A x, y \in 1..Len(s) : s[x] = s[y] => x = y
  BY Places DEF IsInjective
<1>4. IsInjective(t)
  <2> SUFFICES ASSUME NEW a \in 1..Len(t), NEW b \in 1..Len(t), t[a] = t[b] PROVE a = b
    BY <1>1, Places DEF IsInjective
  <2>1. /\ t[a] = IF a < i THEN s[a] ELSE s[a + 1]
        /\ t[b] = IF b < i THEN s[b] ELSE s[b + 1]
        /\ {a, a + 1, b, b + 1} \subseteq 1..Len(s)
    BY <1>1, <1>2
  <2>2. DEFINE f(x) == IF x < i THEN x ELSE x + 1
  <2>3. f(a) \in 1..Len(s) /\ f(b) \in 1..Len(s) /\ s[f(a)] = s[f(b)]
    BY <2>1
  <2>4. f(a) = f(b)
    BY <1>3, <2>3
  <2>5. QED BY <2>4, <1>1, <1>2
<1>5. ToSet(t) = ToSet(s) \ {s[i]}
  <2>1. ASSUME NEW x \in ToSet(t) PROVE x \in ToSet(s) \ {s[i]}
    <3>1. PICK j \in 1..Len(t) : t[j] = x
      BY <1>1, Places
    <3>2. PICK n \in 1..Len(s) : s[n] = x /\ n # i
      BY <1>1, <1>2, <3>1
    <3>3. QED BY <1>3, <3>2, Places
  <2>2. ASSUME NEW x \in ToSet(s) \ {s[i]} PROVE x \in ToSet(t)
    <3>1. PICK j \in 1..Len(s) : s[j] = x /\ j # i
      BY Places
    <3>2. PICK n \in 1..Len(t) : t[n] = x
      <4>1. CASE j < i
        BY <1>1, <1>2, <3>1, <4>1
      <4>2. CASE j > i
        <5>1. j - 1 \in 1..Len(t) /\ t[j - 1] = x
          BY <1>1, <1>2, <3>1, <4>2
        <5>2. QED BY <5>1
      <4>3. QED BY <4>1, <4>2, <3>1, <1>2
    <3>3. QED BY <1>1, <3>2, Places
  <2>3. QED BY <2>1, <2>2
<1>6. ASSUME NEW k \in Nat
      PROVE  /\ UpTo(t, k) \subseteq UpTo(s, k) \cup {s[k + 1]}
             /\ Beyond(t, k) \subseteq Beyond(s, k)
  <2>1. PICK c : c = s[k + 1]
    OBVIOUS
  <2>2. ASSUME NEW x \in UpTo(t, k) PROVE x \in UpTo(s, k) \cup {c}
    <3>1. PICK j \in 1..Len(t) : j <= k /\ t[j] = x
      BY <1>1, Places
    <3>2. CASE j < i
      <4>1. j \in 1..Len(s) /\ s[j] = x
        BY <1>1, <1>2, <3>1, <3>2
      <4>2. QED BY <4>1, <3>1, Places
    <3>3. CASE j >= i
      <4>1. j + 1 \in 1..Len(s) /\ s[j + 1] = x
        BY <1>1, <1>2, <3>1, <3>3
      <4>2. CASE j + 1 <= k
        BY <4>1, <4>2, Places
      <4>3. CASE j + 1 > k
        <5>1. j = k
          BY <3>1, <4>3, <1>2
        <5>2. QED BY <4>1, <5>1, <2>1
      <4>4. QED BY <4>2, <4>3, <1>1, <1>2
    <3>4. QED BY <3>2, <3>3, <1>1, <1>2
  <2>3. ASSUME NEW x \in Beyond(t, k) PROVE x \in Beyond(s, k)
    <3>1. PICK j \in 1..Len(t) : j > k /\ t[j] = x
      BY <1>1, Places
    <3>2. CASE j < i
      <4>1. j \in 1..Len(s) /\ s[j] = x
        BY <1>1, <1>2, <3>1, <3>2
      <4>2. QED BY <4>1, <3>1, Places
    <3>3. CASE j >= i
      <4>1. j + 1 \in 1..Len(s) /\ s[j + 1] = x /\ j + 1 > k
        BY <1>1, <1>2, <3>1, <3>3
      <4>2. QED BY <4>1, Places
    <3>4. QED BY <3>2, <3>3, <1>1, <1>2
  <2>4. QED BY <2>1, <2>2, <2>3
<1>7. QED BY <1>1, <1>4, <1>5, <1>6

\* One more element is at most one more.
LEMMA OneMore ==
    ASSUME NEW A, IsFiniteSet(A), NEW B, NEW c, B \subseteq A \cup {c}
    PROVE  /\ IsFiniteSet(B) /\ Cardinality(B) \in Nat /\ Cardinality(A) \in Nat
           /\ Cardinality(B) <= Cardinality(A) + 1
<1>1. IsFiniteSet(A \cup {c}) /\ Cardinality(A \cup {c}) <= Cardinality(A) + 1
  <2>1. Cardinality(A) \in Nat
    BY FS_CardinalityType
  <2>2. QED BY <2>1, FS_AddElement
<1>2. IsFiniteSet(B) /\ Cardinality(B) <= Cardinality(A \cup {c})
  BY <1>1, FS_Subset
<1>3. Cardinality(B) \in Nat /\ Cardinality(A) \in Nat /\ Cardinality(A \cup {c}) \in Nat
  BY <1>1, <1>2, FS_CardinalityType
<1>4. QED BY <1>1, <1>2, <1>3

LEMMA NoMore ==
    ASSUME NEW A, IsFiniteSet(A), NEW B, B \subseteq A
    PROVE  /\ IsFiniteSet(B) /\ Cardinality(B) \in Nat /\ Cardinality(A) \in Nat
           /\ Cardinality(B) <= Cardinality(A)
BY FS_Subset, FS_CardinalityType

\* Listings are of finitely many books.
LEMMA Listings ==
    ASSUME NEW s \in Seq(Book)
    PROVE  /\ ToSet(s) \subseteq Book /\ IsFiniteSet(ToSet(s))
           /\ \A k \in Int : /\ UpTo(s, k) \subseteq ToSet(s) /\ IsFiniteSet(UpTo(s, k))
                             /\ Beyond(s, k) \subseteq ToSet(s) /\ IsFiniteSet(Beyond(s, k))
<1>1. ToSet(s) \subseteq Book
  BY Places, ElementOfSeq
<1>2. IsFiniteSet(ToSet(s))
  BY <1>1, BookAssumption, FS_Subset
<1>3. \A k \in Int : UpTo(s, k) \subseteq ToSet(s) /\ Beyond(s, k) \subseteq ToSet(s)
  BY Places
<1>4. QED BY <1>1, <1>2, <1>3, FS_Subset

\* A listing that names nothing twice is as long as what it lists.
LEMMA Injected ==
    ASSUME NEW s \in Seq(Book), IsInjective(s)
    PROVE  Cardinality(ToSet(s)) = Len(s) /\ Len(s) <= Cardinality(Book)
<1>1. Len(s) \in Nat /\ DOMAIN s = 1..Len(s)
  BY LenProperties
<1>2. s \in [1..Len(s) -> ToSet(s)]
  BY LenProperties, <1>1 DEF ToSet
<1>3. s \in Bijection(1..Len(s), ToSet(s))
  <2>1. \A x \in ToSet(s) : \E i \in 1..Len(s) : s[i] = x
    BY Places
  <2>2. \A x, y \in 1..Len(s) : s[x] = s[y] => x = y
    BY <1>1 DEF IsInjective
  <2>3. QED BY <1>2, <2>1, <2>2, <1>1 DEF Bijection, Injection, Surjection, IsInjective
<1>4. Cardinality(ToSet(s)) = Len(s)
  BY <1>1, <1>3, FS_CountingElements DEF ExistsBijection
<1>5. QED BY <1>4, Listings, BookAssumption, FS_Subset

\* Beyond a place there are no more than the listing has left.
LEMMA FewBeyond ==
    ASSUME NEW s \in Seq(Book), NEW k \in Nat
    PROVE  Cardinality(Beyond(s, k)) <= IF k < Len(s) THEN Len(s) - k ELSE 0
<1>1. Len(s) \in Nat
  BY LenProperties
<1>2. CASE k < Len(s)
  <2>1. DEFINE f == [i \in 1..Len(s) - k |-> s[k + i]]
  <2>2. \A i \in 1..Len(s) - k : s[k + i] \in Beyond(s, k)
    <3> TAKE i \in 1..Len(s) - k
    <3>1. k + i \in 1..Len(s) /\ k + i > k
      BY <1>1
    <3>2. QED BY <3>1, Places
  <2>3. \A x \in Beyond(s, k) : \E i \in 1..Len(s) - k : s[k + i] = x
    <3> TAKE x \in Beyond(s, k)
    <3>1. PICK j \in 1..Len(s) : j > k /\ s[j] = x
      BY Places
    <3>2. j - k \in 1..Len(s) - k /\ s[k + (j - k)] = x
      BY <1>1, <3>1
    <3>3. QED BY <3>2
  <2>4. f \in Surjection(1..Len(s) - k, Beyond(s, k))
    BY <2>2, <2>3 DEF Surjection
  <2>5. Len(s) - k \in Nat
    BY <1>1, <1>2
  <2>6. Cardinality(Beyond(s, k)) <= Len(s) - k
    BY <2>4, <2>5, FS_SurjCardinalityBound DEF ExistsSurjection
  <2>7. QED BY <1>2, <2>6
<1>3. CASE k >= Len(s)
  <2>1. Beyond(s, k) = {}
    BY <1>1, <1>3, Places
  <2>2. QED BY <1>1, <1>3, <2>1, FS_EmptySet
<1>4. QED BY <1>1, <1>2, <1>3

\* A page is what stands between its first place and the next page's.
LEMMA PageRead ==
    ASSUME NEW s \in Seq(Book), IsInjective(s), NEW k \in Nat, NEW n \in Nat,
           NEW r, r = PageOf(s, k, n)
    PROVE  /\ r \in Seq(Book) /\ IsInjective(r) /\ Len(r) <= n
           /\ ToSet(r) \subseteq ToSet(s)
           /\ UpTo(s, k + n) = UpTo(s, k) \cup ToSet(r)
           /\ Beyond(s, k) = Beyond(s, k + n) \cup ToSet(r)
           /\ Beyond(s, k + n) \cap ToSet(r) = {}
<1> DEFINE m == AtMost(k + n, Len(s))
<1>1. /\ Len(s) \in Nat /\ m \in Nat /\ m <= k + n /\ m <= Len(s)
      /\ (m < k + n => m = Len(s))
  BY LenProperties DEF AtMost
<1> HIDE DEF m
<1>2. /\ r \in Seq(Book)
      /\ Len(r) = IF k + 1 <= m THEN m - k ELSE 0
      /\ \A i \in 1..m - k : r[i] = s[k + i]
  <2>1. \A i \in k + 1..m : s[i] \in Book
    BY <1>1, ElementOfSeq
  <2>2. /\ r \in Seq(Book) /\ Len(r) = IF k + 1 <= m THEN m - (k + 1) + 1 ELSE 0
        /\ \A i \in 1..m - (k + 1) + 1 : r[i] = s[(k + 1) + i - 1]
    BY <1>1, <2>1, SubSeqProperties DEF m, PageOf
  <2>3. ASSUME NEW i \in 1..m - k PROVE r[i] = s[k + i]
    <3>1. i \in 1..m - (k + 1) + 1 /\ (k + 1) + i - 1 = k + i
      BY <1>1
    <3>2. r[i] = s[(k + 1) + i - 1]
      BY <2>2, <3>1
    <3>3. QED BY <3>1, <3>2
  <2>4. Len(r) = IF k + 1 <= m THEN m - k ELSE 0
    BY <1>1, <2>2
  <2>5. QED BY <2>2, <2>3, <2>4
<1>3. \A x, y \in 1..Len(s) : s[x] = s[y] => x = y
  BY Places DEF IsInjective
<1>4. ASSUME NEW i \in 1..Len(r)
      PROVE  k + i \in 1..Len(s) /\ k + i <= k + n /\ k + i > k /\ r[i] = s[k + i]
  <2>1. i \in 1..m - k
    BY <1>1, <1>2
  <2>2. k + i \in 1..Len(s) /\ k + i <= k + n /\ k + i > k
    BY <1>1, <2>1
  <2>3. r[i] = s[k + i]
    BY <1>2, <2>1
  <2>4. QED BY <2>2, <2>3
<1>5. \A j \in 1..Len(s) : j > k /\ j <= k + n => j - k \in 1..Len(r) /\ r[j - k] = s[j]
  <2> TAKE j \in 1..Len(s)
  <2> HAVE j > k /\ j <= k + n
  <2>1. j <= m /\ j - k \in 1..m - k /\ k + (j - k) = j
    BY <1>1
  <2>2. Len(r) = m - k
    BY <1>1, <1>2, <2>1
  <2>3. QED BY <1>2, <2>1, <2>2
<1>6. \A x : x \in ToSet(r) <=> \E j \in 1..Len(s) : j > k /\ j <= k + n /\ s[j] = x
  <2> TAKE x
  <2>1. ASSUME x \in ToSet(r)
        PROVE  \E j \in 1..Len(s) : j > k /\ j <= k + n /\ s[j] = x
    <3>1. PICK i \in 1..Len(r) : r[i] = x
      BY <1>2, <2>1, Places
    <3>2. QED BY <1>4, <3>1
  <2>2. ASSUME NEW j \in 1..Len(s), j > k, j <= k + n, s[j] = x
        PROVE  x \in ToSet(r)
    <3>1. j - k \in 1..Len(r) /\ r[j - k] = x
      BY <1>5, <2>2
    <3>2. QED BY <1>2, <3>1, Places
  <2>3. QED BY <2>1, <2>2
<1>7. IsInjective(r)
  <2> SUFFICES ASSUME NEW a \in 1..Len(r), NEW b \in 1..Len(r), r[a] = r[b] PROVE a = b
    BY <1>2, Places DEF IsInjective
  <2>1. k + a = k + b
    BY <1>3, <1>4
  <2>2. a \in Int /\ b \in Int
    OBVIOUS
  <2>3. QED BY <2>1, <2>2
<1>8. Len(r) <= n
  BY <1>1, <1>2
<1>9. ToSet(r) \subseteq ToSet(s)
  BY <1>6, Places
<1>10. UpTo(s, k + n) = UpTo(s, k) \cup ToSet(r)
  <2>1. \A x : x \in UpTo(s, k + n) <=> \E i \in 1..Len(s) : i <= k + n /\ s[i] = x
    BY Places
  <2>2. \A x : x \in UpTo(s, k) <=> \E i \in 1..Len(s) : i <= k /\ s[i] = x
    BY Places
  <2>3. \A i \in 1..Len(s) : i <= k + n <=> i <= k \/ (i > k /\ i <= k + n)
    BY <1>1
  <2>4. QED BY <1>6, <2>1, <2>2, <2>3
<1>11. Beyond(s, k) = Beyond(s, k + n) \cup ToSet(r)
  <2>1. \A x : x \in Beyond(s, k + n) <=> \E i \in 1..Len(s) : i > k + n /\ s[i] = x
    BY Places
  <2>2. \A x : x \in Beyond(s, k) <=> \E i \in 1..Len(s) : i > k /\ s[i] = x
    BY Places
  <2>3. \A i \in 1..Len(s) : i > k <=> i > k + n \/ (i > k /\ i <= k + n)
    BY <1>1
  <2>4. QED BY <1>6, <2>1, <2>2, <2>3
<1>12. Beyond(s, k + n) \cap ToSet(r) = {}
  <2>1. \A x : x \in Beyond(s, k + n) => \E i \in 1..Len(s) : i > k + n /\ s[i] = x
    BY Places
  <2>2. QED BY <1>3, <1>6, <2>1
<1>13. QED BY <1>2, <1>7, <1>8, <1>9, <1>10, <1>11, <1>12

-----------------------------------------------------------------------------
(* Types, and what a change of the shelf does to the pages.                *)

LEMMA Numbers ==
    /\ IntMax \in Nat /\ MaxSize \in Nat /\ MaxSize >= 1 /\ DefaultSize \in 1..MaxSize
    /\ Cardinality(Book) \in Nat /\ IntMax >= MaxSize + Cardinality(Book)
    /\ MaxSettings \in Nat
BY SizeAssumption, IntAssumption, BookAssumption, FS_CardinalityType

\* Wrap has the range of an int, and leaves what has it alone.
LEMMA Wrapped ==
    ASSUME NEW n \in Int
    PROVE  /\ Wrap(n) \in -IntMax - 1..IntMax
           /\ n \in -IntMax - 1..IntMax => Wrap(n) = n
<1> DEFINE M == 2 * IntMax + 2
           x == n + IntMax + 1
<1>1. M \in Nat /\ M > 0 /\ x \in Int /\ IntMax \in Nat
  BY Numbers
<1> HIDE DEF M, x
<1>2. x % M \in 0..M - 1
  BY <1>1
<1>3. x \in 0..M - 1 => x % M = x
  BY <1>1
<1>4. Wrap(n) = (x % M) - (IntMax + 1)
  BY DEF Wrap, x, M
<1>5. QED BY <1>1, <1>2, <1>3, <1>4 DEF x, M

\* The numbers of a page.
LEMMA Paging ==
    ASSUME NEW q \in Ask
    PROVE  /\ PageNo(q) \in Nat /\ PageNo(q) >= 1
           /\ PageSize(q) \in 1..MaxSize
           /\ PageNo(q) * PageSize(q) \in Nat /\ (PageNo(q) - 1) * PageSize(q) \in Nat
           /\ PageNo(q) * PageSize(q) = (PageNo(q) - 1) * PageSize(q) + PageSize(q)
           /\ PageNo(q) <= PageNo(q) * PageSize(q)
           /\ Offset(q) \in Int
<1>1. q.page \in Int /\ q.size \in Int
  BY DEF Ask
<1>2. PageNo(q) \in Nat /\ PageNo(q) >= 1
  BY <1>1 DEF PageNo, AtLeast
<1>3. PageSize(q) \in 1..MaxSize
  BY <1>1, Numbers DEF PageSize
<1>4. \A p, s \in Nat : p >= 1 /\ s >= 1 =>
        /\ p * s \in Nat /\ (p - 1) * s \in Nat /\ p * s = (p - 1) * s + s
        /\ p <= p * s
  OBVIOUS
<1>5. PageSize(q) \in Nat /\ PageSize(q) >= 1
  BY <1>3, Numbers
<1>6. /\ PageNo(q) * PageSize(q) \in Nat /\ (PageNo(q) - 1) * PageSize(q) \in Nat
      /\ PageNo(q) * PageSize(q) = (PageNo(q) - 1) * PageSize(q) + PageSize(q)
      /\ PageNo(q) <= PageNo(q) * PageSize(q)
  BY <1>2, <1>4, <1>5
<1>7. Offset(q) \in Int
  BY <1>6, Wrapped, Numbers DEF Offset
<1>8. QED BY <1>2, <1>3, <1>6, <1>7

\* A change of the shelf moves at most one book across a place, and is counted:
\* a book that goes or moves may bring one forward, one that comes or moves may
\* push one back.
LEMMA ChangeEffect ==
    ASSUME TypeOK, Change
    PROVE  /\ UNCHANGED <<setting, handler, got>>
           /\ shelf' \in Seq(Book) /\ IsInjective(shelf')
           /\ held' \subseteq ToSet(shelf') /\ held' \subseteq held
           /\ added' \in Nat /\ slipped' \in Nat /\ slipped' >= slipped
           /\ ToSet(shelf) \subseteq ToSet(shelf') \/ slipped' > 0
           /\ \/ /\ Len(shelf') = Len(shelf) + 1
                 /\ slipped' = slipped + (IF step = "find" THEN 1 ELSE 0)
                 /\ \A k \in Nat : held' \cap UpTo(shelf', k) \subseteq held \cap UpTo(shelf, k)
              \/ /\ Len(shelf') <= Len(shelf)
                 /\ slipped' = slipped + 1
                 /\ \A k \in Nat : \E c : held' \cap UpTo(shelf', k)
                                            \subseteq (held \cap UpTo(shelf, k)) \cup {c}
           /\ \/ /\ added' = added
                 /\ \A k \in Nat : Beyond(shelf', k) \subseteq Beyond(shelf, k)
              \/ /\ added' = added + 1
                 /\ \A k \in Nat : \E c : Beyond(shelf', k) \subseteq Beyond(shelf, k) \cup {c}
<1>1. /\ shelf \in Seq(Book) /\ IsInjective(shelf) /\ held \subseteq ToSet(shelf)
      /\ added \in Nat /\ slipped \in Nat /\ Len(shelf) \in Nat
  BY LenProperties DEF TypeOK
<1>2. UNCHANGED <<setting, handler, got>>
  BY DEF Change
<1>3. ASSUME NEW b \in Book, Arrives(b)
      PROVE  /\ shelf' \in Seq(Book) /\ IsInjective(shelf')
             /\ ToSet(shelf') = ToSet(shelf) \cup {b} /\ held' = held
             /\ Len(shelf') = Len(shelf) + 1 /\ added' = added + 1
             /\ slipped' = slipped + (IF step = "find" THEN 1 ELSE 0)
             /\ \A k \in Nat : held' \cap UpTo(shelf', k) \subseteq held \cap UpTo(shelf, k)
             /\ \A k \in Nat : \E c : Beyond(shelf', k) \subseteq Beyond(shelf, k) \cup {c}
  <2>1. /\ b \notin ToSet(shelf) /\ held' = held /\ added' = added + 1
        /\ slipped' = slipped + (IF step = "find" THEN 1 ELSE 0)
    BY <1>3 DEF Arrives, Between
  <2>2. PICK i \in 1..Len(shelf) + 1 : shelf' = InsertAt(shelf, i, b)
    BY <1>3 DEF Arrives
  <2>3. /\ shelf' \in Seq(Book) /\ IsInjective(shelf') /\ Len(shelf') = Len(shelf) + 1
        /\ ToSet(shelf') = ToSet(shelf) \cup {b}
        /\ \A k \in Nat : UpTo(shelf', k) \subseteq UpTo(shelf, k) \cup {b}
        /\ \A k \in Nat : \E c : Beyond(shelf', k) \subseteq Beyond(shelf, k) \cup {c}
    <3>1. PICK t : t = InsertAt(shelf, i, b)
      OBVIOUS
    <3>2. /\ t \in Seq(Book) /\ IsInjective(t) /\ Len(t) = Len(shelf) + 1
          /\ ToSet(t) = ToSet(shelf) \cup {b}
          /\ \A k \in Nat : UpTo(t, k) \subseteq UpTo(shelf, k) \cup {b}
          /\ \A k \in Nat : Beyond(t, k) \subseteq Beyond(shelf, k) \cup {IF i > k THEN b ELSE shelf[k]}
      <4>1. shelf \in Seq(Book) /\ IsInjective(shelf) /\ b \notin ToSet(shelf) /\ b \in Book
        BY <1>1, <2>1
      <4>2. i \in Nat /\ i >= 1 /\ i <= Len(shelf) + 1
        BY <1>1
      <4>3. QED BY <4>1, <4>2, <3>1, InsertShifts
    <3>3. QED BY <2>2, <3>1, <3>2
  <2>4. b \notin held
    BY <1>1, <2>1
  <2>5. QED BY <2>1, <2>3, <2>4
<1>4. ASSUME NEW i \in 1..Len(shelf), Leaves(i)
      PROVE  /\ shelf' \in Seq(Book) /\ IsInjective(shelf')
             /\ ToSet(shelf') = ToSet(shelf) \ {shelf[i]} /\ held' = held \ {shelf[i]}
             /\ Len(shelf') = Len(shelf) - 1 /\ added' = added /\ slipped' = slipped + 1
             /\ \A k \in Nat : \E c : UpTo(shelf', k) \subseteq UpTo(shelf, k) \cup {c}
             /\ \A k \in Nat : Beyond(shelf', k) \subseteq Beyond(shelf, k)
  <2>1. /\ shelf' = RemoveAt(shelf, i) /\ held' = held \ {shelf[i]}
        /\ added' = added /\ slipped' = slipped + 1
    BY <1>4 DEF Leaves
  <2>2. QED BY <1>1, <2>1, RemoveShifts
<1>5. ASSUME NEW i \in 1..Len(shelf), Moves(i)
      PROVE  /\ shelf' \in Seq(Book) /\ IsInjective(shelf')
             /\ ToSet(shelf') = ToSet(shelf) /\ held' = held \ {shelf[i]}
             /\ Len(shelf') = Len(shelf) /\ added' = added + 1 /\ slipped' = slipped + 1
             /\ \A k \in Nat : \E c : UpTo(shelf', k) \subseteq UpTo(shelf, k) \cup {c, shelf[i]}
             /\ \A k \in Nat : \E c : Beyond(shelf', k) \subseteq Beyond(shelf, k) \cup {c}
  <2>1. /\ held' = held \ {shelf[i]} /\ added' = added + 1 /\ slipped' = slipped + 1
    BY <1>5 DEF Moves
  <2>2. PICK j \in 1..Len(shelf) : shelf' = InsertAt(RemoveAt(shelf, i), j, shelf[i])
    BY <1>5 DEF Moves
  <2>3. PICK t : t = RemoveAt(shelf, i)
    OBVIOUS
  <2>4. /\ t \in Seq(Book) /\ IsInjective(t) /\ Len(t) = Len(shelf) - 1
        /\ ToSet(t) = ToSet(shelf) \ {shelf[i]}
        /\ \A k \in Nat : UpTo(t, k) \subseteq UpTo(shelf, k) \cup {shelf[k + 1]}
        /\ \A k \in Nat : Beyond(t, k) \subseteq Beyond(shelf, k)
    BY <1>1, <2>3, RemoveShifts
  <2>5. shelf[i] \in Book /\ shelf[i] \notin ToSet(t) /\ j \in Nat /\ j >= 1 /\ j <= Len(t) + 1
        /\ shelf[i] \in ToSet(shelf)
    BY <1>1, <2>4, Places, ElementOfSeq
  <2>6. /\ shelf' \in Seq(Book) /\ IsInjective(shelf') /\ Len(shelf') = Len(t) + 1
        /\ ToSet(shelf') = ToSet(t) \cup {shelf[i]}
        /\ \A k \in Nat : UpTo(shelf', k) \subseteq UpTo(t, k) \cup {shelf[i]}
        /\ \A k \in Nat : \E c : Beyond(shelf', k) \subseteq Beyond(t, k) \cup {c}
    <3>1. PICK u : u = InsertAt(t, j, shelf[i])
      OBVIOUS
    <3>2. /\ u \in Seq(Book) /\ IsInjective(u) /\ Len(u) = Len(t) + 1
          /\ ToSet(u) = ToSet(t) \cup {shelf[i]}
          /\ \A k \in Nat : UpTo(u, k) \subseteq UpTo(t, k) \cup {shelf[i]}
          /\ \A k \in Nat : \E c : Beyond(u, k) \subseteq Beyond(t, k) \cup {c}
      <4>1. PICK e \in Book : e = shelf[i]
        BY <2>5
      <4>2. t \in Seq(Book) /\ IsInjective(t) /\ e \notin ToSet(t)
        BY <2>4, <2>5, <4>1
      <4>3. j \in Nat /\ j >= 1 /\ j <= Len(t) + 1 /\ u = InsertAt(t, j, e)
        BY <2>5, <3>1, <4>1
      <4>4. /\ u \in Seq(Book) /\ IsInjective(u) /\ Len(u) = Len(t) + 1
            /\ ToSet(u) = ToSet(t) \cup {e}
            /\ \A k \in Nat : UpTo(u, k) \subseteq UpTo(t, k) \cup {e}
            /\ \A k \in Nat : Beyond(u, k) \subseteq Beyond(t, k) \cup {IF j > k THEN e ELSE t[k]}
        BY <4>2, <4>3, InsertShifts
      <4>5. QED BY <4>1, <4>4
    <3>3. QED BY <2>2, <2>3, <3>1, <3>2
  <2>7. ASSUME NEW k \in Nat
        PROVE  /\ \E c : UpTo(shelf', k) \subseteq UpTo(shelf, k) \cup {c, shelf[i]}
               /\ \E c : Beyond(shelf', k) \subseteq Beyond(shelf, k) \cup {c}
    <3>1. PICK c : UpTo(t, k) \subseteq UpTo(shelf, k) \cup {c}
      BY <2>4
    <3>2. PICK d : Beyond(shelf', k) \subseteq Beyond(t, k) \cup {d}
      BY <2>6
    <3>3. UpTo(shelf', k) \subseteq UpTo(shelf, k) \cup {c, shelf[i]}
      BY <2>6, <3>1
    <3>4. Beyond(shelf', k) \subseteq Beyond(shelf, k) \cup {d}
      BY <2>4, <3>2
    <3>5. QED BY <3>3, <3>4
  <2>8. Len(shelf') = Len(shelf)
    BY <1>1, <2>4, <2>6
  <2>9. ToSet(shelf') = ToSet(shelf)
    BY <2>4, <2>5, <2>6
  <2>10. QED BY <2>1, <2>6, <2>7, <2>8, <2>9
<1>6. CASE \E b \in Book : Arrives(b)
  <2>1. PICK b \in Book : Arrives(b)
    BY <1>6
  <2>2. /\ added' \in Nat /\ slipped' \in Nat /\ slipped' >= slipped
    BY <1>1, <1>3, <2>1
  <2>3. QED BY <1>1, <1>2, <1>3, <2>1, <2>2
<1>7. CASE \E i \in 1..Len(shelf) : Leaves(i)
  <2>1. PICK i \in 1..Len(shelf) : Leaves(i)
    BY <1>7
  <2>2. /\ added' \in Nat /\ slipped' \in Nat /\ slipped' >= slipped /\ slipped' > 0
        /\ Len(shelf') <= Len(shelf)
    BY <1>1, <1>4, <2>1
  <2>3. \A k \in Nat : \E c : held' \cap UpTo(shelf', k)
                                \subseteq (held \cap UpTo(shelf, k)) \cup {c}
    BY <1>4, <2>1
  <2>4. QED BY <1>1, <1>2, <1>4, <2>1, <2>2, <2>3
<1>8. CASE \E i \in 1..Len(shelf) : Moves(i)
  <2>1. PICK i \in 1..Len(shelf) : Moves(i)
    BY <1>8
  <2>2. /\ added' \in Nat /\ slipped' \in Nat /\ slipped' >= slipped /\ slipped' > 0
        /\ Len(shelf') <= Len(shelf)
    BY <1>1, <1>5, <2>1
  <2>3. \A k \in Nat : \E c : held' \cap UpTo(shelf', k)
                                \subseteq (held \cap UpTo(shelf, k)) \cup {c}
    BY <1>5, <2>1
  <2>4. QED BY <1>1, <1>2, <1>5, <2>1, <2>2, <2>3
<1>9. QED BY <1>6, <1>7, <1>8 DEF Change

\* Every page has numbers, and every answer a link or none.
LEMMA LinkType ==
    ASSUME TypeOK, WalkInv, Feed
    PROVE  link' \in Link \cup {None}
<1>1. asks \in Ask /\ row \in Setting
  BY DEF WalkInv
<1>2. PageNo(asks) + 1 \in Int /\ PageSize(asks) \in 1..MaxSize
  BY <1>1, Paging
<1>3. Wrap(PageNo(asks) + 1) \in -IntMax - 1..IntMax
  BY <1>2, Wrapped
<1>4. /\ Origin(asks, row.base) \in Scheme
      /\ (IF row.base # None THEN "proxy" ELSE asks.via) \in {"proxy", "direct"}
      /\ row.at \in 0..MaxSettings
  BY <1>1 DEF Origin, Setting, Ask
<1>5. QED BY <1>2, <1>3, <1>4 DEF Feed, Link

\* The rows of a page, wherever it begins.
LEMMA RowsType ==
    ASSUME TypeOK, NEW k \in Nat, NEW n \in 1..MaxSize,
           NEW r, r = PageOf(shelf, k, n)
    PROVE  r \in Seq(Book) /\ IsInjective(r) /\ Len(r) <= MaxSize /\ Len(r) \in Nat
<1>1. n \in Nat /\ n <= MaxSize
  BY Numbers
<1>2. r \in Seq(Book) /\ IsInjective(r) /\ Len(r) <= n
  <2>1. shelf \in Seq(Book) /\ IsInjective(shelf)
    BY DEF TypeOK
  <2>2. PICK s : s = shelf
    OBVIOUS
  <2>3. PICK m \in Nat : m = n
    BY <1>1
  <2>4. r = PageOf(s, k, m)
    BY <2>2, <2>3
  <2>5. r \in Seq(Book) /\ IsInjective(r) /\ Len(r) <= m
    BY <2>1, <2>2, <2>4, PageRead
  <2>6. QED BY <2>3, <2>5
<1>3. Len(r) \in Nat
  BY <1>2, LenProperties
<1>4. QED BY <1>1, <1>2, <1>3, Numbers

LEMMA TypeInit == Init => TypeOK
<1> SUFFICES ASSUME Init PROVE TypeOK
  OBVIOUS
<1> USE DEF Init
<1>1. shelf \in Seq(Book) /\ IsInjective(shelf)
  <2>1. PICK m \in 0..Cardinality(Book) : shelf \in [1..m -> Book]
    BY DEF SeqOf
  <2>2. m \in Nat
    BY <2>1, Numbers
  <2>3. QED BY <2>1, <2>2, SeqDef
<1>2. << >> \in Seq(Book) /\ Len(<< >>) = 0 /\ IsInjective(<< >>)
  BY Places DEF IsInjective
<1>3. setting \in Setting /\ row \in Setting
  OBVIOUS
<1>4. total \in 0..Cardinality(Book) /\ Len(rows) <= MaxSize
  BY <1>2, Numbers
<1>5. QED BY <1>1, <1>2, <1>3, <1>4 DEF TypeOK

\* The types that a handler's step has under its control.
LEMMA TypeHandle ==
    ASSUME TypeOK, WalkInv, Handle, UNCHANGED <<shelf, setting, history>>
    PROVE  TypeOK'
<1>1. asks \in Ask /\ setting \in Setting /\ row \in Setting
  BY DEF WalkInv
<1>2. UNCHANGED <<shelf, setting, held, added, slipped>>
  BY DEF history
<1>3. CASE Admit /\ UNCHANGED got
  <2>1. Verdict(setting, asks) \in {200, 401, 403, 404} /\ asks.feed \in {"acquisition", "navigation"}
    BY <1>1 DEF Verdict, Ask
  <2>2. /\ row' = setting /\ UNCHANGED <<total, rows, left, got>>
        /\ \/ step' = "answered" /\ status' \in {401, 403, 404} /\ link' = None
           \/ step' \in {"acquisition", "navigation"} /\ UNCHANGED <<status, link>>
    BY <1>3, <2>1 DEF Admit, Answer
  <2>3. QED BY <1>1, <1>2, <2>2 DEF TypeOK
<1>4. CASE Count /\ UNCHANGED got
  <2>1. Len(shelf) \in 0..Cardinality(Book)
    BY Injected, LenProperties, Numbers DEF TypeOK
  <2>2. QED BY <1>2, <1>4, <2>1 DEF Count, Go, TypeOK
<1>5. CASE Find /\ UNCHANGED got
  <2>1. AtLeast(Offset(asks), 0) \in Nat /\ PageSize(asks) \in 1..MaxSize
    BY <1>1, Paging DEF AtLeast
  <2>2. PICK k \in Nat : k = AtLeast(Offset(asks), 0)
    BY <2>1
  <2>3. rows' = PageOf(shelf, k, PageSize(asks))
    BY <1>5, <2>2 DEF Find
  <2>4. rows' \in Seq(Book) /\ IsInjective(rows') /\ Len(rows') <= MaxSize /\ Len(rows') \in Nat
    BY <2>1, <2>3, RowsType
  <2>5. left' = rows' /\ step' = "get" /\ UNCHANGED <<row, total, status, link, got>>
    BY <1>5 DEF Find, Go
  <2>6. QED BY <1>2, <2>4, <2>5 DEF TypeOK
<1>6. CASE Get /\ UNCHANGED got
  <2>1. left \in Seq(Book) /\ left # << >>
    BY <1>6 DEF Get, TypeOK
  <2>2. /\ Tail(left) \in Seq(Book) /\ Len(Tail(left)) = Len(left) - 1
        /\ Len(left) \in Nat /\ Len(left) <= MaxSize
    BY <2>1, HeadTailProperties, LenProperties DEF TypeOK
  <2>3. /\ UNCHANGED <<row, total, rows, got>>
        /\ \/ left' = Tail(left) /\ UNCHANGED <<step, status, link>>
           \/ step' = "answered" /\ status' = 500 /\ link' = None /\ UNCHANGED left
    BY <1>6 DEF Get, Answer
  <2>4. left' \in Seq(Book) /\ Len(left') <= MaxSize
    BY <2>1, <2>2, <2>3, Numbers
  <2>5. QED BY <1>2, <2>3, <2>4 DEF TypeOK
<1>7. CASE Listed /\ UNCHANGED got
  BY <1>2, <1>7 DEF Listed, Go, TypeOK
<1>8. CASE Slice /\ UNCHANGED got
  <2>1. Len(shelf) \in 0..Cardinality(Book)
    BY Injected, LenProperties, Numbers DEF TypeOK
  <2>2. /\ total' = Len(shelf) /\ UNCHANGED <<row, left, got>>
    BY <1>8 DEF Slice
  <2>3. CASE AtMost(Offset(asks), Len(shelf)) < 0
    BY <1>2, <1>8, <2>1, <2>2, <2>3 DEF Slice, Answer, TypeOK
  <2>4. CASE ~(AtMost(Offset(asks), Len(shelf)) < 0)
    <3>1. AtMost(Offset(asks), Len(shelf)) \in Nat /\ PageSize(asks) \in 1..MaxSize
      BY <1>1, <2>1, <2>4, Paging, Numbers DEF AtMost
    <3>2. PICK k \in Nat : k = AtMost(Offset(asks), Len(shelf))
      BY <3>1
    <3>3. /\ rows' = PageOf(shelf, k, PageSize(asks))
          /\ step' = "feed" /\ UNCHANGED <<status, link>>
      BY <1>8, <2>4, <3>2 DEF Slice
    <3>4. rows' \in Seq(Book) /\ IsInjective(rows') /\ Len(rows') <= MaxSize /\ Len(rows') \in Nat
      BY <3>1, <3>3, RowsType
    <3>5. QED BY <1>2, <2>1, <2>2, <3>3, <3>4 DEF TypeOK
  <2>5. QED BY <2>3, <2>4
<1>9. CASE Follow /\ UNCHANGED got
  BY <1>2, <1>9 DEF Follow, Go, TypeOK
<1>10. CASE Feed
  <2>1. got \o rows \in Seq(Book)
    BY ConcatProperties DEF TypeOK
  <2>2. /\ step' = "answered" /\ status' = 200 /\ got' = got \o rows
        /\ UNCHANGED <<row, total, rows, left>>
    BY <1>10 DEF Feed
  <2>3. QED BY <1>2, <1>10, <2>1, <2>2, LinkType DEF TypeOK
<1>11. QED BY <1>3, <1>4, <1>5, <1>6, <1>7, <1>8, <1>9, <1>10 DEF Handle

LEMMA TypeInductive ==
    ASSUME TypeOK, WalkInv, [Next]_vars
    PROVE  TypeOK'
<1>1. CASE Handle /\ UNCHANGED <<shelf, setting, history>>
  BY <1>1, TypeHandle
<1>2. CASE Change
  <2>1. /\ UNCHANGED <<setting, handler, got>>
        /\ shelf' \in Seq(Book) /\ IsInjective(shelf') /\ held' \subseteq ToSet(shelf')
        /\ added' \in Nat /\ slipped' \in Nat
    BY <1>2, ChangeEffect
  <2>2. QED BY <2>1 DEF handler, TypeOK
<1>3. CASE Configure
  <2>1. setting' \in Setting /\ UNCHANGED <<shelf, handler, got, history>>
    BY <1>3 DEF Configure
  <2>2. QED BY <2>1 DEF handler, history, TypeOK
<1>4. CASE UNCHANGED vars
  BY <1>4 DEF vars, handler, history, TypeOK
<1>5. QED BY <1>1, <1>2, <1>3, <1>4 DEF Next

\* The shelf and every page of it list books, none twice; the numbers of a
\* request and of a link fit their types whatever the client asks for.
THEOREM ListingTypes == Spec => []TypeOK
<1>1. Init => TypeOK /\ WalkInv
  BY TypeInit, WalkInit
<1>2. TypeOK /\ WalkInv /\ [Next]_vars => (TypeOK /\ WalkInv)'
  BY TypeInductive, WalkInductive
<1>3. QED BY <1>1, <1>2, PTL DEF Spec

-----------------------------------------------------------------------------
(* Walks from the first page.                                              *)

\* No page of such a walk has an offset that is not an int.
LEMMA SmallPages ==
    ASSUME WalkInv, Pages, asks.first <= 1
    PROVE  /\ PageNo(asks) * PageSize(asks) <= IntMax
           /\ Wrap(PageNo(asks) * PageSize(asks)) = PageNo(asks) * PageSize(asks)
           /\ Offset(asks) = (PageNo(asks) - 1) * PageSize(asks)
<1> DEFINE p == PageNo(asks)
           s == PageSize(asks)
           a == (p - 1) * s
           b == p * s
<1>1. /\ p \in Nat /\ p >= 1 /\ s \in 1..MaxSize
      /\ a \in Nat /\ b \in Nat /\ b = a + s
  BY Paging DEF WalkInv
<1>2. p = 1 \/ a < Cardinality(Book)
  BY DEF Pages
<1>3. p = 1 => a = 0
  BY <1>1, Numbers
<1> HIDE DEF p, s, a, b
<1>4. b <= IntMax /\ a <= IntMax
  BY <1>1, <1>2, <1>3, Numbers
<1>5. a \in -IntMax - 1..IntMax /\ b \in -IntMax - 1..IntMax
  BY <1>1, <1>4, Numbers
<1>6. Wrap(a) = a /\ Wrap(b) = b
  BY <1>1, <1>5, Wrapped
<1>7. QED BY <1>4, <1>6 DEF p, s, a, b, Offset

\* A link of such a walk leads to the next page of the same size.
LEMMA NextPage ==
    ASSUME TypeOK, WalkInv, Pages, asks.first <= 1, Feed, link' # None
    PROVE  /\ link'.page = PageNo(asks) + 1 /\ link'.size = PageSize(asks)
           /\ PageNo(asks) * PageSize(asks) < total
<1> DEFINE p == PageNo(asks)
           b == p * PageSize(asks)
<1>1. HasNext(asks, total)
  BY DEF Feed
<1>2. b < total
  BY <1>1, SmallPages DEF HasNext
<1>3. p \in Nat /\ b \in Nat /\ p <= b
  BY Paging DEF WalkInv
<1>4. total \in Nat /\ total <= Cardinality(Book)
  BY Numbers DEF TypeOK
<1> HIDE DEF p, b
<1>5. p + 1 \in -IntMax - 1..IntMax
  BY <1>2, <1>3, <1>4, Numbers
<1>6. Wrap(p + 1) = p + 1
  BY <1>3, <1>5, Wrapped
<1>7. link'.page = Wrap(p + 1) /\ link'.size = PageSize(asks)
  BY <1>1 DEF Feed, p
<1>8. QED BY <1>2, <1>6, <1>7 DEF p, b

\* Following a link, the reader goes on where the pages so far end.
LEMMA NextAsk ==
    ASSUME TypeOK, WalkInv, Pages, asks.first <= 1, Follow
    PROVE  /\ asks'.first = asks.first
           /\ PageNo(asks') = PageNo(asks) + 1 /\ PageSize(asks') = PageSize(asks)
           /\ PageNo(asks) * PageSize(asks) < Cardinality(Book)
<1>1. asks \in Ask /\ link # None /\ step = "answered"
  BY DEF WalkInv, Follow, Go
<1>2. /\ link.page = PageNo(asks) + 1 /\ link.size = PageSize(asks)
      /\ PageNo(asks) * PageSize(asks) < Cardinality(Book)
  BY <1>1 DEF Pages
<1>3. asks'.page = link.page /\ asks'.size = link.size /\ asks'.first = asks.first
  BY <1>1 DEF Follow, Ask
<1>4. PageNo(asks) \in Nat /\ PageSize(asks) \in 1..MaxSize
  BY <1>1, Paging
<1>5. PageNo(asks') = PageNo(asks) + 1
  <2>1. asks'.page = PageNo(asks) + 1
    BY <1>2, <1>3
  <2>2. ~(asks'.page < 1)
    BY <1>4, <2>1
  <2>3. QED BY <2>1, <2>2 DEF PageNo, AtLeast
<1>6. PageSize(asks') = PageSize(asks)
  <2>1. asks'.size \in 1..MaxSize /\ asks'.size = PageSize(asks)
    BY <1>2, <1>3, <1>4
  <2>2. PageSize(asks') = asks'.size
    BY <2>1 DEF PageSize
  <2>3. QED BY <2>1, <2>2
<1>7. QED BY <1>2, <1>3, <1>5, <1>6

\* Who asked first, and what a step does to the request.
LEMMA AsksMoves ==
    ASSUME WalkInv, [Next]_vars
    PROVE  /\ asks'.first = asks.first
           /\ asks' = asks \/ (Follow /\ UNCHANGED <<shelf, got, history>>)
<1>1. asks' = asks \/ (Follow /\ UNCHANGED <<shelf, got, history>>)
  BY DEF Next, Handle, Admit, Count, Find, Get, Listed, Slice, Follow, Feed,
         Change, Configure, vars, handler
<1>2. ASSUME Follow PROVE asks'.first = asks.first
  <2>1. asks \in Ask
    BY DEF WalkInv
  <2>2. QED BY <1>2, <2>1 DEF Follow, Ask
<1>3. QED BY <1>1, <1>2

LEMMA PagesInductive ==
    ASSUME TypeOK, WalkInv, Pages, [Next]_vars
    PROVE  Pages'
<1> SUFFICES ASSUME asks.first <= 1 PROVE Pages'
  BY AsksMoves DEF Pages
<1>1. CASE Follow
  <2>1. /\ PageNo(asks') = PageNo(asks) + 1 /\ PageSize(asks') = PageSize(asks)
        /\ PageNo(asks) * PageSize(asks) < Cardinality(Book)
    BY <1>1, NextAsk
  <2>2. PageNo(asks) \in Nat
    BY Paging DEF WalkInv
  <2>3. PageNo(asks') - 1 = PageNo(asks)
    BY <2>1, <2>2
  <2>4. (PageNo(asks') - 1) * PageSize(asks') < Cardinality(Book)
    BY <2>1, <2>3
  <2>5. step' = "ask"
    BY <1>1 DEF Follow, Go
  <2>6. QED BY <2>4, <2>5 DEF Pages
<1>2. CASE Feed
  <2>1. asks' = asks
    BY <1>2 DEF Feed
  <2>2. CASE link' = None
    BY <2>1, <2>2 DEF Pages
  <2>3. CASE link' # None
    <3>1. /\ link'.page = PageNo(asks) + 1 /\ link'.size = PageSize(asks)
          /\ PageNo(asks) * PageSize(asks) < total
      BY <1>2, <2>3, NextPage
    <3>2. PageNo(asks) * PageSize(asks) \in Nat /\ total \in Nat /\ total <= Cardinality(Book)
      BY Paging, Numbers DEF TypeOK, WalkInv
    <3>3. PageNo(asks) * PageSize(asks) < Cardinality(Book)
      BY <3>1, <3>2, Numbers
    <3>4. QED BY <2>1, <3>1, <3>3 DEF Pages
  <2>4. QED BY <2>2, <2>3
<1>3. CASE ~Follow /\ ~Feed
  <2>1. asks' = asks
    BY <1>3, AsksMoves
  <2>2. \/ link' = link /\ step' = step
        \/ link' = None
        \/ step' # "answered"
    BY <1>3 DEF Next, Handle, Admit, Count, Find, Get, Listed, Slice, Go, Answer,
                Change, Configure, vars, handler, WalkInv, Ask
  <2>3. QED BY <2>1, <2>2 DEF Pages
<1>4. QED BY <1>1, <1>2, <1>3

-----------------------------------------------------------------------------
(* Failing pages.                                                          *)

LEMMA FailedInductive ==
    ASSUME TypeOK, WalkInv, Failed, [Next]_vars
    PROVE  Failed'
<1>1. /\ left \in Seq(Book) /\ shelf \in Seq(Book) /\ slipped \in Nat /\ asks \in Ask
  BY DEF TypeOK, WalkInv
<1>2. CASE Handle /\ UNCHANGED <<shelf, setting, history>>
  <2>1. UNCHANGED <<shelf, slipped>>
    BY <1>2 DEF history
  <2>2. CASE Admit
    <3>1. Verdict(setting, asks) \in {200, 401, 403, 404} /\ asks.feed \in {"acquisition", "navigation"}
      BY <1>1 DEF Verdict, Ask
    <3>2. /\ step = "ask" /\ UNCHANGED <<asks, left>>
          /\ \/ step' = "answered" /\ status' \in {401, 403, 404} /\ link' = None
             \/ step' \in {"acquisition", "navigation"} /\ UNCHANGED <<status, link>>
      BY <2>2, <3>1 DEF Admit, Answer
    <3>3. QED BY <3>2 DEF Failed, FailedForCause
  <2>3. CASE Count \/ Listed
    BY <2>3 DEF Count, Listed, Go, Failed, FailedForCause
  <2>4. CASE Find
    <3>1. AtLeast(Offset(asks), 0) \in Nat /\ PageSize(asks) \in Nat
      BY <1>1, Paging, Numbers DEF AtLeast
    <3>2. PICK k \in Nat, n \in Nat : k = AtLeast(Offset(asks), 0) /\ n = PageSize(asks)
      BY <3>1
    <3>3. /\ step = "find" /\ step' = "get" /\ UNCHANGED <<asks, status, link>>
          /\ left' = PageOf(shelf, k, n)
      BY <2>4, <3>2 DEF Find, Go
    <3>4. IsInjective(shelf)
      BY DEF TypeOK
    <3>5. ToSet(left') \subseteq ToSet(shelf)
      <4>1. PICK s \in Seq(Book) : s = shelf
        BY <1>1
      <4>2. IsInjective(s)
        BY <3>4, <4>1
      <4>3. ToSet(PageOf(s, k, n)) \subseteq ToSet(s)
        BY <4>2, PageRead
      <4>4. QED BY <3>3, <4>1, <4>3
    <3>6. QED BY <2>1, <3>3, <3>5 DEF Failed, FailedForCause
  <2>5. CASE Get
    <3>1. left # << >> /\ step = "get" /\ UNCHANGED asks
      BY <2>5 DEF Get
    <3>2. ToSet(Tail(left)) \subseteq ToSet(left) /\ Head(left) \in ToSet(left)
      <4>1. /\ Tail(left) \in Seq(Book) /\ Len(Tail(left)) = Len(left) - 1
            /\ \A i \in 1..Len(Tail(left)) : Tail(left)[i] = left[i + 1]
        BY <1>1, <3>1, HeadTailProperties
      <4>2. Len(left) \in Nat /\ Len(left) >= 1
        BY <1>1, <3>1, EmptySeq, LenProperties
      <4>3. Head(left) = left[1]
        BY <1>1, <3>1
      <4>4. Head(left) \in ToSet(left)
        BY <1>1, <4>2, <4>3, Places
      <4>5. ASSUME NEW x \in ToSet(Tail(left)) PROVE x \in ToSet(left)
        <5>1. PICK i \in 1..Len(Tail(left)) : Tail(left)[i] = x
          BY <4>1, Places
        <5>2. i + 1 \in 1..Len(left) /\ left[i + 1] = x
          BY <4>1, <4>2, <5>1
        <5>3. QED BY <1>1, <5>2, Places
      <4>6. QED BY <4>4, <4>5
    <3>3. CASE Head(left) \in ToSet(shelf)
      <4>1. left' = Tail(left) /\ UNCHANGED <<step, status, link>>
        BY <2>5, <3>3 DEF Get
      <4>2. QED BY <2>1, <3>1, <3>2, <4>1 DEF Failed, FailedForCause
    <3>4. CASE Head(left) \notin ToSet(shelf)
      <4>1. step' = "answered" /\ status' = 500 /\ link' = None
        BY <2>5, <3>4 DEF Get, Answer
      <4>2. slipped > 0
        BY <3>1, <3>2, <3>4 DEF Failed
      <4>3. QED BY <2>1, <4>1, <4>2 DEF Failed, FailedForCause
    <3>5. QED BY <3>3, <3>4
  <2>6. CASE Slice
    <3>1. step = "navigation" /\ UNCHANGED asks
      BY <2>6 DEF Slice
    <3>2. CASE AtMost(Offset(asks), Len(shelf)) < 0
      <4>1. step' = "answered" /\ status' = 500 /\ link' = None
        BY <2>6, <3>2 DEF Slice, Answer
      <4>2. Offset(asks) < 0
        BY <1>1, <3>2, LenProperties DEF AtMost
      <4>3. Overflows(asks)
        <5> SUFFICES ASSUME PageNo(asks) * PageSize(asks) <= IntMax PROVE FALSE
          BY <1>1, Paging, Numbers DEF Overflows
        <5>1. PICK a : a = (PageNo(asks) - 1) * PageSize(asks)
          OBVIOUS
        <5>2. a \in Nat /\ a <= IntMax
          BY <1>1, <5>1, Paging, Numbers
        <5>3. Wrap(a) = a
          BY <5>2, Wrapped, Numbers
        <5>4. QED BY <4>2, <5>1, <5>2, <5>3 DEF Offset
      <4>4. QED BY <3>1, <4>1, <4>3 DEF Failed, FailedForCause
    <3>3. CASE ~(AtMost(Offset(asks), Len(shelf)) < 0)
      <4>1. step' = "feed" /\ UNCHANGED <<status, link>>
        BY <2>6, <3>3 DEF Slice
      <4>2. QED BY <3>1, <4>1 DEF Failed, FailedForCause
    <3>4. QED BY <3>2, <3>3
  <2>7. CASE Follow
    BY <2>7 DEF Follow, Go, Failed, FailedForCause
  <2>8. CASE Feed
    BY <2>8 DEF Feed, Failed, FailedForCause
  <2>9. QED BY <1>2, <2>2, <2>3, <2>4, <2>5, <2>6, <2>7, <2>8 DEF Handle
<1>3. CASE Change
  <2>1. /\ UNCHANGED handler
        /\ slipped' \in Nat /\ slipped' >= slipped
        /\ ToSet(shelf) \subseteq ToSet(shelf') \/ slipped' > 0
    BY <1>3, ChangeEffect
  <2>2. slipped > 0 => slipped' > 0
    BY <1>1, <2>1
  <2>3. UNCHANGED <<asks, step, left, status, link>>
    BY <2>1 DEF handler
  <2>4. QED BY <2>1, <2>2, <2>3 DEF Failed, FailedForCause
<1>4. CASE Configure \/ UNCHANGED vars
  BY <1>4 DEF Configure, vars, handler, history, Failed, FailedForCause
<1>5. QED BY <1>2, <1>3, <1>4 DEF Next

\* A page fails only when a book has left the shelf, or moved, during the walk,
\* or when the client asked for a page whose offset is not an int.
THEOREM PagesFailForCause == Spec => []FailedForCause
<1> DEFINE I == TypeOK /\ WalkInv /\ Failed
<1>1. Init => I
  <2> SUFFICES ASSUME Init PROVE I
    OBVIOUS
  <2>1. TypeOK /\ WalkInv
    BY TypeInit, WalkInit
  <2>2. Failed
    BY DEF Init, Failed, FailedForCause
  <2>3. QED BY <2>1, <2>2
<1>2. I /\ [Next]_vars => I'
  BY TypeInductive, WalkInductive, FailedInductive
<1>3. I => FailedForCause
  BY DEF Failed
<1>4. QED BY <1>1, <1>2, <1>3, PTL DEF Spec

-----------------------------------------------------------------------------
(* What a walk misses and repeats.                                         *)

\* What has been seen is listed, and there is a place up to which.
LEMMA SoFar ==
    ASSUME TypeOK, WalkInv
    PROVE  /\ Seen \in Seq(Book) /\ IsFiniteSet(ToSet(Seen)) /\ Covered \in Nat
           /\ Len(Seen) \in Nat /\ Cardinality(ToSet(Seen)) \in Nat
           /\ shelf \in Seq(Book) /\ Len(shelf) \in Nat /\ IsInjective(shelf)
           /\ IsFiniteSet(held) /\ held \subseteq ToSet(shelf)
           /\ added \in Nat /\ slipped \in Nat
           /\ PageNo(asks) \in Nat /\ PageSize(asks) \in Nat
<1>1. Seen \in Seq(Book)
  BY ConcatProperties DEF TypeOK, Seen
<1>2. IsFiniteSet(ToSet(Seen)) /\ Cardinality(ToSet(Seen)) \in Nat /\ Len(Seen) \in Nat
  BY <1>1, Listings, LenProperties, FS_CardinalityType
<1>3. /\ shelf \in Seq(Book) /\ IsInjective(shelf) /\ held \subseteq ToSet(shelf)
      /\ added \in Nat /\ slipped \in Nat /\ asks \in Ask
  BY DEF TypeOK, WalkInv
<1>4. IsFiniteSet(held) /\ Len(shelf) \in Nat
  BY <1>3, Listings, FS_Subset, LenProperties
<1>5. PageNo(asks) \in Nat /\ PageSize(asks) \in Nat /\ Covered \in Nat
  BY <1>3, Paging, Numbers DEF Covered
<1>6. QED BY <1>1, <1>2, <1>3, <1>4, <1>5

\* A walk that has not begun at the first page promises nothing.
LEMMA NoWalk ==
    ASSUME WalkInv, [Next]_vars, ~(asks.first <= 1)
    PROVE  Missed' /\ Repeated'
<1>1. asks'.first = asks.first
  BY AsksMoves
<1>2. QED BY <1>1 DEF Missed, Repeated, Walking, MissedAtMost, Walked, RepeatedAtMost

\* Where nothing of this changes, the promises stay.
LEMMA SameWalk ==
    ASSUME Missed, Repeated, Walking, Walking',
           UNCHANGED <<shelf, held, added, slipped, got>>, asks'.first = asks.first,
           Seen' = Seen, Covered' = Covered,
           step' # "find" /\ step' # "answered",
           step' \in {"get", "feed"} => step \in {"get", "feed"} /\ total' = total
    PROVE  Missed' /\ Repeated'
<1>1. Missed'
  BY DEF Missed, MissedAtMost, Walked
<1>2. Repeated'
  BY DEF Repeated, RepeatedAtMost
<1>3. QED BY <1>1, <1>2

\* An answer without a page.
LEMMA NoPage ==
    ASSUME Repeated, UNCHANGED <<got, added>>, asks'.first = asks.first,
           step' = "answered", link' = None, status' # 200
    PROVE  Missed' /\ Repeated'
BY DEF Missed, Repeated, Walking, MissedAtMost, Walked, RepeatedAtMost

\* A page takes from what is to come what it lists: what the page shows again
\* was on a page to come before, and what it should have shown it shows.
LEMMA PageTurn ==
    ASSUME TypeOK, WalkInv, Missed, Repeated, Walking, step \in {"find", "navigation"},
           UNCHANGED <<shelf, asks, got, held, added, slipped>>, step' \in {"get", "feed"},
           rows' = PageOf(shelf, Covered, PageSize(asks)), total' \in Nat,
           Cardinality((held \cap UpTo(shelf, Covered)) \ ToSet(Seen)) + Len(shelf) - total' <= slipped
    PROVE  Missed' /\ Repeated'
<1> DEFINE k == Covered
           n == PageSize(asks)
<1>1. /\ Seen = got /\ Seen' = got \o rows' /\ Covered' = k + n
      /\ k = (PageNo(asks) - 1) * n /\ Walking' /\ k \in Nat /\ n \in Nat
  <2>1. Covered = (PageNo(asks) - 1) * n /\ Covered' = PageNo(asks) * n
    BY DEF Covered
  <2>2. asks \in Ask
    BY DEF WalkInv
  <2>3. Covered \in Nat /\ n \in Nat
    BY SoFar
  <2>4. PageNo(asks) * n = (PageNo(asks) - 1) * n + n
    BY <2>2, Paging
  <2>5. Covered' = k + n
    BY <2>1, <2>4
  <2>6. Seen = got /\ Seen' = got \o rows' /\ Walking'
    BY DEF Seen, Walking
  <2>7. QED BY <2>1, <2>3, <2>5, <2>6
<1>2. /\ shelf \in Seq(Book) /\ IsInjective(shelf) /\ Len(shelf) \in Nat /\ got \in Seq(Book)
      /\ IsFiniteSet(held) /\ held \subseteq ToSet(shelf) /\ slipped \in Nat /\ added \in Nat
  BY <1>1, SoFar
<1> HIDE DEF k, n
<1>3. PICK r : r = PageOf(shelf, k, n)
  OBVIOUS
<1>4. /\ r \in Seq(Book) /\ IsInjective(r)
      /\ UpTo(shelf, k + n) = UpTo(shelf, k) \cup ToSet(r)
      /\ Beyond(shelf, k) = Beyond(shelf, k + n) \cup ToSet(r)
      /\ Beyond(shelf, k + n) \cap ToSet(r) = {}
  BY <1>1, <1>2, <1>3, PageRead
<1>5. rows' = r /\ Seen' = got \o r
  BY <1>1, <1>3 DEF k, n
<1>6. ToSet(got \o r) = ToSet(got) \cup ToSet(r) /\ Len(got \o r) = Len(got) + Len(r)
  <2>1. /\ got \o r \in Seq(Book) /\ Len(got \o r) = Len(got) + Len(r)
        /\ \A i \in 1..Len(got) + Len(r) :
              (got \o r)[i] = IF i <= Len(got) THEN got[i] ELSE r[i - Len(got)]
    BY <1>2, <1>4, ConcatProperties
  <2>2. Len(got) \in Nat /\ Len(r) \in Nat
    BY <1>2, <1>4, LenProperties
  <2>3. ASSUME NEW x \in ToSet(got \o r) PROVE x \in ToSet(got) \cup ToSet(r)
    <3>1. PICK i \in 1..Len(got) + Len(r) : (got \o r)[i] = x
      <4>1. PICK u \in Seq(Book) : u = got \o r
        BY <2>1
      <4>2. \E i \in 1..Len(u) : u[i] = x
        BY <2>3, <4>1, Places
      <4>3. QED BY <2>1, <4>1, <4>2
    <3>2. CASE i <= Len(got)
      <4>1. i \in 1..Len(got) /\ got[i] = x
        BY <2>1, <2>2, <3>1, <3>2
      <4>2. QED BY <1>2, <4>1, Places
    <3>3. CASE i > Len(got)
      <4>1. i - Len(got) \in 1..Len(r) /\ r[i - Len(got)] = x
        BY <2>1, <2>2, <3>1, <3>3
      <4>2. QED BY <1>4, <4>1, Places
    <3>4. QED BY <2>2, <3>2, <3>3
  <2>4. ASSUME NEW x \in ToSet(got) PROVE x \in ToSet(got \o r)
    <3>1. PICK i \in 1..Len(got) : got[i] = x
      BY <1>2, Places
    <3>2. i \in 1..Len(got \o r) /\ (got \o r)[i] = x
      BY <2>1, <2>2, <3>1
    <3>3. QED BY <2>1, <3>2, Places
  <2>5. ASSUME NEW x \in ToSet(r) PROVE x \in ToSet(got \o r)
    <3>1. PICK i \in 1..Len(r) : r[i] = x
      BY <1>4, Places
    <3>2. Len(got) + i \in 1..Len(got) + Len(r) /\ ~(Len(got) + i <= Len(got))
          /\ (Len(got) + i) - Len(got) = i
      BY <2>2
    <3>3. (got \o r)[Len(got) + i] = x
      BY <2>1, <3>1, <3>2
    <3>4. QED BY <2>1, <3>2, <3>3, Places
  <2>6. QED BY <2>1, <2>3, <2>4, <2>5
<1>7. /\ IsFiniteSet(ToSet(got)) /\ IsFiniteSet(ToSet(r)) /\ IsFiniteSet(UpTo(shelf, k))
      /\ IsFiniteSet(Beyond(shelf, k + n)) /\ IsFiniteSet(Beyond(shelf, k))
      /\ Cardinality(ToSet(r)) = Len(r)
  BY <1>1, <1>2, <1>4, Listings, Injected
<1> DEFINE A == (held \cap UpTo(shelf, k)) \ ToSet(got)
<1>8. /\ Cardinality(A) <= slipped /\ Cardinality(A) \in Nat /\ IsFiniteSet(A)
      /\ Cardinality(A) + Len(shelf) - total' <= slipped
  <2>1. Cardinality(A) <= slipped /\ Cardinality(A) + Len(shelf) - total' <= slipped
    BY <1>1 DEF Missed, k
  <2>2. IsFiniteSet(A) /\ Cardinality(A) \in Nat
    BY <1>2, NoMore
  <2>3. QED BY <2>1, <2>2
<1>9. Cardinality((held \cap UpTo(shelf, k + n)) \ ToSet(got \o r)) <= slipped
  <2>1. (held \cap UpTo(shelf, k + n)) \ ToSet(got \o r) \subseteq A
    BY <1>4, <1>6
  <2>2. /\ Cardinality((held \cap UpTo(shelf, k + n)) \ ToSet(got \o r)) \in Nat
        /\ Cardinality((held \cap UpTo(shelf, k + n)) \ ToSet(got \o r)) <= Cardinality(A)
    BY <1>8, <2>1, NoMore
  <2>3. QED BY <1>2, <1>8, <2>2
<1>10. ASSUME k + n >= total' PROVE Cardinality(held \ ToSet(got \o r)) <= slipped
  <2>1. held \ ToSet(got \o r) \subseteq A \cup Beyond(shelf, k + n)
    <3>1. \A x \in ToSet(shelf) : x \in UpTo(shelf, k + n) \/ x \in Beyond(shelf, k + n)
      <4> TAKE x \in ToSet(shelf)
      <4>1. PICK i \in 1..Len(shelf) : shelf[i] = x
        BY <1>2, Places
      <4>2. i <= k + n \/ i > k + n
        BY <1>1, <1>2
      <4>3. QED BY <1>1, <1>2, <4>1, <4>2, Places
    <3>2. QED BY <1>2, <1>4, <1>6, <3>1
  <2>2. k + n \in Nat
    BY <1>1
  <2>3. /\ Cardinality(Beyond(shelf, k + n)) <= IF k + n < Len(shelf) THEN Len(shelf) - (k + n) ELSE 0
        /\ Cardinality(Beyond(shelf, k + n)) \in Nat
    BY <1>2, <1>7, <2>2, FewBeyond, FS_CardinalityType
  <2>4. /\ IsFiniteSet(A \cup Beyond(shelf, k + n))
        /\ Cardinality(A \cup Beyond(shelf, k + n)) =
             Cardinality(A) + Cardinality(Beyond(shelf, k + n)) - Cardinality(A \cap Beyond(shelf, k + n))
    BY <1>7, <1>8, FS_Union
  <2>5. Cardinality(A \cap Beyond(shelf, k + n)) \in Nat
    BY <1>8, NoMore
  <2>6. /\ Cardinality(held \ ToSet(got \o r)) <= Cardinality(A \cup Beyond(shelf, k + n))
        /\ Cardinality(held \ ToSet(got \o r)) \in Nat
        /\ Cardinality(A \cup Beyond(shelf, k + n)) \in Nat
    BY <2>1, <2>4, NoMore
  <2> DEFINE a == Cardinality(A)
             b == Cardinality(Beyond(shelf, k + n))
             m == Cardinality(held \ ToSet(got \o r))
  <2>7. a \in Nat /\ b \in Nat /\ m \in Nat /\ m <= a + b
    BY <1>8, <2>3, <2>4, <2>5, <2>6
  <2>8. /\ a <= slipped /\ a + Len(shelf) - total' <= slipped
        /\ b <= IF k + n < Len(shelf) THEN Len(shelf) - (k + n) ELSE 0
    BY <1>8, <2>3
  <2> HIDE DEF a, b, m
  <2>9. m <= slipped
    BY <1>2, <1>10, <2>2, <2>7, <2>8
  <2>10. QED BY <2>9 DEF m
<1>11. Missed'
  <2>1. step' # "find" /\ step' # "answered"
    OBVIOUS
  <2>2. Covered' = k + n /\ Seen' = got \o r
    BY <1>1, <1>5
  <2>3. QED BY <1>9, <1>10, <2>1, <2>2 DEF Missed, MissedAtMost, Walked
<1>12. Len(got \o r) - Cardinality(ToSet(got \o r))
          + Cardinality(ToSet(got \o r) \cap Beyond(shelf, k + n)) <= added
  <2> DEFINE G == ToSet(got)
             R == ToSet(r)
             B == Beyond(shelf, k + n)
  <2>1. Len(got) - Cardinality(G) + Cardinality(G \cap Beyond(shelf, k)) <= added
    BY <1>1 DEF Repeated, k
  <2>2. Cardinality(G \cup R) = Cardinality(G) + Cardinality(R) - Cardinality(G \cap R)
    BY <1>7, FS_Union
  <2>3. (G \cup R) \cap B = G \cap B
    BY <1>4
  <2>4. /\ G \cap Beyond(shelf, k) = (G \cap B) \cup (G \cap R)
        /\ (G \cap B) \cap (G \cap R) = {}
    BY <1>4
  <2>5. IsFiniteSet(G \cap B) /\ IsFiniteSet(G \cap R)
    BY <1>7, FS_Intersection
  <2>6. Cardinality(G \cap Beyond(shelf, k)) =
          Cardinality(G \cap B) + Cardinality(G \cap R) - Cardinality({})
    BY <2>4, <2>5, FS_Union
  <2>7. /\ Cardinality({}) = 0 /\ Cardinality(G) \in Nat /\ Cardinality(R) \in Nat
        /\ Cardinality(G \cap B) \in Nat /\ Cardinality(G \cap R) \in Nat
        /\ Len(got) \in Nat /\ Len(r) \in Nat
    BY <1>2, <1>4, <1>7, <2>5, FS_EmptySet, FS_CardinalityType, LenProperties
  <2>8. Cardinality(ToSet(got \o r)) = Cardinality(G) + Len(r) - Cardinality(G \cap R)
    BY <1>6, <1>7, <2>2
  <2>9. Cardinality(ToSet(got \o r) \cap B) = Cardinality(G \cap B)
    BY <1>6, <2>3
  <2>10. Len(got \o r) = Len(got) + Len(r)
    BY <1>6
  <2> HIDE DEF G, R, B
  <2>11. Len(got \o r) - Cardinality(ToSet(got \o r)) + Cardinality(ToSet(got \o r) \cap B) <= added
    BY <1>2, <2>1, <2>6, <2>7, <2>8, <2>9, <2>10
  <2>12. QED BY <2>11 DEF B
<1>13. Repeated'
  <2>1. Covered' = k + n /\ Seen' = got \o r
    BY <1>1, <1>5
  <2>2. QED BY <1>12, <2>1 DEF Repeated, RepeatedAtMost
<1>14. QED BY <1>11, <1>13

\* The last page shows what the pages before it have left.
LEMMA LastPage ==
    ASSUME TypeOK, WalkInv, Pages, Missed, Repeated, Walking, Feed,
           UNCHANGED <<shelf, history>>
    PROVE  Missed' /\ Repeated'
<1>1. /\ step = "feed" /\ step' = "answered" /\ got' = got \o rows
      /\ UNCHANGED <<asks, rows, total, shelf, held, added, slipped>>
  BY DEF Feed, Go, history
<1>2. Seen' = Seen /\ Seen = got' /\ Covered' = Covered
  BY <1>1 DEF Seen, Covered
<1>3. Repeated'
  <2>1. Len(Seen) - Cardinality(ToSet(Seen))
          + Cardinality(ToSet(Seen) \cap Beyond(shelf, Covered)) <= added
    BY DEF Repeated
  <2>2. /\ Len(Seen) \in Nat /\ Cardinality(ToSet(Seen)) \in Nat /\ added \in Nat
        /\ Cardinality(ToSet(Seen) \cap Beyond(shelf, Covered)) \in Nat
    BY SoFar, NoMore
  <2>3. Len(Seen) - Cardinality(ToSet(Seen)) <= added
    BY <2>1, <2>2
  <2>4. QED BY <1>1, <1>2, <2>1, <2>3 DEF Repeated, RepeatedAtMost
<1>4. Cardinality((held \cap UpTo(shelf, Covered)) \ ToSet(Seen)) <= slipped
  BY DEF Missed
<1>5. CASE link' # None
  <2>1. Missed'
    BY <1>1, <1>2, <1>4, <1>5 DEF Missed, MissedAtMost, Walked
  <2>2. QED BY <1>3, <2>1
<1>6. CASE link' = None
  <2>1. ~HasNext(asks, total)
    <3> SUFFICES ASSUME HasNext(asks, total) PROVE FALSE
      OBVIOUS
    <3>1. link' = [page |-> Wrap(PageNo(asks) + 1), size |-> PageSize(asks),
                   scheme |-> Origin(asks, row.base),
                   via |-> IF row.base # None THEN "proxy" ELSE asks.via,
                   since |-> row.at]
      BY DEF Feed
    <3>2. asks \in Ask /\ row \in Setting
      BY DEF WalkInv
    <3>3. Wrap(PageNo(asks) + 1) \in -IntMax - 1..IntMax /\ PageSize(asks) \in 1..MaxSize
      BY <3>2, Paging, Wrapped
    <3>4. /\ Origin(asks, row.base) \in Scheme
          /\ (IF row.base # None THEN "proxy" ELSE asks.via) \in {"proxy", "direct"}
          /\ row.at \in 0..MaxSettings
      BY <3>2 DEF Origin, Setting, Ask
    <3>5. link' \in Link
      BY <3>1, <3>3, <3>4 DEF Link
    <3>6. QED BY <1>6, <3>5, LinkAssumption
  <2>2. asks.first <= 1 /\ Covered = PageNo(asks) * PageSize(asks)
    BY <1>1 DEF Walking, Covered
  <2>3. ~(Covered < total)
    BY <2>1, <2>2, SmallPages DEF HasNext
  <2>4. Covered \in Nat /\ total \in Nat
    BY SoFar, Numbers DEF TypeOK
  <2>5. Cardinality(held \ ToSet(Seen)) <= slipped
    BY <1>1, <2>3, <2>4 DEF Missed
  <2>6. QED
    BY <1>1, <1>2, <1>3, <1>6, <2>5 DEF Missed, MissedAtMost, Walking
<1>7. QED BY <1>3, <1>5, <1>6

\* A change of the shelf lets pass, or brings back, at most the one book it counts.
LEMMA ChangedWalk ==
    ASSUME TypeOK, WalkInv, Missed, Repeated, Change
    PROVE  Missed' /\ Repeated'
<1>1. /\ UNCHANGED <<asks, step, total, rows, status, link, got>>
      /\ held' \subseteq held /\ added' \in Nat /\ slipped' \in Nat /\ slipped' >= slipped
  BY ChangeEffect DEF handler
<1>2. Seen' = Seen /\ Covered' = Covered /\ (Walking' <=> Walking)
  BY <1>1 DEF Seen, Covered, Walking
<1>3. /\ IsFiniteSet(held) /\ IsFiniteSet(ToSet(Seen)) /\ Covered \in Nat
      /\ Len(Seen) \in Nat /\ Cardinality(ToSet(Seen)) \in Nat
      /\ shelf \in Seq(Book) /\ Len(shelf) \in Nat /\ added \in Nat /\ slipped \in Nat
  BY SoFar
<1>4. Len(shelf') \in Nat /\ total \in Nat
  <2>1. shelf' \in Seq(Book)
    BY ChangeEffect
  <2>2. QED BY <2>1, LenProperties, Numbers DEF TypeOK
<1> DEFINE A == (held \cap UpTo(shelf, Covered)) \ ToSet(Seen)
           B == (held' \cap UpTo(shelf', Covered)) \ ToSet(Seen)
           C == ToSet(Seen) \cap Beyond(shelf, Covered)
           D == ToSet(Seen) \cap Beyond(shelf', Covered)
<1>5. IsFiniteSet(A) /\ IsFiniteSet(C)
  BY <1>3, NoMore
<1>6. /\ Cardinality(A) \in Nat /\ Cardinality(B) \in Nat
      /\ \/ /\ Len(shelf') = Len(shelf) + 1
            /\ slipped' = slipped + (IF step = "find" THEN 1 ELSE 0)
            /\ Cardinality(B) <= Cardinality(A)
         \/ /\ Len(shelf') <= Len(shelf) /\ slipped' = slipped + 1
            /\ Cardinality(B) <= Cardinality(A) + 1
  <2>1. CASE /\ Len(shelf') = Len(shelf) + 1
             /\ slipped' = slipped + (IF step = "find" THEN 1 ELSE 0)
             /\ \A k \in Nat : held' \cap UpTo(shelf', k) \subseteq held \cap UpTo(shelf, k)
    <3>1. B \subseteq A
      BY <1>3, <2>1
    <3>2. QED BY <1>5, <2>1, <3>1, NoMore
  <2>2. CASE /\ Len(shelf') <= Len(shelf) /\ slipped' = slipped + 1
             /\ \A k \in Nat : \E c : held' \cap UpTo(shelf', k)
                                        \subseteq (held \cap UpTo(shelf, k)) \cup {c}
    <3>1. PICK c : held' \cap UpTo(shelf', Covered) \subseteq (held \cap UpTo(shelf, Covered)) \cup {c}
      BY <1>3, <2>2
    <3>2. B \subseteq A \cup {c}
      BY <3>1
    <3> HIDE DEF A, B
    <3>3. Cardinality(A) \in Nat /\ Cardinality(B) \in Nat /\ Cardinality(B) <= Cardinality(A) + 1
      BY <1>5, <3>2, OneMore
    <3>4. QED BY <2>2, <3>3
  <2>3. QED BY <2>1, <2>2, ChangeEffect
<1>7. /\ Cardinality(C) \in Nat /\ Cardinality(D) \in Nat /\ added' >= added
      /\ Cardinality(D) - Cardinality(C) <= added' - added
  <2>1. CASE added' = added /\ \A k \in Nat : Beyond(shelf', k) \subseteq Beyond(shelf, k)
    <3>1. D \subseteq C
      BY <1>3, <2>1
    <3>2. Cardinality(D) \in Nat /\ Cardinality(C) \in Nat /\ Cardinality(D) <= Cardinality(C)
      BY <1>5, <3>1, NoMore
    <3>3. QED BY <1>3, <2>1, <3>2
  <2>2. CASE /\ added' = added + 1
             /\ \A k \in Nat : \E c : Beyond(shelf', k) \subseteq Beyond(shelf, k) \cup {c}
    <3>1. PICK c : Beyond(shelf', Covered) \subseteq Beyond(shelf, Covered) \cup {c}
      BY <1>3, <2>2
    <3>2. D \subseteq C \cup {c}
      BY <3>1
    <3>3. Cardinality(D) \in Nat /\ Cardinality(C) \in Nat /\ Cardinality(D) <= Cardinality(C) + 1
      BY <1>5, <3>2, OneMore
    <3>4. QED BY <1>3, <2>2, <3>3
  <2>3. QED BY <2>1, <2>2, ChangeEffect
<1>8. /\ Cardinality(held' \ ToSet(Seen)) <= Cardinality(held \ ToSet(Seen))
      /\ Cardinality(held' \ ToSet(got)) <= Cardinality(held \ ToSet(got))
      /\ Cardinality(held \ ToSet(Seen)) \in Nat /\ Cardinality(held' \ ToSet(Seen)) \in Nat
      /\ Cardinality(held \ ToSet(got)) \in Nat /\ Cardinality(held' \ ToSet(got)) \in Nat
  <2>1. /\ IsFiniteSet(held \ ToSet(Seen)) /\ held' \ ToSet(Seen) \subseteq held \ ToSet(Seen)
        /\ IsFiniteSet(held \ ToSet(got)) /\ held' \ ToSet(got) \subseteq held \ ToSet(got)
    BY <1>1, <1>3, FS_Difference
  <2>2. QED BY <2>1, NoMore
<1>9. Missed'
  <2>1. ASSUME Walking PROVE Cardinality(B) <= slipped'
    <3>1. Cardinality(A) <= slipped
      BY <2>1 DEF Missed
    <3>2. QED BY <1>1, <1>3, <1>6, <3>1
  <2>2. ASSUME Walking, step = "find" PROVE Cardinality(B) + Len(shelf') - total <= slipped'
    <3>1. Cardinality(A) + Len(shelf) - total <= slipped
      BY <2>2 DEF Missed
    <3>2. QED BY <1>1, <1>3, <1>4, <1>6, <2>2, <3>1
  <2>3. ASSUME Walking, step \in {"get", "feed"}, Covered >= total
        PROVE  Cardinality(held' \ ToSet(Seen)) <= slipped'
    <3>1. Cardinality(held \ ToSet(Seen)) <= slipped
      BY <2>3 DEF Missed
    <3>2. QED BY <1>1, <1>3, <1>8, <3>1
  <2>4. ASSUME Walked PROVE Cardinality(held' \ ToSet(got)) <= slipped'
    <3>1. Cardinality(held \ ToSet(got)) <= slipped
      BY <2>4 DEF Missed, MissedAtMost
    <3>2. QED BY <1>1, <1>3, <1>8, <3>1
  <2>5. MissedAtMost'
    BY <1>1, <2>4 DEF MissedAtMost, Walked
  <2>6. QED BY <1>1, <1>2, <2>1, <2>2, <2>3, <2>5 DEF Missed
<1>10. Repeated'
  <2>1. ASSUME Walking PROVE Len(Seen) - Cardinality(ToSet(Seen)) + Cardinality(D) <= added'
    <3>1. Len(Seen) - Cardinality(ToSet(Seen)) + Cardinality(C) <= added
      BY <2>1 DEF Repeated
    <3>2. QED BY <1>1, <1>3, <1>7, <3>1
  <2>2. ASSUME asks.first <= 1 PROVE Len(got) - Cardinality(ToSet(got)) <= added'
    <3>1. Len(got) - Cardinality(ToSet(got)) <= added
      BY <2>2 DEF Repeated, RepeatedAtMost
    <3>2. got \in Seq(Book)
      BY DEF TypeOK
    <3>3. Len(got) \in Nat /\ Cardinality(ToSet(got)) \in Nat
      BY <3>2, Listings, LenProperties, FS_CardinalityType
    <3>4. QED BY <1>1, <1>3, <1>7, <3>1, <3>3
  <2>3. RepeatedAtMost'
    BY <1>1, <2>2 DEF RepeatedAtMost
  <2>4. QED BY <1>1, <1>2, <2>1, <2>3 DEF Repeated
<1>11. QED BY <1>9, <1>10

LEMMA WalksInductive ==
    ASSUME TypeOK, WalkInv, Pages, Missed, Repeated, [Next]_vars
    PROVE  Missed' /\ Repeated'
<1> SUFFICES ASSUME asks.first <= 1 PROVE Missed' /\ Repeated'
  BY NoWalk
<1>1. asks'.first = asks.first
  BY AsksMoves
<1>2. /\ asks \in Ask /\ shelf \in Seq(Book) /\ Len(shelf) \in Nat
      /\ Covered \in Nat /\ PageSize(asks) \in Nat /\ slipped \in Nat
  BY SoFar DEF WalkInv
<1>3. CASE Handle /\ UNCHANGED <<shelf, setting, history>>
  <2>1. UNCHANGED <<shelf, held, added, slipped>>
    BY <1>3 DEF history
  <2>2. CASE Admit /\ UNCHANGED got
    <3>1. asks.feed \in {"acquisition", "navigation"}
      BY <1>2 DEF Ask
    <3>2. /\ step = "ask" /\ UNCHANGED <<asks, rows>>
          /\ \/ step' = "answered" /\ status' # 200 /\ link' = None
             \/ step' \in {"acquisition", "navigation"}
      BY <2>2, <3>1 DEF Admit, Answer
    <3>3. CASE step' = "answered" /\ status' # 200 /\ link' = None
      BY <1>1, <2>1, <2>2, <3>3, NoPage
    <3>4. CASE step' \in {"acquisition", "navigation"}
      <4>1. Walking /\ Walking' /\ Seen' = Seen /\ Covered' = Covered
        BY <2>2, <3>2, <3>4 DEF Walking, Seen, Covered
      <4>2. QED BY <1>1, <2>1, <2>2, <3>4, <4>1, SameWalk
    <3>5. QED BY <3>2, <3>3, <3>4
  <2>3. CASE Count /\ UNCHANGED got
    <3>1. /\ step = "acquisition" /\ step' = "find" /\ total' = Len(shelf) /\ UNCHANGED <<asks, rows>>
      BY <2>3 DEF Count, Go
    <3>2. Walking /\ Walking' /\ Seen' = Seen /\ Covered' = Covered
      BY <2>3, <3>1 DEF Walking, Seen, Covered
    <3>3. Cardinality((held \cap UpTo(shelf, Covered)) \ ToSet(Seen)) <= slipped
      BY <3>2 DEF Missed
    <3>4. IsFiniteSet(held)
      BY SoFar
    <3>5. Cardinality((held \cap UpTo(shelf, Covered)) \ ToSet(Seen)) \in Nat
      BY <3>4, NoMore
    <3>6. Cardinality((held \cap UpTo(shelf, Covered)) \ ToSet(Seen)) + Len(shelf) - total' <= slipped
      BY <1>2, <3>1, <3>3, <3>5
    <3>7. Missed'
      BY <2>1, <3>1, <3>2, <3>3, <3>6 DEF Missed, MissedAtMost, Walked
    <3>8. Repeated'
      BY <1>1, <2>1, <2>3, <3>2 DEF Repeated, RepeatedAtMost
    <3>9. QED BY <3>7, <3>8
  <2>4. CASE Find /\ UNCHANGED got
    <3>1. /\ step = "find" /\ step' = "get" /\ UNCHANGED <<asks, total>>
          /\ rows' = PageOf(shelf, AtLeast(Offset(asks), 0), PageSize(asks))
      BY <2>4 DEF Find, Go
    <3>2. Offset(asks) = Covered /\ Walking
      BY <3>1, SmallPages DEF Covered, Walking
    <3>3. AtLeast(Offset(asks), 0) = Covered
      BY <1>2, <3>2 DEF AtLeast
    <3>4. total' \in Nat
      BY <3>1, Numbers DEF TypeOK
    <3>5. Cardinality((held \cap UpTo(shelf, Covered)) \ ToSet(Seen)) + Len(shelf) - total' <= slipped
      BY <3>1, <3>2 DEF Missed
    <3>6. QED BY <2>1, <2>4, <3>1, <3>2, <3>3, <3>4, <3>5, PageTurn
  <2>5. CASE Get /\ UNCHANGED got
    <3>1. /\ step = "get" /\ UNCHANGED <<asks, total, rows>>
          /\ step' = "get" \/ (step' = "answered" /\ status' # 200 /\ link' = None)
      BY <2>5 DEF Get, Answer
    <3>2. CASE step' = "get"
      <4>1. Walking /\ Walking' /\ Seen' = Seen /\ Covered' = Covered
        BY <2>5, <3>1, <3>2 DEF Walking, Seen, Covered
      <4>2. QED BY <1>1, <2>1, <2>5, <3>1, <3>2, <4>1, SameWalk
    <3>3. CASE step' = "answered" /\ status' # 200 /\ link' = None
      BY <1>1, <2>1, <2>5, <3>3, NoPage
    <3>4. QED BY <3>1, <3>2, <3>3
  <2>6. CASE Listed /\ UNCHANGED got
    <3>1. step = "get" /\ step' = "feed" /\ UNCHANGED <<asks, total, rows>>
      BY <2>6 DEF Listed, Go
    <3>2. Walking /\ Walking' /\ Seen' = Seen /\ Covered' = Covered
      BY <2>6, <3>1 DEF Walking, Seen, Covered
    <3>3. QED BY <1>1, <2>1, <2>6, <3>1, <3>2, SameWalk
  <2>7. CASE Slice /\ UNCHANGED got
    <3>1. step = "navigation" /\ total' = Len(shelf) /\ UNCHANGED asks
      BY <2>7 DEF Slice
    <3>2. Offset(asks) = Covered /\ Walking
      BY <3>1, SmallPages DEF Covered, Walking
    <3>3. PICK from : from = AtMost(Offset(asks), Len(shelf))
      OBVIOUS
    <3>4. from \in Nat /\ (from = Covered \/ (from = Len(shelf) /\ Covered > from))
      BY <1>2, <3>2, <3>3 DEF AtMost
    <3>5. rows' = PageOf(shelf, from, PageSize(asks)) /\ step' = "feed"
      BY <1>2, <2>7, <3>3, <3>4 DEF Slice
    <3>6. PageOf(shelf, from, PageSize(asks)) = PageOf(shelf, Covered, PageSize(asks))
      <4>1. CASE from = Covered
        BY <4>1
      <4>2. CASE from = Len(shelf) /\ Covered > from
        <5>1. PICK k \in Nat, l \in Nat, n \in Nat :
                 k = Covered /\ l = Len(shelf) /\ n = PageSize(asks)
          BY <1>2
        <5>2. AtMost(l + n, l) = l /\ AtMost(k + n, l) = l /\ l < l + 1 /\ l < k + 1
          BY <4>2, <5>1 DEF AtMost
        <5>3. SubSeq(shelf, l + 1, l) = << >> /\ SubSeq(shelf, k + 1, l) = << >>
          BY <5>1, <5>2, SubSeqEmpty
        <5>4. QED BY <4>2, <5>1, <5>2, <5>3 DEF PageOf
      <4>3. QED BY <3>4, <4>1, <4>2
    <3>7. Cardinality((held \cap UpTo(shelf, Covered)) \ ToSet(Seen)) <= slipped
      BY <3>2 DEF Missed
    <3>8. IsFiniteSet(held)
      BY SoFar
    <3>9. Cardinality((held \cap UpTo(shelf, Covered)) \ ToSet(Seen)) \in Nat
      BY <3>8, NoMore
    <3>10. Cardinality((held \cap UpTo(shelf, Covered)) \ ToSet(Seen)) + Len(shelf) - total' <= slipped
      BY <1>2, <3>1, <3>7, <3>9
    <3>11. rows' = PageOf(shelf, Covered, PageSize(asks)) /\ total' \in Nat
      BY <1>2, <3>1, <3>5, <3>6
    <3>12. QED BY <2>1, <2>7, <3>1, <3>2, <3>5, <3>10, <3>11, PageTurn
  <2>8. CASE Follow /\ UNCHANGED got
    <3>1. step = "answered" /\ step' = "ask" /\ link # None /\ UNCHANGED <<rows, total>>
      BY <2>8 DEF Follow, Go
    <3>2. PageNo(asks') = PageNo(asks) + 1 /\ PageSize(asks') = PageSize(asks)
      BY <2>8, NextAsk
    <3>3. PageNo(asks) \in Nat
      BY <1>2, Paging
    <3>4. PageNo(asks') - 1 = PageNo(asks)
      BY <3>2, <3>3
    <3>5. Walking /\ Walking' /\ Seen' = Seen /\ Covered' = Covered
      BY <1>1, <2>8, <3>1, <3>2, <3>4 DEF Walking, Seen, Covered
    <3>6. QED BY <1>1, <2>1, <2>8, <3>1, <3>5, SameWalk
  <2>9. CASE Feed
    <3>1. Walking
      BY <2>9 DEF Walking, Feed
    <3>2. UNCHANGED <<shelf, history>>
      BY <1>3
    <3>3. QED BY <2>9, <3>1, <3>2, LastPage
  <2>10. QED BY <1>3, <2>2, <2>3, <2>4, <2>5, <2>6, <2>7, <2>8, <2>9 DEF Handle
<1>4. CASE Change
  BY <1>4, ChangedWalk
<1>5. CASE Configure \/ UNCHANGED vars
  <2>1. UNCHANGED <<shelf, asks, step, total, rows, status, link, got, held, added, slipped>>
    BY <1>5 DEF Configure, vars, handler, history
  <2>2. QED BY <2>1 DEF Missed, Repeated, Walking, Walked, Seen, Covered, MissedAtMost, RepeatedAtMost
<1>6. QED BY <1>3, <1>4, <1>5 DEF Next

LEMMA WalksInit == Init => Pages /\ Missed /\ Repeated
<1> SUFFICES ASSUME Init PROVE Pages /\ Missed /\ Repeated
  OBVIOUS
<1>1. TypeOK /\ WalkInv
  BY TypeInit, WalkInit
<1>2. /\ step = "ask" /\ got = << >> /\ status = 0 /\ link = None /\ added = 0 /\ slipped = 0
  BY DEF Init
<1>3. asks.first = asks.page
  BY DEF Init
<1>4. ASSUME asks.first <= 1 PROVE PageNo(asks) = 1 /\ Covered = 0
  <2>1. asks \in Ask
    BY <1>1 DEF WalkInv
  <2>2. asks.page \in Int
    BY <2>1 DEF Ask
  <2>3. PageNo(asks) = 1
    BY <1>3, <1>4, <2>2 DEF PageNo, AtLeast
  <2>4. PageSize(asks) \in Nat
    BY <2>1, Paging, Numbers
  <2>5. Covered = (1 - 1) * PageSize(asks)
    BY <1>2, <2>3 DEF Covered
  <2>6. QED BY <2>3, <2>4, <2>5
<1>5. Pages
  BY <1>2, <1>4 DEF Pages
<1>6. /\ Seen = << >> /\ << >> \in Seq(Book) /\ Len(<< >>) = 0 /\ ToSet(<< >>) = {}
      /\ Cardinality({}) = 0
  BY <1>2, EmptySeq, FS_EmptySet DEF Seen, ToSet
<1>7. UpTo(shelf, 0) = {}
  BY SoFar, <1>1, Places
<1>8. Missed
  <2>1. (held \cap UpTo(shelf, 0)) \ ToSet(Seen) = {}
    BY <1>7
  <2>2. asks.first <= 1 => Cardinality((held \cap UpTo(shelf, Covered)) \ ToSet(Seen)) <= slipped
    BY <1>2, <1>4, <1>6, <2>1
  <2>3. QED BY <1>2, <2>2 DEF Missed, Walking, MissedAtMost, Walked
<1>9. Repeated
  <2>1. ToSet(Seen) \cap Beyond(shelf, Covered) = {}
    BY <1>6
  <2>2. /\ Len(Seen) = 0 /\ Cardinality(ToSet(Seen)) = 0
        /\ Cardinality(ToSet(Seen) \cap Beyond(shelf, Covered)) = 0
    BY <1>6, <2>1
  <2>3. Len(got) - Cardinality(ToSet(got)) <= added
    <3>1. got = Seen
      BY <1>2, <1>6
    <3>2. Len(got) = 0 /\ Cardinality(ToSet(got)) = 0
      BY <2>2, <3>1
    <3>3. QED BY <1>2, <3>2
  <2>4. QED BY <1>2, <2>2, <2>3 DEF Repeated, RepeatedAtMost
<1>10. QED BY <1>5, <1>8, <1>9

\* What the model of a walk keeps: types, the numbers of pages, and the accounts
\* of what was missed, shown twice and failed.
THEOREM ReadInvariance == Spec => []ReadInv
<1> DEFINE I == ReadInv /\ WalkInv
<1>1. Init => I
  <2> SUFFICES ASSUME Init PROVE I
    OBVIOUS
  <2>1. Failed
    BY DEF Init, Failed, FailedForCause
  <2>2. QED BY <2>1, TypeInit, WalkInit, WalksInit DEF ReadInv
<1>2. I /\ [Next]_vars => I'
  <2> SUFFICES ASSUME I, [Next]_vars PROVE I'
    OBVIOUS
  <2>1. TypeOK /\ WalkInv /\ Pages /\ Missed /\ Repeated /\ Failed
    BY DEF ReadInv
  <2>2. TypeOK' /\ WalkInv'
    BY <2>1, TypeInductive, WalkInductive
  <2>3. Pages' /\ Failed'
    BY <2>1, PagesInductive, FailedInductive
  <2>4. Missed' /\ Repeated'
    BY <2>1, WalksInductive
  <2>5. QED BY <2>2, <2>3, <2>4 DEF ReadInv
<1>3. QED BY <1>1, <1>2, PTL DEF Spec

\* A walk from the first page misses no more of what stayed on the shelf than
\* entries went or moved meanwhile, or came between Count and Find of a page.
THEOREM WalksMissFew == Spec => []MissedAtMost
<1>1. ReadInv => MissedAtMost
  BY DEF ReadInv, Missed
<1>2. QED BY <1>1, ReadInvariance, PTL

\* It gets no more entries twice than entries came or moved meanwhile.
THEOREM WalksRepeatFew == Spec => []RepeatedAtMost
<1>1. ReadInv => RepeatedAtMost
  BY DEF ReadInv, Repeated
<1>2. QED BY <1>1, ReadInvariance, PTL
=============================================================================
