------------------------------ MODULE RateLimit ------------------------------
(***************************************************************************)
(* The rate limiter of logins, uploads and imports (internal/middleware):  *)
(* a map from client address to a count and the end of its window.  A      *)
(* request reads the clock before it waits for the mutex, so its time may  *)
(* be stale when it is counted, and requests may be counted out of order.  *)
(* Each of the three routes has a map of its own: a client here is an      *)
(* address on one route.                                                   *)
(***************************************************************************)
EXTENDS Integers, Sequences

CONSTANTS
    Client,   \* addresses
    Req,      \* goroutines that serve requests, one request after the other
    Limit,    \* requests a window lets pass
    Window,   \* how long a window lasts
    Delay,    \* how long a request may wait for the mutex
    MaxTime,  \* the last moment
    None      \* no request

ASSUME LimitAssumption  == Limit \in Nat \ {0}
ASSUME WindowAssumption == Window \in Nat /\ Delay \in Nat
ASSUME TimeAssumption   == MaxTime \in Nat
ASSUME NoneIsNoRequest  == None \notin [of : Client, now : Nat]

VARIABLES
    clock,
    waiting,   \* waiting[r]: the request in hand, its client and time
    visitors,  \* visitors[k]: the count of address k and the end of its window
    passed     \* history: passed[k], when requests of k were let pass

vars == <<clock, waiting, visitors, passed>>

Request == [of : Client, now : Nat]
Visitor == [count : Nat, reset : Nat]

Tick ==
    /\ clock < MaxTime
    /\ \A r \in Req : waiting[r] # None => clock < waiting[r].now + Delay
    /\ clock' = clock + 1
    /\ UNCHANGED <<waiting, visitors, passed>>

Arrive(r, k) ==
    /\ waiting[r] = None
    /\ waiting' = [waiting EXCEPT ![r] = [of |-> k, now |-> clock]]
    /\ UNCHANGED <<clock, visitors, passed>>

\* Mutant: the window begins anew with every request.
SlidingEntry(w) ==
    LET v == visitors[w.of] IN
    IF w.now > v.reset
    THEN [count |-> 0, reset |-> w.now + Window]
    ELSE [v EXCEPT !.reset = w.now + Window]

\* Mutant: the count is reset at every request of a later moment.
ForgetfulEntry(w) ==
    LET v == visitors[w.of] IN
    IF w.now + Window > v.reset
    THEN [count |-> 0, reset |-> w.now + Window] ELSE v

\* The visitor as w finds it, or a new one when its window is over.
Entry(w) ==
    LET v == visitors[w.of] IN
    IF w.now > v.reset THEN [count |-> 0, reset |-> w.now + Window] ELSE v

Pass(r) ==
    LET w == waiting[r] IN
    /\ w # None
    /\ Entry(w).count < Limit
    /\ visitors' = [visitors EXCEPT ![w.of] =
                       [Entry(w) EXCEPT !.count = Entry(w).count + 1]]
    /\ passed' = [passed EXCEPT ![w.of] = Append(passed[w.of], clock)]
    /\ waiting' = [waiting EXCEPT ![r] = None]
    /\ UNCHANGED clock

\* 429; the map is left as it is.
Refuse(r) ==
    /\ waiting[r] # None
    /\ Entry(waiting[r]).count >= Limit
    /\ waiting' = [waiting EXCEPT ![r] = None]
    /\ UNCHANGED <<clock, visitors, passed>>

Init ==
    /\ clock = 1
    /\ waiting = [r \in Req |-> None]
    /\ visitors = [k \in Client |-> [count |-> 0, reset |-> 0]]
    /\ passed = [k \in Client |-> << >>]

Next ==
    \/ Tick
    \/ \E r \in Req : Pass(r) \/ Refuse(r) \/ \E k \in Client : Arrive(r, k)

Spec == Init /\ [][Next]_vars

-----------------------------------------------------------------------------
\* Every variable has its type.
TypeOK ==
    /\ clock \in Nat \ {0}
    /\ waiting \in [Req -> Request \cup {None}]
    /\ visitors \in [Client -> Visitor]
    /\ passed \in [Client -> Seq(Nat)]

\* Twice the limit at most: of 2 * Limit + 1 requests of one client that were
\* let pass, the first and the last are more than Window - Delay apart.  The
\* fixed window lets that many pass around its end, the stale clock of a
\* request that waited costs Delay, and nothing makes it worse.
TwiceTheLimit ==
    \A k \in Client : \A i \in 1..Len(passed[k]) :
        i + 2 * Limit <= Len(passed[k]) =>
            passed[k][i + 2 * Limit] - passed[k][i] > Window - Delay

\* Nobody is refused early: when a request is refused, Limit requests of its
\* client have been let pass within the last Window + Delay.
Recent(k) ==
    /\ Len(passed[k]) >= Limit
    /\ clock - passed[k][Len(passed[k]) - Limit + 1] <= Window + Delay

RefusedLate == [][\A r \in Req : Refuse(r) => Recent(waiting[r].of)]_vars

-----------------------------------------------------------------------------
(* The inductive invariant: which of the requests let pass (at the times   *)
(* s) were counted in the window of v, which is open (the last count of    *)
(* them), in the one before (at most Limit), and earlier.                  *)

Placed(s, v) ==
    LET before == Len(s) - v.count IN
    /\ v.count <= Limit
    /\ v.count <= Len(s)
    /\ v.reset <= clock + Window
    /\ \A i \in 1..Len(s) :
          /\ s[i] <= clock
          /\ i > before => s[i] >= v.reset - Window
          /\ i <= before => s[i] <= v.reset - Window + Delay
          /\ i <= before - Limit => s[i] < v.reset - 2 * Window + Delay

Windows == \A k \in Client : Placed(passed[k], visitors[k])

\* A request waits for the mutex no longer than Delay.
OnTime ==
    \A r \in Req : waiting[r] # None =>
        waiting[r].now <= clock /\ clock <= waiting[r].now + Delay

IInv == TypeOK /\ OnTime /\ Windows /\ TwiceTheLimit
=============================================================================
