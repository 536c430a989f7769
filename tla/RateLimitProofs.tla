-------------------------- MODULE RateLimitProofs --------------------------
(***************************************************************************)
(* The bounds of RateLimit, for every limit, window, delay and number of   *)
(* clients.  IInv says of every request let pass in which window it was    *)
(* counted; TwiceTheLimit and RefusedLate follow from it.                  *)
(***************************************************************************)
EXTENDS RateLimit, TLAPS

USE LimitAssumption, WindowAssumption

\* Initially nobody has been let pass.
LEMMA InitIInv == Init => IInv
  BY DEF Init, IInv, TypeOK, OnTime, Windows, Placed, TwiceTheLimit, Visitor

-----------------------------------------------------------------------------
\* Appending: what is there stays, and the new element is the last.
LEMMA AppendFacts ==
  ASSUME NEW s \in Seq(Nat), NEW e \in Nat
  PROVE  /\ Append(s, e) \in Seq(Nat)
         /\ Len(s) \in Nat
         /\ Len(Append(s, e)) = Len(s) + 1
         /\ \A i \in 1..Len(s) : Append(s, e)[i] = s[i] /\ s[i] \in Nat
         /\ Append(s, e)[Len(s) + 1] = e
  OBVIOUS

\* What lies in a window that is over lies before the window that follows.
LEMMA WindowOver ==
  ASSUME NEW a \in Nat, NEW b \in Nat, NEW now \in Nat, now > b,
         a <= b - Window + Delay
  PROVE  /\ a < (now + Window) - 2 * Window + Delay
         /\ a <= (now + Window) - Window + Delay
  OBVIOUS

\* One more request in the open window.
LEMMA OneMore ==
  ASSUME NEW c \in Nat, NEW n \in Nat, c < Limit, c <= n
  PROVE  c + 1 <= Limit /\ c + 1 <= n + 1 /\ (n + 1) - (c + 1) = n - c
  OBVIOUS

\* The request 2 * Limit before the next one is not in the open window, nor
\* among the Limit requests before it.
LEMMA FarBack ==
  ASSUME NEW i \in Nat, NEW n \in Nat, NEW c \in Nat,
         i > 0, c < Limit, i + 2 * Limit = n + 1
  PROVE  i \in 1..n /\ i <= n - c - Limit
  OBVIOUS

\* What is that far back is more than Window - Delay ago.
LEMMA FarApart ==
  ASSUME NEW a \in Nat, NEW now \in Nat, NEW b \in Nat,
         a < b - 2 * Window + Delay, b <= now + Window
  PROVE  now - a > Window - Delay
  OBVIOUS

\* The visitor a request finds: every request let pass lies where its window
\* says, and the clock is no later than the end of it and the delay.
LEMMA EntryFacts ==
  ASSUME IInv, NEW r \in Req, waiting[r] # None
  PROVE  /\ waiting[r] \in Request
         /\ Entry(waiting[r]) \in Visitor
         /\ Placed(passed[waiting[r].of], Entry(waiting[r]))
         /\ clock <= Entry(waiting[r]).reset + Delay
  <1> DEFINE w == waiting[r]
             k == w.of
             u == visitors[k]
             s == passed[k]
  <1>1. /\ w \in Request /\ k \in Client /\ w.now \in Nat
        /\ u \in Visitor /\ u.count \in Nat /\ u.reset \in Nat
        /\ s \in Seq(Nat) /\ Len(s) \in Nat /\ clock \in Nat
        /\ \A i \in 1..Len(s) : s[i] \in Nat
        BY DEF IInv, TypeOK, Request, Visitor
  <1>2. w.now <= clock /\ clock <= w.now + Delay
        BY DEF IInv, OnTime
  <1>3. Placed(s, u)
        BY <1>1 DEF IInv, Windows
  <1> HIDE DEF w, k, u, s
  <1>4. CASE w.now > u.reset
    <2> DEFINE v == [count |-> 0, reset |-> w.now + Window]
    <2>1. Entry(w) = v /\ v \in Visitor /\ v.count = 0
          /\ v.reset = w.now + Window
          BY <1>1, <1>4 DEF Entry, Visitor, w, k, u
    <2> HIDE DEF v
    <2>2. ASSUME NEW i \in 1..Len(s)
          PROVE  /\ s[i] <= clock
                 /\ s[i] <= v.reset - Window + Delay
                 /\ i <= Len(s) - Limit => s[i] < v.reset - 2 * Window + Delay
      <3>1. /\ s[i] \in Nat /\ i \in Nat /\ s[i] <= clock
            /\ i <= Len(s) - u.count => s[i] <= u.reset - Window + Delay
            /\ u.count <= Limit
            BY <1>1, <1>3 DEF Placed
      <3>2. s[i] <= (w.now + Window) - Window + Delay
            BY <1>1, <1>2, <3>1
      <3>3. ASSUME i <= Len(s) - Limit
            PROVE  s[i] < (w.now + Window) - 2 * Window + Delay
        <4>1. s[i] <= u.reset - Window + Delay
              BY <1>1, <3>1, <3>3
        <4>. QED  BY <1>1, <1>4, <3>1, <4>1, WindowOver
      <3>. QED  BY <2>1, <3>1, <3>2, <3>3
    <2>4. v.reset <= clock + Window /\ clock <= v.reset + Delay
          BY <1>1, <1>2, <2>1
    <2>5. Placed(s, v)
          BY <1>1, <2>1, <2>2, <2>4 DEF Placed
    <2>. QED  BY <1>1, <2>1, <2>4, <2>5 DEF s, k, w
  <1>5. CASE ~(w.now > u.reset)
    <2>1. Entry(w) = u
          BY <1>5 DEF Entry, u, k, w
    <2>. QED  BY <1>1, <1>2, <1>3, <1>5, <2>1 DEF s, k, w
  <1>. QED  BY <1>4, <1>5

-----------------------------------------------------------------------------
\* Time goes on: every bound that mentions the clock only gets weaker.
LEMMA TickKeeps == ASSUME IInv, Tick PROVE IInv'
  <1>1. TypeOK'
        BY DEF IInv, TypeOK, Tick
  <1>2. OnTime'
    <2> SUFFICES ASSUME NEW r \in Req, waiting[r] # None
                 PROVE  waiting[r].now <= clock + 1 /\ clock + 1 <= waiting[r].now + Delay
        BY DEF OnTime, Tick
    <2>1. /\ clock \in Nat /\ waiting[r].now \in Nat
          /\ waiting[r].now <= clock /\ clock < waiting[r].now + Delay
          BY DEF IInv, TypeOK, Request, OnTime, Tick
    <2>. QED  BY <2>1
  <1>3. Windows'
    <2> SUFFICES ASSUME NEW k \in Client PROVE Placed(passed[k], visitors[k])'
        BY DEF Windows
    <2>1. Placed(passed[k], visitors[k])
          BY DEF IInv, Windows
    <2>2. /\ passed' = passed /\ visitors' = visitors
          /\ clock \in Nat /\ clock' = clock + 1
          /\ passed[k] \in Seq(Nat) /\ visitors[k].reset \in Nat
          /\ \A i \in 1..Len(passed[k]) : passed[k][i] \in Nat
          BY DEF IInv, TypeOK, Tick, Visitor
    <2>. QED  BY <2>1, <2>2 DEF Placed
  <1>4. TwiceTheLimit'
        BY DEF IInv, TwiceTheLimit, Tick
  <1>. QED  BY <1>1, <1>2, <1>3, <1>4 DEF IInv

\* A request that arrives reads the clock.
LEMMA ArriveKeeps ==
  ASSUME IInv, NEW r \in Req, NEW k \in Client, Arrive(r, k)
  PROVE  IInv'
  <1>1. TypeOK'
        BY DEF IInv, TypeOK, Arrive, Request
  <1>2. OnTime'
        BY NoneIsNoRequest DEF IInv, TypeOK, OnTime, Arrive
  <1>3. Windows' /\ TwiceTheLimit'
        BY DEF IInv, Windows, Placed, TwiceTheLimit, Arrive
  <1>. QED  BY <1>1, <1>2, <1>3 DEF IInv

\* A request that is refused changes no visitor.
LEMMA RefuseKeeps == ASSUME IInv, NEW r \in Req, Refuse(r) PROVE IInv'
  <1>1. TypeOK'
        BY DEF IInv, TypeOK, Refuse
  <1>2. OnTime'
        BY DEF IInv, TypeOK, OnTime, Refuse
  <1>3. Windows' /\ TwiceTheLimit'
        BY DEF IInv, Windows, Placed, TwiceTheLimit, Refuse
  <1>. QED  BY <1>1, <1>2, <1>3 DEF IInv

\* A request that is let pass is the last of the open window; the request
\* 2 * Limit before it belongs to the window before the one before.
LEMMA PassKeeps == ASSUME IInv, NEW r \in Req, Pass(r) PROVE IInv'
  <1> DEFINE w == waiting[r]
             k == w.of
             v == Entry(w)
             s == passed[k]
             t == Append(s, clock)
             u == [v EXCEPT !.count = v.count + 1]
  <1>1. /\ w # None /\ w \in Request /\ k \in Client
        /\ v \in Visitor /\ v.count \in Nat /\ v.reset \in Nat
        /\ v.count < Limit
        /\ s \in Seq(Nat) /\ clock \in Nat
        BY EntryFacts DEF Pass, IInv, TypeOK, Request, Visitor
  <1>2. Placed(s, v)
        BY EntryFacts DEF Pass
  <1>3. /\ visitors' = [visitors EXCEPT ![k] = u]
        /\ passed' = [passed EXCEPT ![k] = t]
        /\ waiting' = [waiting EXCEPT ![r] = None]
        /\ clock' = clock
        BY DEF Pass
  <1>4. /\ t \in Seq(Nat) /\ Len(s) \in Nat /\ Len(t) = Len(s) + 1
        /\ \A i \in 1..Len(s) : t[i] = s[i] /\ s[i] \in Nat
        /\ t[Len(s) + 1] = clock
        BY <1>1, AppendFacts
  <1>5. u \in Visitor /\ u.count = v.count + 1 /\ u.reset = v.reset
        BY <1>1 DEF Visitor
  <1>0. Limit \in Nat /\ Limit > 0 /\ 2 * Limit = Limit + Limit
        OBVIOUS
  <1> HIDE DEF w, k, v, s, t, u
  <1>6. TypeOK'
        BY <1>1, <1>3, <1>4, <1>5 DEF IInv, TypeOK
  <1>7. OnTime'
        BY <1>3 DEF IInv, TypeOK, OnTime
  <1>8. Placed(t, u)
    <2>0. v.count <= Len(s) /\ v.reset <= clock + Window
          BY <1>2 DEF Placed
    <2>1. /\ u.count <= Limit /\ u.count <= Len(t) /\ u.reset <= clock + Window
          /\ Len(t) - u.count = Len(s) - v.count
          BY <1>1, <1>4, <1>5, <2>0, OneMore
    <2>2. ASSUME NEW i \in 1..Len(t)
          PROVE  /\ t[i] <= clock
                 /\ i > Len(s) - v.count => t[i] >= v.reset - Window
                 /\ i <= Len(s) - v.count => t[i] <= v.reset - Window + Delay
                 /\ i <= Len(s) - v.count - Limit =>
                        t[i] < v.reset - 2 * Window + Delay
      <3>1. CASE i \in 1..Len(s)
            BY <1>2, <1>4, <3>1 DEF Placed
      <3>2. CASE i = Len(s) + 1
        <4>1. t[i] = clock /\ ~(i <= Len(s) - v.count)
              /\ ~(i <= Len(s) - v.count - Limit)
              BY <1>1, <1>4, <3>2
        <4>. QED  BY <1>1, <1>5, <2>1, <4>1
      <3>. QED  BY <1>4, <3>1, <3>2
    <2>. QED  BY <1>5, <2>1, <2>2 DEF Placed
  <1>9. ASSUME NEW j \in Client
        PROVE  \/ j = k /\ passed'[j] = t /\ visitors'[j] = u
               \/ passed'[j] = passed[j] /\ visitors'[j] = visitors[j]
        BY <1>3 DEF IInv, TypeOK
  <1>10. Windows'
    <2> SUFFICES ASSUME NEW j \in Client
                 PROVE  Placed(passed[j], visitors[j])'
        BY DEF Windows
    <2>1. Placed(passed'[j], visitors'[j])
          BY <1>8, <1>9 DEF IInv, Windows
    <2>. QED  BY <1>3, <2>1 DEF Placed
  <1>11. \A i \in 1..Len(t) : i + 2 * Limit <= Len(t) =>
             t[i + 2 * Limit] - t[i] > Window - Delay
    <2> SUFFICES ASSUME NEW i \in 1..Len(t), i + 2 * Limit <= Len(t)
                 PROVE  t[i + 2 * Limit] - t[i] > Window - Delay
        OBVIOUS
    <2> DEFINE j == i + 2 * Limit
    <2>0. i \in Nat /\ i > 0 /\ j \in Nat /\ j = i + Limit + Limit
          /\ j <= Len(s) + 1 /\ i < j
          BY <1>0, <1>4
    <2>1. CASE j <= Len(s)
      <3>1. i \in 1..Len(s) /\ j \in 1..Len(s)
            BY <1>4, <2>0, <2>1
      <3>2. s[j] - s[i] > Window - Delay
            BY <1>1, <2>1, <3>1 DEF IInv, TwiceTheLimit, s
      <3>. QED  BY <1>4, <3>1, <3>2
    <2>2. CASE j = Len(s) + 1
      <3> HIDE DEF j
      <3>1. i \in 1..Len(s) /\ i <= Len(s) - v.count - Limit
            BY <1>1, <1>4, <2>0, <2>2, FarBack DEF j
      <3>2. s[i] < v.reset - 2 * Window + Delay /\ v.reset <= clock + Window
            BY <1>2, <3>1 DEF Placed
      <3>3. t[j] = clock /\ t[i] = s[i] /\ s[i] \in Nat
            BY <1>4, <2>2, <3>1
      <3>4. t[j] - t[i] > Window - Delay
        <4>1. clock - s[i] > Window - Delay
              BY <1>1, <3>2, <3>3, FarApart
        <4>. QED  BY <3>3, <4>1
      <3>. QED  BY <3>4 DEF j
    <2>3. j <= Len(s) \/ j = Len(s) + 1
      <3> HIDE DEF j
      <3>. QED  BY <1>4, <2>0
    <2>. QED  BY <2>1, <2>2, <2>3
  <1>12. TwiceTheLimit'
        BY <1>9, <1>11 DEF IInv, TwiceTheLimit
  <1>. QED  BY <1>6, <1>7, <1>10, <1>12 DEF IInv

\* Every step keeps the invariant.
LEMMA NextIInv == IInv /\ [Next]_vars => IInv'
  <1> SUFFICES ASSUME IInv, [Next]_vars PROVE IInv'
      OBVIOUS
  <1>1. CASE Tick
        BY <1>1, TickKeeps
  <1>2. ASSUME NEW r \in Req, NEW k \in Client, Arrive(r, k) PROVE IInv'
        BY <1>2, ArriveKeeps
  <1>3. ASSUME NEW r \in Req, Pass(r) PROVE IInv'
        BY <1>3, PassKeeps
  <1>4. ASSUME NEW r \in Req, Refuse(r) PROVE IInv'
        BY <1>4, RefuseKeeps
  <1>5. CASE UNCHANGED vars
        BY <1>5 DEF vars, IInv, TypeOK, OnTime, Windows, Placed, TwiceTheLimit
  <1>. QED  BY <1>1, <1>2, <1>3, <1>4, <1>5 DEF Next

\* A request is refused when Limit requests were counted in the open window,
\* which began at most Window + Delay ago.
LEMMA RefusedIsLate ==
  ASSUME IInv, NEW r \in Req, Refuse(r)
  PROVE  Recent(waiting[r].of)
  <1> DEFINE k == waiting[r].of
             v == Entry(waiting[r])
             s == passed[k]
  <1>1. /\ k \in Client /\ v \in Visitor /\ v.count \in Nat /\ v.reset \in Nat
        /\ v.count >= Limit /\ clock <= v.reset + Delay
        /\ Placed(s, v)
        BY EntryFacts DEF Refuse, Request, Visitor
  <1>2. /\ s \in Seq(Nat) /\ Len(s) \in Nat /\ clock \in Nat
        /\ \A i \in 1..Len(s) : s[i] \in Nat
        BY <1>1 DEF IInv, TypeOK
  <1> HIDE DEF k, v, s
  <1>3. /\ Len(s) >= Limit /\ Len(s) - Limit + 1 \in 1..Len(s)
        /\ Len(s) - Limit + 1 > Len(s) - v.count
        BY <1>1, <1>2 DEF Placed
  <1>4. s[Len(s) - Limit + 1] >= v.reset - Window
        BY <1>1, <1>2, <1>3 DEF Placed
  <1>5. clock - s[Len(s) - Limit + 1] <= Window + Delay
        BY <1>1, <1>2, <1>3, <1>4
  <1>. QED  BY <1>3, <1>5 DEF Recent, s, k

-----------------------------------------------------------------------------
\* The inductive invariant of the rate limiter.
THEOREM Invariance == Spec => []IInv
  BY InitIInv, NextIInv, PTL DEF Spec

\* Of 2 * Limit + 1 requests of one client that LoginRateLimit let pass, the
\* first and the last are more than Window - Delay apart.
THEOREM AtMostTwice == Spec => []TwiceTheLimit
  <1>1. IInv => TwiceTheLimit
        BY DEF IInv
  <1>. QED  BY <1>1, Invariance, PTL

\* LoginRateLimit refuses a request only when Limit requests of its client
\* were let pass within the last Window + Delay.
THEOREM NobodyRefusedEarly == Spec => RefusedLate
  <1>1. IInv => [\A r \in Req : Refuse(r) => Recent(waiting[r].of)]_vars
        BY RefusedIsLate
  <1>. QED  BY <1>1, Invariance, PTL DEF RefusedLate
=============================================================================
