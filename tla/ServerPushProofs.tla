--------------------------- MODULE ServerPushProofs ---------------------------
(***************************************************************************)
(* What the server pushes is heard in order and by whom it was meant for:  *)
(* HeardInOrder of ServerPush, for any number of browsers and pushes.      *)
(***************************************************************************)
EXTENDS ServerPush, TLAPS

-----------------------------------------------------------------------------
(* The line of a browser: what it has heard, then what it is going to hear. *)

Line(h, q) == h \o [i \in DOMAIN q |-> q[i].id]

\* What HeardInOrder says of one browser, and that no push comes before it is
\* made.
LineOK(e, s) ==
  /\ \A i \in DOMAIN s : s[i] \in 1..npushes /\ e \in audience[s[i]]
  /\ \A i, j \in DOMAIN s : i < j => s[i] < s[j]

PushInv ==
  /\ npushes \in Nat
  /\ npushes <= MaxPushes
  /\ heard \in [Conns -> Seq(Notes)]
  /\ s2c \in [Conns -> Seq(Notifications)]
  /\ DOMAIN audience = Notes
  /\ \A e \in Conns : LineOK(e, Line(heard[e], s2c[e]))

LEMMA LineIndices ==
  ASSUME NEW h \in Seq(Notes), NEW q \in Seq(Notifications)
  PROVE  /\ Len(h) \in Nat /\ Len(q) \in Nat
         /\ DOMAIN Line(h, q) = 1..(Len(h) + Len(q))
         /\ \A i \in 1..Len(h) : Line(h, q)[i] = h[i]
         /\ \A i \in 1..Len(q) : Line(h, q)[Len(h) + i] = q[i].id
<1> DEFINE t == [i \in DOMAIN q |-> q[i].id]
<1>1. /\ DOMAIN q = 1..Len(q) /\ Len(q) \in Nat /\ Len(h) \in Nat
      /\ \A i \in 1..Len(q) : q[i].id \in Notes
  <2>1. DOMAIN q = 1..Len(q) /\ Len(q) \in Nat /\ Len(h) \in Nat
    OBVIOUS
  <2>2. \A i \in 1..Len(q) : q[i] \in Notifications
    BY <2>1
  <2> QED BY <2>1, <2>2 DEF Notifications
<1>2. t \in Seq(Notes) /\ Len(t) = Len(q) /\ \A i \in 1..Len(q) : t[i] = q[i].id
  BY <1>1
<1> HIDE DEF t
<1>3. Line(h, q) = h \o t
  BY DEF Line, t
<1> QED BY <1>1, <1>2, <1>3

\* One more push at the end of a line.
LEMMA LineGrows ==
  ASSUME NEW h \in Seq(Notes), NEW q \in Seq(Notifications), NEW m \in Notifications,
         NEW i \in DOMAIN Line(h, Append(q, m))
  PROVE  \/ i \in DOMAIN Line(h, q) /\ Line(h, Append(q, m))[i] = Line(h, q)[i]
         \/ /\ \A j \in DOMAIN Line(h, Append(q, m)) : j <= i
            /\ Line(h, Append(q, m))[i] = m.id
<1>1. PICK r : r = Append(q, m)
  OBVIOUS
<1>2. /\ r \in Seq(Notifications) /\ Len(r) = Len(q) + 1
      /\ r[Len(q) + 1] = m /\ \A j \in 1..Len(q) : r[j] = q[j]
  BY <1>1
<1>3. /\ DOMAIN Line(h, r) = 1..(Len(h) + Len(r))
      /\ \A j \in 1..Len(h) : Line(h, r)[j] = h[j]
      /\ \A j \in 1..Len(r) : Line(h, r)[Len(h) + j] = r[j].id
  BY <1>2, LineIndices
<1>4. /\ DOMAIN Line(h, q) = 1..(Len(h) + Len(q)) /\ Len(h) \in Nat /\ Len(q) \in Nat
      /\ \A j \in 1..Len(h) : Line(h, q)[j] = h[j]
      /\ \A j \in 1..Len(q) : Line(h, q)[Len(h) + j] = q[j].id
  BY LineIndices
<1>5. i \in 1..(Len(h) + (Len(q) + 1))
  BY <1>1, <1>2, <1>3
<1> SUFFICES \/ i \in DOMAIN Line(h, q) /\ Line(h, r)[i] = Line(h, q)[i]
             \/ (\A j \in DOMAIN Line(h, r) : j <= i) /\ Line(h, r)[i] = m.id
  BY <1>1
<1>6. CASE i <= Len(h)
  <2>1. i \in 1..Len(h) /\ i \in DOMAIN Line(h, q)
    BY <1>4, <1>5, <1>6
  <2> QED BY <1>3, <1>4, <2>1
<1>7. CASE i > Len(h) /\ i <= Len(h) + Len(q)
  <2>1. PICK k : k = i - Len(h)
    OBVIOUS
  <2>2. k \in 1..Len(q) /\ k \in 1..Len(r) /\ Len(h) + k = i /\ i \in DOMAIN Line(h, q)
    BY <1>2, <1>4, <1>5, <1>7, <2>1
  <2>3. Line(h, r)[Len(h) + k] = q[k].id /\ Line(h, q)[Len(h) + k] = q[k].id
    BY <1>2, <1>3, <1>4, <2>2
  <2> QED BY <2>2, <2>3
<1>8. CASE i = Len(h) + (Len(q) + 1)
  <2>1. Len(q) + 1 \in 1..Len(r)
    BY <1>2, <1>4
  <2>2. Line(h, r)[Len(h) + (Len(q) + 1)] = m.id
    BY <1>2, <1>3, <2>1
  <2>3. \A j \in DOMAIN Line(h, r) : j <= i
    BY <1>2, <1>3, <1>4, <1>8
  <2> QED BY <1>8, <2>2, <2>3
<1>9. i <= Len(h) \/ (i > Len(h) /\ i <= Len(h) + Len(q)) \/ i = Len(h) + (Len(q) + 1)
  <2>1. \A a, b \in Nat : \A k \in 1..(a + (b + 1)) :
          k <= a \/ (k > a /\ k <= a + b) \/ k = a + (b + 1)
    OBVIOUS
  <2> QED BY <1>4, <1>5, <2>1
<1> QED BY <1>6, <1>7, <1>8, <1>9

\* Hearing moves a push from one part of the line to the other.
LEMMA LineAdvances ==
  ASSUME NEW h \in Seq(Notes), NEW q \in Seq(Notifications), q # <<>>
  PROVE  /\ Append(h, Head(q).id) \in Seq(Notes) /\ Tail(q) \in Seq(Notifications)
         /\ DOMAIN Line(Append(h, Head(q).id), Tail(q)) = DOMAIN Line(h, q)
         /\ \A i \in DOMAIN Line(h, q) :
              Line(Append(h, Head(q).id), Tail(q))[i] = Line(h, q)[i]
<1>1. PICK x, g, t : x = Head(q).id /\ g = Append(h, x) /\ t = Tail(q)
  OBVIOUS
<1>2. /\ Len(q) \in Nat \ {0} /\ Len(h) \in Nat /\ q[1] \in Notifications /\ x = q[1].id
      /\ t \in Seq(Notifications) /\ Len(t) = Len(q) - 1
      /\ \A i \in 1..(Len(q) - 1) : t[i] = q[i + 1]
  BY <1>1
<1>3. x \in Notes
  BY <1>2 DEF Notifications
<1>4. /\ g \in Seq(Notes) /\ Len(g) = Len(h) + 1
      /\ g[Len(h) + 1] = x /\ \A i \in 1..Len(h) : g[i] = h[i]
  BY <1>1, <1>3
<1>5. /\ DOMAIN Line(g, t) = 1..(Len(g) + Len(t))
      /\ \A i \in 1..Len(g) : Line(g, t)[i] = g[i]
      /\ \A i \in 1..Len(t) : Line(g, t)[Len(g) + i] = t[i].id
  BY <1>2, <1>4, LineIndices
<1>6. /\ DOMAIN Line(h, q) = 1..(Len(h) + Len(q))
      /\ \A i \in 1..Len(h) : Line(h, q)[i] = h[i]
      /\ \A i \in 1..Len(q) : Line(h, q)[Len(h) + i] = q[i].id
  BY LineIndices
<1>7. Len(g) + Len(t) = Len(h) + Len(q)
  BY <1>2, <1>4
<1>8. ASSUME NEW i \in 1..(Len(h) + Len(q))
      PROVE  Line(g, t)[i] = Line(h, q)[i]
  <2>1. CASE i <= Len(h)
    <3>1. i \in 1..Len(h) /\ i \in 1..Len(g)
      BY <1>2, <1>4, <2>1
    <3> QED BY <1>4, <1>5, <1>6, <3>1
  <2>2. CASE i = Len(h) + 1
    <3>1. i \in 1..Len(g) /\ 1 \in 1..Len(q)
      BY <1>2, <1>4, <2>2
    <3>2. Line(g, t)[i] = x /\ Line(h, q)[Len(h) + 1] = x
      BY <1>2, <1>4, <1>5, <1>6, <2>2, <3>1
    <3> QED BY <2>2, <3>2
  <2>3. CASE i > Len(h) + 1
    <3>1. PICK k : k = i - Len(h) - 1
      OBVIOUS
    <3>2. /\ k \in 1..(Len(q) - 1) /\ k \in 1..Len(t) /\ k + 1 \in 1..Len(q)
          /\ Len(g) + k = i /\ Len(h) + (k + 1) = i
      BY <1>2, <1>4, <2>3, <3>1
    <3>3. Line(g, t)[Len(g) + k] = q[k + 1].id /\ Line(h, q)[Len(h) + (k + 1)] = q[k + 1].id
      BY <1>2, <1>5, <1>6, <3>2
    <3> QED BY <3>2, <3>3
  <2> QED BY <1>2, <2>1, <2>2, <2>3
<1> QED BY <1>1, <1>2, <1>4, <1>5, <1>6, <1>7, <1>8

-----------------------------------------------------------------------------
(* The steps.                                                               *)

\* Pushes already made keep their audience.
LEMMA LinesKept ==
  ASSUME PushInv, UNCHANGED <<heard, s2c>>,
         npushes' \in Nat, npushes <= npushes', npushes' <= MaxPushes,
         DOMAIN audience' = Notes,
         \A n \in 1..npushes : audience'[n] = audience[n]
  PROVE  PushInv'
<1>1. ASSUME NEW e \in Conns
      PROVE  LineOK(e, Line(heard[e], s2c[e]))'
  <2>1. PICK s : s = Line(heard[e], s2c[e])
    OBVIOUS
  <2>2. \A i \in DOMAIN s : s[i] \in 1..npushes /\ e \in audience[s[i]]
    BY <2>1 DEF PushInv, LineOK
  <2>3. 1..npushes \subseteq 1..npushes'
    BY DEF PushInv
  <2>4. \A i \in DOMAIN s : s[i] \in 1..npushes' /\ e \in audience'[s[i]]
    BY <2>2, <2>3
  <2>5. \A i, j \in DOMAIN s : i < j => s[i] < s[j]
    BY <2>1 DEF PushInv, LineOK
  <2>6. Line(heard'[e], s2c'[e]) = s
    BY <2>1
  <2> QED BY <2>4, <2>5, <2>6 DEF LineOK
<1> QED BY <1>1 DEF PushInv

LEMMA NotifyKeeps ==
  ASSUME PushInv, NEW e \in Conns, SocketNotify(e)
  PROVE  PushInv'
<1>1. PICK n : n = npushes + 1
  OBVIOUS
<1>2. /\ npushes \in Nat /\ n \in Nat /\ n > npushes /\ npushes' = n /\ n <= MaxPushes /\ n \in Notes
      /\ audience' = [audience EXCEPT ![n] = {e}]
      /\ s2c' = s2c \/ s2c' = [s2c EXCEPT ![e] = Append(@, Notification(n))]
      /\ UNCHANGED heard
  BY <1>1, PushAssumption, JsonRpcAssumption
  DEF SocketNotify, NextPush, NotifyOnly, ServerSends, PushInv, Notes
<1>3. /\ DOMAIN audience' = Notes /\ audience'[n] = {e}
      /\ \A k \in 1..npushes : audience'[k] = audience[k]
  BY <1>2 DEF PushInv, Notes
<1>4. CASE s2c' = s2c
  BY <1>2, <1>3, <1>4, LinesKept
<1>5. CASE s2c' = [s2c EXCEPT ![e] = Append(@, Notification(n))]
  <2>1. Notification(n) \in Notifications /\ Notification(n).id = n
    BY <1>2 DEF Notification, Notifications
  <2>2. /\ s2c' \in [Conns -> Seq(Notifications)] /\ s2c'[e] = Append(s2c[e], Notification(n))
        /\ \A d \in Conns : d # e => s2c'[d] = s2c[d]
    BY <1>5, <2>1 DEF PushInv
  <2>3. ASSUME NEW d \in Conns
        PROVE  LineOK(d, Line(heard[d], s2c[d]))'
    <3>1. PICK s, t : s = Line(heard[d], s2c[d]) /\ t = Line(heard'[d], s2c'[d])
      OBVIOUS
    <3>2. /\ \A i \in DOMAIN s : s[i] \in 1..npushes /\ d \in audience'[s[i]] /\ s[i] < n
          /\ \A i, j \in DOMAIN s : i < j => s[i] < s[j]
      <4>1. /\ \A i \in DOMAIN s : s[i] \in 1..npushes /\ d \in audience[s[i]]
            /\ \A i, j \in DOMAIN s : i < j => s[i] < s[j]
        BY <3>1 DEF PushInv, LineOK
      <4> QED BY <1>2, <1>3, <4>1
    <3>3. \A i \in DOMAIN t : \/ i \in DOMAIN s /\ t[i] = s[i]
                              \/ d = e /\ (\A j \in DOMAIN t : j <= i) /\ t[i] = n
      <4>1. CASE d = e
        <5>1. heard[d] \in Seq(Notes) /\ s2c[d] \in Seq(Notifications)
          BY DEF PushInv
        <5>2. t = Line(heard[d], Append(s2c[d], Notification(n)))
          BY <1>2, <2>2, <3>1, <4>1
        <5> QED BY <2>1, <3>1, <4>1, <5>1, <5>2, LineGrows
      <4>2. CASE d # e
        BY <1>2, <2>2, <3>1, <4>2
      <4> QED BY <4>1, <4>2
    <3>4. DOMAIN t \subseteq Nat
      <4>1. t = Line(heard'[d], s2c'[d]) /\ heard'[d] \in Seq(Notes) /\ s2c'[d] \in Seq(Notifications)
        BY <1>2, <2>2, <3>1 DEF PushInv
      <4> QED BY <4>1, LineIndices
    <3>5. ASSUME NEW i \in DOMAIN t
          PROVE  t[i] \in 1..npushes' /\ d \in audience'[t[i]]
      <4>1. 1..npushes \subseteq 1..n /\ n \in 1..n
        BY <1>2
      <4> QED BY <1>2, <1>3, <3>2, <3>3, <4>1
    <3>6. ASSUME NEW i \in DOMAIN t, NEW j \in DOMAIN t, i < j
          PROVE  t[i] < t[j]
      <4>1. ~(\A k \in DOMAIN t : k <= i)
        BY <3>4, <3>6
      <4>2. i \in DOMAIN s /\ t[i] = s[i]
        BY <3>3, <4>1
      <4> QED BY <3>2, <3>3, <3>6, <4>2
    <3> QED BY <3>1, <3>5, <3>6 DEF LineOK
  <2> QED BY <1>2, <1>3, <2>2, <2>3 DEF PushInv
<1> QED BY <1>2, <1>4, <1>5

LEMMA HearsKeeps ==
  ASSUME PushInv, NEW e \in Conns, BrowserHears(e)
  PROVE  PushInv'
<1>1. /\ s2c[e] # <<>> /\ s2c' = [s2c EXCEPT ![e] = Tail(@)]
      /\ heard' = [heard EXCEPT ![e] = Append(@, Head(s2c[e]).id)]
      /\ s2c \in [Conns -> Seq(Notifications)] /\ heard \in [Conns -> Seq(Notes)]
      /\ UNCHANGED <<npushes, audience>>
  BY DEF BrowserHears, ClientTakes, PushInv
<1>2. /\ Append(heard[e], Head(s2c[e]).id) \in Seq(Notes) /\ Tail(s2c[e]) \in Seq(Notifications)
      /\ DOMAIN Line(Append(heard[e], Head(s2c[e]).id), Tail(s2c[e])) = DOMAIN Line(heard[e], s2c[e])
      /\ \A i \in DOMAIN Line(heard[e], s2c[e]) :
           Line(Append(heard[e], Head(s2c[e]).id), Tail(s2c[e]))[i] = Line(heard[e], s2c[e])[i]
  BY <1>1, LineAdvances
<1>3. heard' \in [Conns -> Seq(Notes)] /\ s2c' \in [Conns -> Seq(Notifications)]
  BY <1>1, <1>2
<1>4. ASSUME NEW d \in Conns
      PROVE  LineOK(d, Line(heard[d], s2c[d]))'
  <2>1. CASE d = e
    <3>1. heard'[d] = Append(heard[e], Head(s2c[e]).id) /\ s2c'[d] = Tail(s2c[e])
      BY <1>1, <2>1
    <3>2. PICK s, t : s = Line(heard[d], s2c[d]) /\ t = Line(heard'[d], s2c'[d])
      OBVIOUS
    <3>3. DOMAIN t = DOMAIN s /\ \A i \in DOMAIN s : t[i] = s[i]
      BY <1>2, <2>1, <3>1, <3>2
    <3>4. LineOK(d, s)
      BY <3>2 DEF PushInv
    <3> QED BY <1>1, <3>2, <3>3, <3>4 DEF LineOK
  <2>2. CASE d # e
    <3>1. heard'[d] = heard[d] /\ s2c'[d] = s2c[d]
      BY <1>1, <2>2
    <3> QED BY <1>1, <3>1 DEF PushInv, LineOK
  <2> QED BY <2>1, <2>2
<1> QED BY <1>1, <1>3, <1>4 DEF PushInv

LEMMA InitPushes == Init => PushInv
<1> SUFFICES ASSUME Init PROVE PushInv
  OBVIOUS
<1>1. /\ npushes = 0 /\ heard = [e \in Conns |-> <<>>] /\ s2c = [e \in Conns |-> <<>>]
      /\ audience = [n \in Notes |-> {}] /\ MaxPushes \in Nat
  BY PushAssumption, JsonRpcAssumption DEF Init
<1>2. Line(<<>>, <<>>) = <<>>
  BY DEF Line
<1> QED BY <1>1, <1>2 DEF PushInv, LineOK

LEMMA NextPushes == PushInv /\ [Next]_vars => PushInv'
<1> SUFFICES ASSUME PushInv, [Next]_vars PROVE PushInv'
  OBVIOUS
<1>1. npushes \in Nat /\ npushes <= MaxPushes /\ MaxPushes \in Nat
  BY PushAssumption, JsonRpcAssumption DEF PushInv
<1>2. ASSUME UNCHANGED <<heard, s2c, npushes, audience>>
      PROVE  PushInv'
  BY <1>1, <1>2, LinesKept DEF PushInv
<1>3. ASSUME NEW ignore, Broadcast(ignore)
      PROVE  PushInv'
  <2>1. /\ npushes' = npushes + 1 /\ npushes < MaxPushes /\ UNCHANGED <<heard, s2c>>
        /\ audience' = [audience EXCEPT ![npushes + 1] = Range(clients) \ ignore]
    BY <1>3 DEF Broadcast, NextPush, transportVars
  <2>2. npushes' \in Nat /\ npushes <= npushes' /\ npushes' <= MaxPushes
    BY <1>1, <2>1
  <2>3. DOMAIN audience' = Notes /\ \A n \in 1..npushes : audience'[n] = audience[n]
    BY <1>1, <2>1 DEF PushInv
  <2> QED BY <2>1, <2>2, <2>3, LinesKept
<1>4. ASSUME NEW e \in Conns, SocketCall(e)
      PROVE  PushInv'
  <2>1. npushes' = npushes + 1 /\ npushes < MaxPushes /\ UNCHANGED <<heard, s2c, audience>>
    BY <1>4 DEF SocketCall, NextPush, transportVars
  <2>2. npushes' \in Nat /\ npushes <= npushes' /\ npushes' <= MaxPushes
    BY <1>1, <2>1
  <2> QED BY <2>1, <2>2, LinesKept DEF PushInv
<1>5. ASSUME NEW e \in Conns,
             \/ BrowserConnects(e) \/ BrowserOpens(e) \/ BrowserLeaves(e)
             \/ (RegisterClient(e) \/ UnregisterClient(e)) /\ UNCHANGED pushVars
      PROVE  PushInv'
  <2>1. UNCHANGED <<heard, s2c, npushes, audience>>
    BY <1>5 DEF BrowserConnects, BrowserOpens, BrowserLeaves, BrowserMoves, RegisterClient,
                UnregisterClient, AcceptConnection, ServerEndCloses, pushVars
  <2> QED BY <1>2, <2>1
<1>6. CASE UNCHANGED vars
  BY <1>2, <1>6 DEF vars, pushVars, transportVars
<1> QED BY <1>3, <1>4, <1>5, <1>6, NotifyKeeps, HearsKeeps DEF Next

-----------------------------------------------------------------------------
(* A browser hears only what was meant for it, each push at most once and in
   the order the server made them, though it may miss some: for any number of
   browsers, whenever they come and go. *)
THEOREM HeardCorrect == Spec => []HeardInOrder
<1>1. Init => PushInv
  BY InitPushes
<1>2. PushInv /\ [Next]_vars => PushInv'
  BY NextPushes
<1>3. PushInv => HeardInOrder
  BY DEF PushInv, LineOK, Line, HeardInOrder
<1> QED BY <1>1, <1>2, <1>3, PTL DEF Spec

=============================================================================
