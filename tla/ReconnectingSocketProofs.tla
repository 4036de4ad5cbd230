----------------------- MODULE ReconnectingSocketProofs -----------------------
(***************************************************************************)
(* The emitter under its client and an application, whatever they do to    *)
(* it and however deep emissions nest: proofs for every set of events and  *)
(* every number of listeners, connections and acts.                        *)
(***************************************************************************)
EXTENDS ReconnectingSocket, SequenceTheorems, FiniteSetTheorems,
        WellFoundedInduction, TLAPS

-----------------------------------------------------------------------------
(* Numbers.                                                                 *)

\* Every set of numbers that has a member has a least one.
LEMMA Least ==
  ASSUME NEW T \in SUBSET Nat, T # {}
  PROVE  \E x \in T : \A y \in T : x <= y
<1> DEFINE R == OpToRel(<, Nat)
<1>1. IsWellFoundedOn(R, Nat)
  BY NatLessThanWellFounded
<1>2. \A x, y \in Nat : <<y, x>> \in R <=> y < x
  BY DEF OpToRel
<1>3. \E x \in T : \A y \in T : ~ (<<y, x>> \in R)
  <2> HIDE DEF R
  <2> QED BY <1>1, WFMin
<1>4. PICK x \in T : \A y \in T : ~ (<<y, x>> \in R)
  BY <1>3
<1> HIDE DEF R
<1>5. \A y \in T : ~ (y < x)
  BY <1>2, <1>4
<1> QED BY <1>5

-----------------------------------------------------------------------------
(* Sequences.                                                               *)

\* What Front and Last return.
LEMMA FrontLast ==
  ASSUME NEW S, NEW s \in Seq(S), s # <<>>
  PROVE  /\ Front(s) \in Seq(S) /\ Last(s) \in S
         /\ Len(s) \in Nat \ {0}
         /\ Len(Front(s)) = Len(s) - 1
         /\ \A i \in 1..Len(Front(s)) : i \in 1..Len(s) /\ Front(s)[i] = s[i]
<1>1. Len(s) \in Nat \ {0} /\ \A i \in 1..Len(s) : s[i] \in S
  OBVIOUS
<1>2. 1 \in Int /\ Len(s) - 1 \in Int /\ \A i \in 1..(Len(s) - 1) : s[i] \in S
  BY <1>1
<1>3. /\ Front(s) \in Seq(S)
      /\ Len(Front(s)) = IF 1 <= Len(s) - 1 THEN Len(s) - 1 ELSE 0
      /\ \A i \in 1..Len(Front(s)) : Front(s)[i] = s[1 + i - 1]
  BY <1>2, SubSeqProperties, SMT DEF Front
<1>4. Len(Front(s)) = Len(s) - 1
  <2>1. ASSUME NEW n \in Nat \ {0}, NEW m, m = IF 1 <= n - 1 THEN n - 1 ELSE 0
        PROVE  m = n - 1
    BY <2>1
  <2> QED BY <1>1, <1>3, <2>1
<1>5. \A i \in 1..Len(Front(s)) : i \in 1..Len(s) /\ Front(s)[i] = s[i]
  BY <1>1, <1>3, <1>4
<1> QED BY <1>1, <1>3, <1>4, <1>5 DEF Last

\* Replacing the last element: the others are untouched.
LEMMA LastReplaced ==
  ASSUME NEW S, NEW s \in Seq(S), s # <<>>, NEW f \in S
  PROVE  /\ Append(Front(s), f) \in Seq(S)
         /\ Len(Append(Front(s), f)) = Len(s)
         /\ Last(Append(Front(s), f)) = f
         /\ Append(Front(s), f)[Len(s)] = f
         /\ \A i \in 1..Len(s) : i # Len(s) => Append(Front(s), f)[i] = s[i]
<1>1. /\ Front(s) \in Seq(S) /\ Len(s) \in Nat \ {0} /\ Len(Front(s)) = Len(s) - 1
      /\ \A i \in 1..Len(Front(s)) : Front(s)[i] = s[i]
  BY FrontLast
<1>2. /\ Append(Front(s), f) \in Seq(S)
      /\ Len(Append(Front(s), f)) = Len(Front(s)) + 1
      /\ Append(Front(s), f)[Len(Front(s)) + 1] = f
      /\ \A i \in 1..Len(Front(s)) : Append(Front(s), f)[i] = Front(s)[i]
  BY <1>1
<1> QED BY <1>1, <1>2 DEF Last

\* Where the first l of s is, and what is left when it is removed.
LEMMA FirstRemoved ==
  ASSUME NEW S, NEW s \in Seq(S), NEW l, Contains(s, l)
  PROVE  \E x \in 1..Len(s) :
           /\ s[x] = l
           /\ RemoveFirst(s, l) \in Seq(S)
           /\ Len(RemoveFirst(s, l)) = Len(s) - 1
           /\ \A i \in 1..(Len(s) - 1) :
                RemoveFirst(s, l)[i] = IF i < x THEN s[i] ELSE s[i + 1]
<1> DEFINE I == {i \in 1..Len(s) : s[i] = l}
           x == SelectInSeq(s, LAMBDA v : v = l)
<1>1. Len(s) \in Nat /\ I # {} /\ \A i \in 1..Len(s) : s[i] \in S
  BY DEF Contains
<1>2. x = CHOOSE m \in I : \A k \in I : m <= k
  BY <1>1 DEF SelectInSeq, Min
<1>3. PICK m \in I : \A k \in I : m <= k
  <2>1. I \in SUBSET Nat
    BY <1>1
  <2> QED BY <1>1, <2>1, Least
<1>4. x \in 1..Len(s) /\ s[x] = l
  BY <1>1, <1>2, <1>3
<1> DEFINE a == SubSeq(s, 1, x - 1)
           b == SubSeq(s, x + 1, Len(s))
<1>5. RemoveFirst(s, l) = a \o b
  BY <1>1 DEF RemoveFirst, RemoveAt
<1> HIDE DEF x
<1>6. a \in Seq(S) /\ Len(a) = x - 1 /\ \A i \in 1..(x - 1) : a[i] = s[i]
  BY <1>1, <1>4
<1>7. b \in Seq(S) /\ Len(b) = Len(s) - x /\ \A i \in 1..(Len(s) - x) : b[i] = s[x + i]
  BY <1>1, <1>4
<1> HIDE DEF a, b
<1>8. /\ a \o b \in Seq(S)
      /\ Len(a \o b) = Len(s) - 1
      /\ \A i \in 1..(Len(s) - 1) : (a \o b)[i] = IF i < x THEN a[i] ELSE b[i - (x - 1)]
  <2>1. /\ a \o b \in Seq(S)
        /\ Len(a \o b) = Len(a) + Len(b)
        /\ \A i \in 1..(Len(a) + Len(b)) :
             (a \o b)[i] = IF i <= Len(a) THEN a[i] ELSE b[i - Len(a)]
    BY <1>6, <1>7, ConcatProperties
  <2>2. Len(a) = x - 1 /\ Len(a) + Len(b) = Len(s) - 1 /\ x \in Nat
    BY <1>1, <1>4, <1>6, <1>7
  <2>3. ASSUME NEW i \in 1..(Len(s) - 1)
        PROVE  (a \o b)[i] = IF i < x THEN a[i] ELSE b[i - (x - 1)]
    <3>1. (a \o b)[i] = IF i <= x - 1 THEN a[i] ELSE b[i - (x - 1)]
      BY <2>1, <2>2
    <3>2. i <= x - 1 <=> i < x
      BY <2>2
    <3> QED BY <3>1, <3>2
  <2> QED BY <2>1, <2>2, <2>3
<1>9. ASSUME NEW i \in 1..(Len(s) - 1)
      PROVE  (a \o b)[i] = IF i < x THEN s[i] ELSE s[i + 1]
  <2>1. CASE i < x
    BY <1>1, <1>4, <1>6, <1>8, <2>1
  <2>2. CASE ~(i < x)
    <3>1. i - (x - 1) \in 1..(Len(s) - x) /\ x + (i - (x - 1)) = i + 1
      BY <1>1, <1>4, <2>2
    <3> QED BY <1>7, <1>8, <2>2, <3>1
  <2> QED BY <2>1, <2>2
<1> QED BY <1>4, <1>5, <1>8, <1>9

-----------------------------------------------------------------------------
(* Type correctness.                                                        *)

LEMMA InitType == Init => TypeOK
<1> SUFFICES ASSUME Init PROVE TypeOK
  OBVIOUS
<1>1. TransportTypeOK({}) /\ SocketTypeOK
  <2>1. TransportTypeOK({})
    BY DEF Init, TransportInit, TransportTypeOK, CliStates, SrvStates
  <2>2. 1 \in Conns
    BY MaxConnsAssumption DEF Conns
  <2> QED BY <2>1, <2>2 DEF Init, SocketInit, SocketTypeOK
<1>2. [l \in Listeners |-> l] \in Seq(Listeners)
  <2>1. Cardinality(Listeners) \in Nat
    BY SocketAssumption, FS_CardinalityType
  <2>2. [l \in 1..Cardinality(Listeners) |-> l] \in Seq(1..Cardinality(Listeners))
    BY <2>1
  <2> QED BY <2>2, SocketAssumption
<1>3. EmitterTypeOK
  BY <1>2 DEF Init, EmitterTypeOK
<1>4. ticking \in BOOLEAN /\ acts \in 0..MaxActs
  <2>1. 0 \in 0..MaxActs
    BY SocketAssumption
  <2> QED BY <2>1 DEF Init
<1> QED BY <1>1, <1>3, <1>4 DEF TypeOK

\* What the operations of the emitter do to its types.
LEMMA OnType ==
  ASSUME EmitterTypeOK, NEW e \in Events, NEW l \in Listeners, On(e, l)
  PROVE  EmitterTypeOK'
<1>1. Pushed(e, l) \in Seq(Listeners)
  BY DEF EmitterTypeOK, Pushed
<1> QED BY <1>1 DEF On, EmitterTypeOK

\* What a splice does to the record of a walk.
LEMMA RemovalNoted ==
  ASSUME NEW f \in Emission, NEW l \in Listeners
  PROVE  LET g == [f EXCEPT !.removals = @ + 1, !.removed = @ \cup {l}]
         IN  /\ g \in Emission
             /\ g.event = f.event /\ g.next = f.next /\ g.start = f.start
             /\ g.called = f.called /\ g.removals = f.removals + 1
             /\ g.removed = f.removed \cup {l}
<1>1. f.removals + 1 \in Nat /\ f.removed \cup {l} \in SUBSET Listeners
  BY DEF Emission
<1>2. \A n \in Nat, r \in SUBSET Listeners :
        LET h == [f EXCEPT !.removals = n, !.removed = r]
        IN  /\ h \in Emission
            /\ h.event = f.event /\ h.next = f.next /\ h.start = f.start
            /\ h.called = f.called /\ h.removals = n /\ h.removed = r
  BY DEF Emission
<1> QED BY <1>1, <1>2

\* What off() does to a walk and its array.
LEMMA OffStep ==
  ASSUME EmitterTypeOK, NEW e \in Events, NEW l \in Listeners, Off(e, l),
         NEW i \in DOMAIN emissions
  PROVE  LET f == emissions[i]
             g == emissions'[i]
             a == listeners[f.event]
             b == listeners'[f.event]
         IN  /\ f \in Emission /\ g \in Emission /\ a \in Seq(Listeners)
             /\ g.event = f.event /\ g.next = f.next /\ g.start = f.start
             /\ g.called = f.called
             /\ f.event = e =>
                  /\ b = RemoveFirst(a, l) /\ Contains(a, l)
                  /\ g.removals = f.removals + 1 /\ g.removed = f.removed \cup {l}
             /\ f.event # e => g = f /\ b = a
<1> DEFINE f == emissions[i]
           g == emissions'[i]
<1>0. f \in Emission
  BY DEF EmitterTypeOK
<1>1. f \in Emission /\ listeners[f.event] \in Seq(Listeners)
  BY <1>0 DEF EmitterTypeOK, Emission
<1>2. /\ Contains(listeners[e], l)
      /\ listeners'[e] = RemoveFirst(listeners[e], l)
      /\ f.event # e => listeners'[f.event] = listeners[f.event]
  <2>1. f.event \in Events
    BY <1>1 DEF Emission
  <2> QED BY <2>1 DEF Off, EmitterTypeOK
<1>3. g = IF f.event = e
          THEN [f EXCEPT !.removals = @ + 1, !.removed = @ \cup {l}]
          ELSE f
  BY Zenon DEF Off
<1> HIDE DEF f, g
<1>4. CASE f.event = e
  <2>1. g = [f EXCEPT !.removals = @ + 1, !.removed = @ \cup {l}]
    BY <1>3, <1>4
  <2>2. /\ g \in Emission
        /\ g.event = f.event /\ g.next = f.next /\ g.start = f.start
        /\ g.called = f.called /\ g.removals = f.removals + 1
        /\ g.removed = f.removed \cup {l}
    BY <1>1, <2>1, RemovalNoted
  <2> QED BY <1>1, <1>2, <1>4, <2>2 DEF f, g
<1>5. CASE f.event # e
  BY <1>1, <1>2, <1>3, <1>5 DEF f, g
<1> QED BY <1>4, <1>5

LEMMA OffType ==
  ASSUME EmitterTypeOK, NEW e \in Events, NEW l \in Listeners, Off(e, l)
  PROVE  EmitterTypeOK'
<1>1. RemoveFirst(listeners[e], l) \in Seq(Listeners)
  BY FirstRemoved DEF Off, EmitterTypeOK
<1>2. listeners' \in [Events -> Seq(Listeners)]
  BY <1>1 DEF Off, EmitterTypeOK
<1>3. emissions' = [i \in 1..Len(emissions) |-> emissions'[i]] /\ Len(emissions) \in Nat
  <2>1. Len(emissions) \in Nat /\ DOMAIN emissions = 1..Len(emissions)
    BY DEF EmitterTypeOK
  <2>2. emissions' = [i \in DOMAIN emissions |-> emissions'[i]]
    BY Zenon DEF Off
  <2> QED BY <2>1, <2>2
<1>4. \A i \in 1..Len(emissions) : emissions'[i] \in Emission
  BY OffStep DEF EmitterTypeOK
<1>5. emissions' \in Seq(Emission)
  BY <1>3, <1>4
<1> QED BY <1>2, <1>5 DEF EmitterTypeOK

LEMMA EmitType ==
  ASSUME EmitterTypeOK, NEW e \in Events, Emit(e)
  PROVE  EmitterTypeOK'
<1>1. [event |-> e, next |-> 1, start |-> listeners[e], calling |-> FALSE,
       called |-> <<>>, removals |-> 0, removed |-> {}] \in Emission
  BY DEF EmitterTypeOK, Emission
<1> QED BY <1>1 DEF Emit, EmitterTypeOK

\* The walk on top of the stack, and what it does when it calls.
LEMMA TopType ==
  ASSUME EmitterTypeOK, ~EmitterIdle
  PROVE  Top \in Emission /\ Array(Top) \in Seq(Listeners)
<1>1. Top \in Emission
  BY FrontLast DEF EmitterTypeOK, EmitterIdle, Top
<1> QED BY <1>1 DEF EmitterTypeOK, Emission, Array

LEMMA CalledIsThere ==
  ASSUME EmitterTypeOK, ~EmitterIdle, WalkGoesOn(Top)
  PROVE  Top.next \in DOMAIN Array(Top) /\ Array(Top)[Top.next] \in Listeners
<1>1. /\ Top.next \in Nat \ {0} /\ Array(Top) \in Seq(Listeners)
      /\ Top.next <= Len(Array(Top))
  BY TopType DEF WalkGoesOn, Emission
<1> QED BY <1>1

LEMMA ReplaceTopType ==
  ASSUME EmitterTypeOK, ~EmitterIdle, NEW f \in Emission, ReplaceTop(f), UNCHANGED listeners
  PROVE  EmitterTypeOK'
BY LastReplaced DEF EmitterTypeOK, EmitterIdle, ReplaceTop

LEMMA CallListenerType ==
  ASSUME EmitterTypeOK, CallListener
  PROVE  EmitterTypeOK'
<1>1. Top \in Emission /\ Array(Top)[Top.next] \in Listeners
  BY TopType, CalledIsThere DEF CallListener
<1>2. [Top EXCEPT !.next = @ + 1, !.calling = TRUE,
                  !.called = Append(@, Array(Top)[Top.next])] \in Emission
  <2>1. /\ Top.next + 1 \in Nat \ {0}
        /\ Append(Top.called, Array(Top)[Top.next]) \in Seq(Listeners)
    BY <1>1 DEF Emission
  <2> HIDE DEF Top
  <2>2. \A k \in Nat \ {0}, s \in Seq(Listeners) :
          [Top EXCEPT !.next = k, !.calling = TRUE, !.called = s] \in Emission
    BY <1>1 DEF Emission
  <2> QED BY <2>1, <2>2
<1> QED BY <1>2, ReplaceTopType DEF CallListener

LEMMA ListenerDoneType ==
  ASSUME EmitterTypeOK, ListenerReturns \/ ListenerThrows
  PROVE  EmitterTypeOK'
<1>1. [Top EXCEPT !.calling = FALSE] \in Emission
  BY TopType DEF ListenerReturns, ListenerThrows, Emission
<1> QED BY <1>1, ReplaceTopType DEF ListenerReturns, ListenerThrows, AfterThrow

LEMMA EmitReturnsType ==
  ASSUME EmitterTypeOK, EmitReturns
  PROVE  EmitterTypeOK'
BY FrontLast DEF EmitterTypeOK, EmitterIdle, EmitReturns

\* A step keeps the types of what WebSocketClient and Transport have.
LEMMA SocketStepType ==
  ASSUME TypeOK, Next
  PROVE  TransportTypeOK({})' /\ SocketTypeOK'
<1>1. MaxConns \in Nat \ {0} /\ socket \in Conns
  BY MaxConnsAssumption DEF TypeOK, SocketTypeOK
<1>2. CASE \E e \in Conns : Opens(e)
  BY <1>2
  DEF Opens, SocketOpens, SocketEvent, FlagsOnOpen, TypeOK, SocketTypeOK, TransportTypeOK, CliStates
<1>3. CASE \E e \in Conns : Closes(e)
  BY <1>3
  DEF Closes, SocketCloses, SocketEvent, FlagsOnClose, TypeOK, SocketTypeOK, TransportTypeOK,
      CliStates
<1>4. CASE TickEnds
  <2>1. UNCHANGED <<srvEnd, c2s, s2c, discarded, connected, trying>>
    BY <1>4 DEF TickEnds
  <2>2. CASE NewWebSocket
    <3>1. socket + 1 \in Conns
      BY <1>1, <2>2 DEF NewWebSocket, Conns
    <3> QED BY <2>1, <2>2, <3>1
        DEF NewWebSocket, TypeOK, SocketTypeOK, TransportTypeOK, CliStates
  <2>3. CASE UNCHANGED <<socket, connecting, cliEnd>>
    BY <2>1, <2>3 DEF TypeOK, SocketTypeOK, TransportTypeOK
  <2> QED BY <1>4, <2>2, <2>3 DEF TickEnds
<1>5. CASE Tick \/ EmissionGoesOn
  BY <1>5 DEF Tick, EmissionGoesOn, transportVars, clientVars, TypeOK, SocketTypeOK, TransportTypeOK
<1>6. CASE AppActs
  BY <1>6 DEF AppActs, StopTrying, transportVars, clientVars, TypeOK, SocketTypeOK, TransportTypeOK
<1>7. CASE ServerEndNext /\ UNCHANGED <<clientVars, emitterVars, appVars>>
  BY <1>7
  DEF ServerEndNext, AcceptConnection, ServerEndCloses, clientVars, TypeOK, SocketTypeOK,
      TransportTypeOK, SrvStates
<1> QED BY <1>2, <1>3, <1>4, <1>5, <1>6, <1>7 DEF Next, SocketNext

\* A step keeps the types of the emitter.
LEMMA EmitterStepType ==
  ASSUME TypeOK, Next
  PROVE  EmitterTypeOK'
<1>1. EmitterTypeOK /\ "CONNECT" \in Events /\ "DISCONNECT" \in Events /\ "ATTEMPT" \in Events
  BY SocketAssumption DEF TypeOK
<1>2. CASE \E e \in Conns : Opens(e) \/ Closes(e)
  BY <1>1, <1>2, EmitType DEF Opens, Closes, SocketEvent
<1>3. CASE Tick
  BY <1>1, <1>3, EmitType DEF Tick
<1>4. CASE TickEnds
  BY <1>1, <1>4, EmitReturnsType DEF TickEnds
<1>5. CASE EmissionGoesOn
  BY <1>1, <1>5, CallListenerType, ListenerDoneType, EmitReturnsType DEF EmissionGoesOn
<1>6. CASE AppActs
  <2>1. CASE UNCHANGED emitterVars
    BY <1>1, <2>1 DEF emitterVars, EmitterTypeOK
  <2> QED BY <1>1, <1>6, <2>1, OnType, OffType, EmitType DEF AppActs
<1>7. CASE UNCHANGED emitterVars
  BY <1>1, <1>7 DEF emitterVars, EmitterTypeOK
<1> QED BY <1>2, <1>3, <1>4, <1>5, <1>6, <1>7 DEF Next, SocketNext

LEMMA NextType == TypeOK /\ [Next]_vars => TypeOK'
<1> SUFFICES ASSUME TypeOK, [Next]_vars PROVE TypeOK'
  OBVIOUS
<1>1. CASE Next
  <2>1. ticking' \in BOOLEAN
    BY <1>1
    DEF TypeOK, Next, SocketNext, Tick, TickEnds, EmissionGoesOn, AppActs, Opens, Closes,
        SocketEvent, appVars
  <2>2. acts' = acts \/ (acts < MaxActs /\ acts' = acts + 1)
    BY <1>1
    DEF Next, SocketNext, Tick, TickEnds, EmissionGoesOn, AppActs, Opens, Closes, SocketEvent,
        appVars
  <2>3. acts' \in 0..MaxActs
    BY <2>2, SocketAssumption DEF TypeOK
  <2> QED BY <1>1, <2>1, <2>3, SocketStepType, EmitterStepType DEF TypeOK
<1>2. CASE UNCHANGED vars
  BY <1>2
  DEF vars, transportVars, clientVars, emitterVars, appVars, TypeOK, TransportTypeOK, SocketTypeOK,
      EmitterTypeOK
<1> QED BY <1>1, <1>2

(* The emitter's arrays hold listeners, and a walk stays a walk of one of them
   whatever its listeners do; the client's state keeps its types. *)
THEOREM TypeCorrect == Spec => []TypeOK
BY InitType, NextType, PTL DEF Spec

-----------------------------------------------------------------------------
(* What a walk loses.                                                       *)

\* The walk f over the array a still comes to x.
Ahead(f, a, x) == \E j \in DOMAIN a : f.next <= j /\ j <= Len(f.start) /\ a[j] = x

\* Whom the walk f began with, has not called, and will not come to.
Lost(f, a) == {x \in ToSet(f.start) : x \notin ToSet(f.called) /\ ~Ahead(f, a, x)}

\* Every listener a walk has lost was lost to a removal.
LossesAreRemovals ==
  \A i \in DOMAIN emissions :
    Cardinality(Lost(emissions[i], Array(emissions[i]))) <= emissions[i].removals

LEMMA LostFinite ==
  ASSUME NEW f \in Emission, NEW a
  PROVE  IsFiniteSet(Lost(f, a)) /\ Cardinality(Lost(f, a)) \in Nat
<1>1. IsFiniteSet(ToSet(f.start))
  <2>1. f.start \in Seq(Listeners)
    BY DEF Emission
  <2>2. ToSet(f.start) \subseteq Listeners
    BY <2>1 DEF ToSet
  <2> QED BY <2>2, SocketAssumption, FS_Subset
<1> QED BY <1>1, FS_Subset, FS_CardinalityType DEF Lost

\* Losing one listener more costs at most one removal.
LEMMA OneMoreLost ==
  ASSUME NEW f \in Emission, NEW g \in Emission, NEW a, NEW b, NEW y,
         Lost(g, b) \subseteq Lost(f, a) \cup {y}
  PROVE  Cardinality(Lost(g, b)) <= Cardinality(Lost(f, a)) + 1
<1>1. /\ IsFiniteSet(Lost(f, a)) /\ Cardinality(Lost(f, a)) \in Nat
      /\ Cardinality(Lost(g, b)) \in Nat
  BY LostFinite
<1>2. /\ IsFiniteSet(Lost(f, a) \cup {y})
      /\ Cardinality(Lost(f, a) \cup {y}) \in {Cardinality(Lost(f, a)), Cardinality(Lost(f, a)) + 1}
  BY <1>1, FS_AddElement
<1>3. Cardinality(Lost(g, b)) <= Cardinality(Lost(f, a) \cup {y})
  BY <1>2, FS_Subset
<1> QED BY <1>1, <1>2, <1>3

LEMMA NoMoreLost ==
  ASSUME NEW f \in Emission, NEW g \in Emission, NEW a, NEW b,
         Lost(g, b) \subseteq Lost(f, a)
  PROVE  Cardinality(Lost(g, b)) <= Cardinality(Lost(f, a))
BY LostFinite, FS_Subset

\* on() pushes at the end: a walk loses nobody by it.
LEMMA PushLosesNone ==
  ASSUME NEW f \in Emission, NEW a \in Seq(Listeners), NEW l \in Listeners
  PROVE  Lost(f, Append(a, l)) \subseteq Lost(f, a)
<1>1. \A j \in DOMAIN a : j \in DOMAIN Append(a, l) /\ Append(a, l)[j] = a[j]
  OBVIOUS
<1>2. \A x : Ahead(f, a, x) => Ahead(f, Append(a, l), x)
  BY <1>1 DEF Ahead
<1> QED BY <1>2 DEF Lost

\* off() costs a walk one listener: the one removed, if the walk had not come
\* to it, or else the next one, which the splice moves into the place before.
LEMMA RemovalLosesOne ==
  ASSUME NEW f \in Emission, NEW a \in Seq(Listeners), NEW l, Contains(a, l)
  PROVE  \E y : Lost(f, RemoveFirst(a, l)) \subseteq Lost(f, a) \cup {y}
<1> DEFINE b == RemoveFirst(a, l)
<1>1. PICK x \in 1..Len(a) :
        /\ a[x] = l
        /\ b \in Seq(Listeners) /\ Len(b) = Len(a) - 1
        /\ \A i \in 1..(Len(a) - 1) : b[i] = IF i < x THEN a[i] ELSE a[i + 1]
  BY FirstRemoved
<1> HIDE DEF b
<1> DEFINE y == IF x < f.next THEN a[f.next] ELSE l
<1>2. f.next \in Nat /\ Len(a) \in Nat /\ DOMAIN a = 1..Len(a) /\ DOMAIN b = 1..(Len(a) - 1)
  BY <1>1 DEF Emission
<1>3. ASSUME NEW z, z # y, Ahead(f, a, z)
      PROVE  Ahead(f, b, z)
  <2>1. PICK j \in 1..Len(a) : f.next <= j /\ j <= Len(f.start) /\ a[j] = z
    BY <1>2, <1>3 DEF Ahead
  <2>2. CASE j < x
    <3>1. j \in 1..(Len(a) - 1) /\ b[j] = z
      BY <1>1, <1>2, <2>1, <2>2
    <3> QED BY <1>2, <2>1, <3>1 DEF Ahead
  <2>3. CASE j = x
    <3>1. x < f.next
      BY <1>1, <1>3, <2>1, <2>3
    <3> QED BY <1>2, <2>1, <2>3, <3>1
  <2>4. CASE x < j
    <3>1. j # f.next \/ ~(x < f.next)
      BY <1>3, <2>1
    <3>2. f.next <= j - 1
      BY <1>2, <2>1, <2>4, <3>1
    <3>3. Len(f.start) \in Nat
      BY DEF Emission
    <3>4. j - 1 \in 1..(Len(a) - 1) /\ ~(j - 1 < x) /\ (j - 1) + 1 = j /\ j - 1 <= Len(f.start)
      BY <1>2, <2>1, <2>4, <3>3
    <3>5. b[j - 1] = z
      BY <1>1, <2>1, <3>4
    <3> QED BY <1>2, <3>2, <3>4, <3>5 DEF Ahead
  <2> QED BY <1>2, <2>2, <2>3, <2>4
<1>4. Lost(f, b) \subseteq Lost(f, a) \cup {y}
  BY <1>3 DEF Lost
<1> QED BY <1>4 DEF b

\* Calling a listener loses nobody: whom the walk moves on from it has called.
LEMMA CallLosesNone ==
  ASSUME NEW f \in Emission, NEW a \in Seq(Listeners), f.next \in DOMAIN a,
         NEW g \in Emission, g.start = f.start, g.next = f.next + 1,
         g.called = Append(f.called, a[f.next])
  PROVE  Lost(g, a) \subseteq Lost(f, a)
<1>1. f.next \in Nat /\ DOMAIN a \subseteq Nat /\ f.called \in Seq(Listeners)
  BY DEF Emission
<1>2. a[f.next] \in ToSet(g.called) /\ ToSet(f.called) \subseteq ToSet(g.called)
  <2>1. /\ Len(f.called) + 1 \in DOMAIN g.called
        /\ g.called[Len(f.called) + 1] = a[f.next]
        /\ \A i \in DOMAIN f.called : i \in DOMAIN g.called /\ g.called[i] = f.called[i]
    BY <1>1
  <2> QED BY <2>1 DEF ToSet
<1>3. ASSUME NEW x, Ahead(f, a, x), x # a[f.next]
      PROVE  Ahead(g, a, x)
  <2>1. PICK j \in DOMAIN a : f.next <= j /\ j <= Len(f.start) /\ a[j] = x
    BY <1>3 DEF Ahead
  <2>2. f.next + 1 <= j
    BY <1>1, <1>3, <2>1
  <2> QED BY <2>1, <2>2 DEF Ahead
<1> QED BY <1>2, <1>3 DEF Lost

\* Lost is what the property calls missed, once the walk is over.
LEMMA MissedAreLost ==
  ASSUME NEW f \in Emission, WalkOver(f), Array(f) \in Seq(Listeners)
  PROVE  Missed(f) \subseteq Lost(f, Array(f))
<1>1. /\ f.next \in Nat /\ Len(f.start) \in Nat /\ Len(Array(f)) \in Nat
      /\ DOMAIN Array(f) = 1..Len(Array(f))
      /\ ~(f.next <= Len(f.start) /\ f.next <= Len(Array(f)))
  BY DEF Emission, WalkOver, WalkGoesOn
<1>2. \A x : ~Ahead(f, Array(f), x)
  BY <1>1 DEF Ahead
<1> QED BY <1>2 DEF Missed, Lost

-----------------------------------------------------------------------------
(* The emissions.                                                           *)

\* A walk on the stack, and the array it walks.
LEMMA WalkType ==
  ASSUME EmitterTypeOK, LossesAreRemovals, NEW i \in DOMAIN emissions
  PROVE  /\ emissions[i] \in Emission /\ emissions[i].removals \in Nat
         /\ Array(emissions[i]) \in Seq(Listeners)
         /\ Cardinality(Lost(emissions[i], Array(emissions[i]))) <= emissions[i].removals
<1>1. emissions[i] \in Emission
  BY DEF EmitterTypeOK
<1>2. emissions[i].removals \in Nat /\ emissions[i].event \in Events
  BY <1>1 DEF Emission
<1> QED BY <1>1, <1>2 DEF EmitterTypeOK, LossesAreRemovals, Array

LEMMA OnPays ==
  ASSUME EmitterTypeOK, LossesAreRemovals, NEW e \in Events, NEW l \in Listeners, On(e, l)
  PROVE  LossesAreRemovals'
<1> SUFFICES ASSUME NEW i \in DOMAIN emissions
             PROVE  Cardinality(Lost(emissions[i], Array(emissions[i])'))
                      <= emissions[i].removals
  BY DEF On, LossesAreRemovals, Array
<1> DEFINE f == emissions[i]
<1>1. /\ f \in Emission /\ Array(f) \in Seq(Listeners)
      /\ Cardinality(Lost(f, Array(f))) <= f.removals
  BY WalkType
<1>2. Array(f)' = Array(f) \/ Array(f)' = Append(Array(f), l)
  BY DEF On, Pushed, Array, EmitterTypeOK
<1>3. Lost(f, Array(f)') \subseteq Lost(f, Array(f))
  BY <1>1, <1>2, PushLosesNone
<1>4. Cardinality(Lost(f, Array(f)')) <= Cardinality(Lost(f, Array(f)))
  BY <1>1, <1>3, NoMoreLost
<1>5. Cardinality(Lost(f, Array(f)')) \in Nat /\ Cardinality(Lost(f, Array(f))) \in Nat
  BY <1>1, LostFinite
<1>6. f.removals \in Nat
  BY <1>1 DEF Emission
<1> QED BY <1>1, <1>4, <1>5, <1>6

LEMMA OffPays ==
  ASSUME EmitterTypeOK, LossesAreRemovals, NEW e \in Events, NEW l \in Listeners, Off(e, l)
  PROVE  LossesAreRemovals'
<1>1. DOMAIN emissions' = DOMAIN emissions
  BY DEF Off
<1>2. ASSUME NEW i \in DOMAIN emissions
      PROVE  Cardinality(Lost(emissions'[i], listeners'[emissions'[i].event]))
               <= emissions'[i].removals
  <2> DEFINE f == emissions[i]
             g == emissions'[i]
             a == listeners[f.event]
             b == listeners'[f.event]
  <2>1. /\ f \in Emission /\ a \in Seq(Listeners) /\ f.removals \in Nat
        /\ Cardinality(Lost(f, a)) <= f.removals
    BY WalkType DEF Array
  <2>2. /\ g \in Emission /\ g.event = f.event /\ g.next = f.next /\ g.start = f.start
        /\ g.called = f.called
        /\ f.event = e => /\ b = RemoveFirst(a, l) /\ Contains(a, l)
                          /\ g.removals = f.removals + 1
        /\ f.event # e => g = f /\ b = a
    BY OffStep
  <2> HIDE DEF f, g, a, b
  <2>3. CASE f.event = e
    <3>1. Lost(g, b) = Lost(f, b)
      BY <2>2 DEF Lost, Ahead
    <3>2. PICK y : Lost(f, b) \subseteq Lost(f, a) \cup {y}
      BY <2>1, <2>2, <2>3, RemovalLosesOne
    <3>3. Cardinality(Lost(g, b)) <= Cardinality(Lost(f, a)) + 1
      BY <2>1, <2>2, <3>1, <3>2, OneMoreLost
    <3>4. Cardinality(Lost(g, b)) \in Nat /\ Cardinality(Lost(f, a)) \in Nat
      BY <2>1, <2>2, LostFinite
    <3>5. Cardinality(Lost(g, b)) <= g.removals
      BY <2>1, <2>2, <2>3, <3>3, <3>4
    <3> QED BY <2>2, <3>5 DEF f, g, b
  <2>4. CASE f.event # e
    <3>1. Cardinality(Lost(g, b)) <= g.removals
      BY <2>1, <2>2, <2>4
    <3> QED BY <2>2, <3>1 DEF f, g, b
  <2> QED BY <2>3, <2>4
<1> QED BY <1>1, <1>2 DEF LossesAreRemovals, Array

LEMMA EmitPays ==
  ASSUME EmitterTypeOK, LossesAreRemovals, NEW e \in Events, Emit(e)
  PROVE  LossesAreRemovals'
<1> DEFINE w == [event |-> e, next |-> 1, start |-> listeners[e], calling |-> FALSE,
                 called |-> <<>>, removals |-> 0, removed |-> {}]
<1>1. w \in Emission /\ listeners[e] \in Seq(Listeners)
  BY DEF EmitterTypeOK, Emission
<1>2. Lost(w, listeners[e]) = {}
  <2>1. \A j \in DOMAIN listeners[e] : Ahead(w, listeners[e], listeners[e][j])
    BY <1>1 DEF Ahead
  <2> QED BY <2>1 DEF Lost, ToSet
<1>3. Cardinality(Lost(w, listeners[e])) = 0
  BY <1>2, FS_EmptySet
<1>4. /\ emissions' = Append(emissions, w) /\ emissions \in Seq(Emission)
      /\ listeners' = listeners
  BY DEF Emit, EmitterTypeOK
<1> HIDE DEF w
<1>5. \A i \in DOMAIN emissions' :
        emissions'[i] = w \/ (i \in DOMAIN emissions /\ emissions'[i] = emissions[i])
  BY <1>1, <1>4
<1>6. w.removals = 0 /\ w.event = e
  BY DEF w
<1> QED BY <1>3, <1>4, <1>5, <1>6 DEF LossesAreRemovals, Array

\* The top walk goes on as g.
LEMMA ReplaceTopPays ==
  ASSUME EmitterTypeOK, LossesAreRemovals, ~EmitterIdle, NEW g \in Emission, ReplaceTop(g),
         UNCHANGED listeners, g.event = Top.event, g.removals = Top.removals,
         Lost(g, Array(Top)) \subseteq Lost(Top, Array(Top))
  PROVE  LossesAreRemovals'
<1>1. emissions \in Seq(Emission) /\ emissions # <<>> /\ emissions' = Append(Front(emissions), g)
  BY DEF EmitterTypeOK, EmitterIdle, ReplaceTop
<1>2. Len(emissions) \in DOMAIN emissions /\ Top = emissions[Len(emissions)] /\ Top \in Emission
  BY <1>1 DEF Top, Last
<1>3. \A i \in DOMAIN emissions' :
        emissions'[i] = g \/ (i \in DOMAIN emissions /\ emissions'[i] = emissions[i])
  <2>1. /\ emissions' \in Seq(Emission) /\ Len(emissions') = Len(emissions)
        /\ emissions'[Len(emissions)] = g
        /\ \A i \in 1..Len(emissions) : i # Len(emissions) => emissions'[i] = emissions[i]
    BY <1>1, LastReplaced
  <2>2. DOMAIN emissions' = 1..Len(emissions) /\ DOMAIN emissions = 1..Len(emissions)
    BY <1>1, <2>1
  <2> QED BY <2>1, <2>2
<1>4. Cardinality(Lost(Top, Array(Top))) <= Top.removals
  BY <1>2 DEF LossesAreRemovals
<1>5. Cardinality(Lost(g, Array(Top))) <= Cardinality(Lost(Top, Array(Top)))
  BY <1>2, NoMoreLost
<1>6. /\ Cardinality(Lost(g, Array(Top))) \in Nat /\ Cardinality(Lost(Top, Array(Top))) \in Nat
      /\ g.removals \in Nat
  BY <1>2, LostFinite DEF Emission
<1>7. Cardinality(Lost(g, listeners[g.event])) <= g.removals
  BY <1>4, <1>5, <1>6 DEF Array
<1>8. \A i \in DOMAIN emissions :
        Cardinality(Lost(emissions[i], listeners[emissions[i].event])) <= emissions[i].removals
  BY DEF LossesAreRemovals, Array
<1> QED BY <1>3, <1>7, <1>8 DEF LossesAreRemovals, Array

LEMMA CallListenerPays ==
  ASSUME EmitterTypeOK, LossesAreRemovals, CallListener
  PROVE  LossesAreRemovals'
<1> DEFINE l == Array(Top)[Top.next]
           g == [Top EXCEPT !.next = @ + 1, !.calling = TRUE, !.called = Append(@, l)]
<1>1. /\ Top \in Emission /\ Array(Top) \in Seq(Listeners)
      /\ Top.next \in DOMAIN Array(Top) /\ l \in Listeners
  BY TopType, CalledIsThere DEF CallListener
<1>2. g \in Emission
  <2>1. Top.next + 1 \in Nat \ {0} /\ Append(Top.called, l) \in Seq(Listeners)
    BY <1>1 DEF Emission
  <2> HIDE DEF l
  <2>2. \A k \in Nat \ {0}, s \in Seq(Listeners) :
          [Top EXCEPT !.next = k, !.calling = TRUE, !.called = s] \in Emission
    BY <1>1 DEF Emission
  <2> QED BY <2>1, <2>2
<1>3. /\ g.event = Top.event /\ g.start = Top.start /\ g.removals = Top.removals
      /\ g.next = Top.next + 1 /\ g.called = Append(Top.called, l)
  BY <1>1 DEF Emission
<1>4. ReplaceTop(g) /\ ~EmitterIdle /\ UNCHANGED listeners
  BY DEF CallListener
<1> HIDE DEF g
<1>5. Lost(g, Array(Top)) \subseteq Lost(Top, Array(Top))
  BY <1>1, <1>2, <1>3, CallLosesNone
<1> QED BY <1>2, <1>3, <1>4, <1>5, ReplaceTopPays

LEMMA ListenerDonePays ==
  ASSUME EmitterTypeOK, LossesAreRemovals, ListenerReturns \/ ListenerThrows
  PROVE  LossesAreRemovals'
<1> DEFINE g == [Top EXCEPT !.calling = FALSE]
<1>1. ReplaceTop(g) /\ ~EmitterIdle /\ UNCHANGED listeners
  BY DEF ListenerReturns, ListenerThrows, AfterThrow
<1>2. Top \in Emission
  BY <1>1, TopType
<1>3. /\ g \in Emission /\ g.event = Top.event /\ g.start = Top.start /\ g.next = Top.next
      /\ g.called = Top.called /\ g.removals = Top.removals
  BY <1>2 DEF Emission
<1> HIDE DEF g
<1>4. Lost(g, Array(Top)) \subseteq Lost(Top, Array(Top))
  BY <1>3 DEF Lost, Ahead
<1> QED BY <1>1, <1>3, <1>4, ReplaceTopPays

LEMMA EmitReturnsPays ==
  ASSUME EmitterTypeOK, LossesAreRemovals, EmitReturns
  PROVE  LossesAreRemovals'
<1>1. emissions \in Seq(Emission) /\ emissions # <<>> /\ emissions' = Front(emissions)
  BY DEF EmitterTypeOK, EmitReturns, EmitterIdle
<1>2. \A i \in DOMAIN emissions' : i \in DOMAIN emissions /\ emissions'[i] = emissions[i]
  <2>1. /\ Front(emissions) \in Seq(Emission)
        /\ \A i \in 1..Len(Front(emissions)) :
             i \in 1..Len(emissions) /\ Front(emissions)[i] = emissions[i]
    BY <1>1, FrontLast
  <2> QED BY <1>1, <2>1
<1> QED BY <1>2 DEF EmitReturns, LossesAreRemovals, Array

LEMMA NextPays == TypeOK /\ LossesAreRemovals /\ [Next]_vars => LossesAreRemovals'
<1> SUFFICES ASSUME TypeOK, LossesAreRemovals, [Next]_vars
             PROVE  LossesAreRemovals'
  OBVIOUS
<1>1. EmitterTypeOK /\ "CONNECT" \in Events /\ "DISCONNECT" \in Events /\ "ATTEMPT" \in Events
  BY SocketAssumption DEF TypeOK
<1>2. CASE \E e \in Conns : Opens(e) \/ Closes(e)
  BY <1>1, <1>2, EmitPays DEF Opens, Closes, SocketEvent
<1>3. CASE Tick
  BY <1>1, <1>3, EmitPays DEF Tick
<1>4. CASE TickEnds
  BY <1>1, <1>4, EmitReturnsPays DEF TickEnds
<1>5. CASE EmissionGoesOn
  BY <1>1, <1>5, CallListenerPays, ListenerDonePays, EmitReturnsPays DEF EmissionGoesOn
<1>6. CASE UNCHANGED emitterVars
  BY <1>6 DEF emitterVars, LossesAreRemovals, Array
<1>7. CASE AppActs
  BY <1>1, <1>6, <1>7, OnPays, OffPays, EmitPays DEF AppActs
<1> QED BY <1>2, <1>3, <1>4, <1>5, <1>6, <1>7 DEF Next, SocketNext, vars

(* However deep emissions nest and whatever listeners do, an emission reaches
   every listener that was there from its beginning to its end, but for one at
   most for every listener that was removed from its array meanwhile. *)
THEOREM EmissionsReach == Spec => []MissesAtMostRemovals
<1>1. Init => LossesAreRemovals
  BY DEF Init, LossesAreRemovals
<1>2. TypeOK /\ LossesAreRemovals => MissesAtMostRemovals
  <2> SUFFICES ASSUME EmitterTypeOK, LossesAreRemovals, NEW i \in DOMAIN emissions,
                      WalkOver(emissions[i])
               PROVE  Cardinality(Missed(emissions[i])) <= emissions[i].removals
    BY DEF TypeOK, MissesAtMostRemovals
  <2> DEFINE f == emissions[i]
             lost == Lost(f, Array(f))
  <2>1. /\ f \in Emission /\ f.removals \in Nat /\ Array(f) \in Seq(Listeners)
        /\ Cardinality(lost) <= f.removals
    BY WalkType
  <2>2. IsFiniteSet(lost) /\ Cardinality(lost) \in Nat
    BY <2>1, LostFinite
  <2>3. Missed(f) \subseteq lost
    BY <2>1, MissedAreLost
  <2>4. Cardinality(Missed(f)) <= Cardinality(lost) /\ Cardinality(Missed(f)) \in Nat
    BY <2>2, <2>3, FS_Subset, FS_CardinalityType
  <2> HIDE DEF f, lost
  <2>5. Cardinality(Missed(f)) <= f.removals
    BY <2>1, <2>2, <2>4
  <2> QED BY <2>5 DEF f
<1> QED BY <1>1, <1>2, NextPays, TypeCorrect, PTL DEF Spec

-----------------------------------------------------------------------------
(* Who hears an emission twice.                                             *)

NoRepeats(a) == \A i, j \in DOMAIN a : a[i] = a[j] => i = j

\* Whom the walk f over a has called is behind it, or was removed.
CalledAreBehind(f, a) ==
  \A i \in DOMAIN f.called :
    \/ f.called[i] \in f.removed
    \/ \E j \in DOMAIN a : j < f.next /\ a[j] = f.called[i]

\* Who was called twice was removed.
RepeatsRemoved(f) ==
  \A i, j \in DOMAIN f.called :
    (i # j /\ f.called[i] = f.called[j]) => f.called[i] \in f.removed

(* The inductive invariant: an array names a listener once, so who is behind a
   walk is not ahead of it. *)
WalksInv ==
  /\ \A e \in Events : NoRepeats(listeners[e])
  /\ \A k \in DOMAIN emissions :
       /\ CalledAreBehind(emissions[k], Array(emissions[k]))
       /\ RepeatsRemoved(emissions[k])

\* A push keeps the places of those that were there.
LEMMA PushKeepsPlaces ==
  ASSUME NEW a \in Seq(Listeners), NEW l \in Listeners, ~Contains(a, l), NoRepeats(a)
  PROVE  /\ NoRepeats(Append(a, l))
         /\ \A f : CalledAreBehind(f, a) => CalledAreBehind(f, Append(a, l))
<1> DEFINE b == Append(a, l)
<1>1. /\ b \in Seq(Listeners) /\ DOMAIN a = 1..Len(a) /\ DOMAIN b = 1..(Len(a) + 1)
      /\ Len(a) \in Nat /\ b[Len(a) + 1] = l /\ \A i \in DOMAIN a : b[i] = a[i]
  OBVIOUS
<1>2. \A i \in DOMAIN a : a[i] # l
  BY <1>1 DEF Contains
<1>3. \A i \in DOMAIN b : i \in DOMAIN a \/ i = Len(a) + 1
  BY <1>1
<1>4. \A i \in DOMAIN a : i \in DOMAIN b
  BY <1>1
<1> HIDE DEF b
<1>5. NoRepeats(b)
  BY <1>1, <1>2, <1>3 DEF NoRepeats
<1>6. \A f : CalledAreBehind(f, a) => CalledAreBehind(f, b)
  BY <1>1, <1>4 DEF CalledAreBehind
<1> QED BY <1>5, <1>6 DEF b

\* The others move down, if they move.
LEMMA RemovalMovesDown ==
  ASSUME NEW a \in Seq(Listeners), NEW l, Contains(a, l), NoRepeats(a),
         NEW f \in Emission, NEW g \in Emission, CalledAreBehind(f, a),
         g.called = f.called, g.next = f.next, g.removed = f.removed \cup {l}
  PROVE  NoRepeats(RemoveFirst(a, l)) /\ CalledAreBehind(g, RemoveFirst(a, l))
<1> DEFINE b == RemoveFirst(a, l)
<1>1. PICK x \in 1..Len(a) :
        /\ a[x] = l /\ b \in Seq(Listeners) /\ Len(b) = Len(a) - 1
        /\ \A i \in 1..(Len(a) - 1) : b[i] = IF i < x THEN a[i] ELSE a[i + 1]
  BY FirstRemoved
<1>2. Len(a) \in Nat /\ DOMAIN a = 1..Len(a) /\ DOMAIN b = 1..(Len(a) - 1) /\ f.next \in Nat
  BY <1>1 DEF Emission
<1> HIDE DEF b
<1>3. NoRepeats(b)
  <2> SUFFICES ASSUME NEW i \in DOMAIN b, NEW j \in DOMAIN b, b[i] = b[j] PROVE i = j
    BY DEF NoRepeats
  <2> DEFINE p == IF i < x THEN i ELSE i + 1
             q == IF j < x THEN j ELSE j + 1
  <2>1. p \in DOMAIN a /\ q \in DOMAIN a /\ a[p] = a[q]
    BY <1>1, <1>2
  <2>2. p = q
    BY <2>1 DEF NoRepeats
  <2> QED BY <1>1, <1>2, <2>2
<1>4. CalledAreBehind(g, b)
  <2> SUFFICES ASSUME NEW i \in DOMAIN f.called, f.called[i] \notin g.removed
               PROVE  \E j \in DOMAIN b : j < f.next /\ b[j] = f.called[i]
    BY DEF CalledAreBehind
  <2>1. PICK k \in DOMAIN a : k < f.next /\ a[k] = f.called[i]
    BY DEF CalledAreBehind
  <2>2. k # x
    BY <1>1, <2>1
  <2> DEFINE m == IF k < x THEN k ELSE k - 1
  <2>3. m \in DOMAIN b /\ b[m] = a[k] /\ m < f.next
    BY <1>1, <1>2, <2>1, <2>2
  <2> QED BY <2>1, <2>3
<1> QED BY <1>3, <1>4 DEF b

\* Who is called next has not been called, or was removed since.
LEMMA CallGoesAhead ==
  ASSUME NEW a \in Seq(Listeners), NoRepeats(a), NEW f \in Emission, NEW g \in Emission,
         CalledAreBehind(f, a), RepeatsRemoved(f), f.next \in DOMAIN a,
         g.called = Append(f.called, a[f.next]), g.next = f.next + 1, g.removed = f.removed
  PROVE  CalledAreBehind(g, a) /\ RepeatsRemoved(g)
<1> DEFINE l == a[f.next]
           n == Len(f.called)
<1>1. /\ f.called \in Seq(Listeners) /\ f.next \in Nat /\ n \in Nat /\ l \in Listeners
      /\ DOMAIN a = 1..Len(a) /\ Len(a) \in Nat
  BY DEF Emission
<1>2. /\ DOMAIN f.called = 1..n /\ DOMAIN g.called = 1..(n + 1)
      /\ g.called[n + 1] = l /\ \A i \in 1..n : g.called[i] = f.called[i]
  BY <1>1
<1> HIDE DEF l, n
<1>3. \A i \in DOMAIN g.called : i \in DOMAIN f.called \/ i = n + 1
  BY <1>1, <1>2
<1>4. CalledAreBehind(g, a)
  <2> SUFFICES ASSUME NEW i \in DOMAIN g.called, g.called[i] \notin g.removed
               PROVE  \E j \in DOMAIN a : j < g.next /\ a[j] = g.called[i]
    BY DEF CalledAreBehind
  <2>1. CASE i \in DOMAIN f.called
    <3>1. PICK j \in DOMAIN a : j < f.next /\ a[j] = f.called[i]
      BY <1>2, <2>1 DEF CalledAreBehind
    <3>2. j < g.next /\ a[j] = g.called[i]
      BY <1>1, <1>2, <2>1, <3>1
    <3> QED BY <3>2
  <2>2. CASE i = n + 1
    <3>1. f.next < g.next /\ a[f.next] = g.called[i]
      BY <1>1, <1>2, <2>2 DEF l
    <3> QED BY <3>1
  <2> QED BY <1>3, <2>1, <2>2
<1>5. ASSUME NEW i \in DOMAIN f.called, f.called[i] = l
      PROVE  l \in f.removed
  <2> SUFFICES ASSUME NEW j \in DOMAIN a, j < f.next, a[j] = f.called[i] PROVE FALSE
    BY <1>5 DEF CalledAreBehind
  <2>1. j = f.next
    BY <1>5 DEF NoRepeats, l
  <2> QED BY <1>1, <2>1
<1>6. RepeatsRemoved(g)
  <2> SUFFICES ASSUME NEW i \in DOMAIN g.called, NEW j \in DOMAIN g.called,
                      i # j, g.called[i] = g.called[j]
               PROVE  g.called[i] \in f.removed
    BY DEF RepeatsRemoved
  <2>1. CASE i \in DOMAIN f.called /\ j \in DOMAIN f.called
    BY <1>2, <2>1 DEF RepeatsRemoved
  <2>2. CASE i = n + 1 /\ j \in DOMAIN f.called
    BY <1>2, <1>5, <2>2
  <2>3. CASE j = n + 1 /\ i \in DOMAIN f.called
    BY <1>2, <1>5, <2>3
  <2> QED BY <1>3, <2>1, <2>2, <2>3
<1> QED BY <1>4, <1>6

LEMMA OnKeepsWalks ==
  ASSUME EmitterTypeOK, WalksInv, NEW e \in Events, NEW l \in Listeners, On(e, l)
  PROVE  WalksInv'
<1>1. CASE Contains(listeners[e], l)
  <2>1. listeners' = listeners /\ emissions' = emissions
    BY <1>1 DEF On, Pushed, EmitterTypeOK
  <2> QED BY <2>1 DEF WalksInv, Array
<1>2. CASE ~Contains(listeners[e], l)
  <2> DEFINE a == listeners[e]
  <2>1. /\ emissions' = emissions /\ listeners'[e] = Append(a, l) /\ a \in Seq(Listeners)
        /\ \A x \in Events : x # e => listeners'[x] = listeners[x]
    BY <1>2 DEF On, Pushed, EmitterTypeOK
  <2>2. /\ NoRepeats(Append(a, l))
        /\ \A f : CalledAreBehind(f, a) => CalledAreBehind(f, Append(a, l))
    BY <1>2, <2>1, PushKeepsPlaces DEF WalksInv
  <2>3. \A x \in Events : NoRepeats(listeners'[x])
    BY <2>1, <2>2 DEF WalksInv
  <2>4. ASSUME NEW k \in DOMAIN emissions
        PROVE  CalledAreBehind(emissions[k], listeners'[emissions[k].event])
    <3>1. emissions[k] \in Emission
      BY DEF EmitterTypeOK
    <3>2. emissions[k].event \in Events
      BY <3>1 DEF Emission
    <3> QED BY <2>1, <2>2, <3>2 DEF WalksInv, Array
  <2> QED BY <2>1, <2>3, <2>4 DEF WalksInv, Array
<1> QED BY <1>1, <1>2

LEMMA OffKeepsWalks ==
  ASSUME EmitterTypeOK, WalksInv, NEW e \in Events, NEW l \in Listeners, Off(e, l)
  PROVE  WalksInv'
<1>1. /\ listeners[e] \in Seq(Listeners) /\ Contains(listeners[e], l)
      /\ listeners'[e] = RemoveFirst(listeners[e], l)
      /\ \A x \in Events : x # e => listeners'[x] = listeners[x]
      /\ DOMAIN emissions' = DOMAIN emissions
  BY DEF Off, EmitterTypeOK
<1>2. NoRepeats(listeners'[e])
  <2> DEFINE f == [event |-> e, next |-> 1, start |-> listeners[e], calling |-> FALSE,
                   called |-> <<>>, removals |-> 0, removed |-> {}]
             g == [event |-> e, next |-> 1, start |-> listeners[e], calling |-> FALSE,
                   called |-> <<>>, removals |-> 0, removed |-> {l}]
  <2>1. f \in Emission /\ g \in Emission /\ CalledAreBehind(f, listeners[e])
    BY <1>1 DEF Emission, CalledAreBehind
  <2>2. NoRepeats(listeners[e])
    BY DEF WalksInv
  <2>3. g.called = f.called /\ g.next = f.next /\ g.removed = f.removed \cup {l}
    OBVIOUS
  <2> HIDE DEF f, g
  <2> QED BY <1>1, <2>1, <2>2, <2>3, RemovalMovesDown
<1>3. \A x \in Events : NoRepeats(listeners'[x])
  BY <1>1, <1>2 DEF WalksInv
<1>4. ASSUME NEW k \in DOMAIN emissions
      PROVE  /\ CalledAreBehind(emissions'[k], listeners'[emissions'[k].event])
             /\ RepeatsRemoved(emissions'[k])
  <2> DEFINE f == emissions[k]
             g == emissions'[k]
             a == listeners[f.event]
             b == listeners'[f.event]
  <2>1. /\ f \in Emission /\ g \in Emission /\ a \in Seq(Listeners)
        /\ g.event = f.event /\ g.next = f.next /\ g.called = f.called
        /\ f.event = e => /\ b = RemoveFirst(a, l) /\ Contains(a, l)
                          /\ g.removed = f.removed \cup {l}
        /\ f.event # e => g = f /\ b = a
    BY OffStep
  <2>2. f.event \in Events
    BY <2>1 DEF Emission
  <2>3. NoRepeats(a) /\ CalledAreBehind(f, a) /\ RepeatsRemoved(f)
    BY <2>2 DEF WalksInv, Array
  <2> HIDE DEF f, g, a, b
  <2>4. CalledAreBehind(g, b)
    BY <2>1, <2>3, RemovalMovesDown
  <2>5. RepeatsRemoved(g)
    BY <2>1, <2>3 DEF RepeatsRemoved
  <2> QED BY <2>1, <2>4, <2>5 DEF f, g, b
<1> QED BY <1>1, <1>3, <1>4 DEF WalksInv, Array

LEMMA EmitKeepsWalks ==
  ASSUME EmitterTypeOK, WalksInv, NEW e \in Events, Emit(e)
  PROVE  WalksInv'
<1> DEFINE w == [event |-> e, next |-> 1, start |-> listeners[e], calling |-> FALSE,
                 called |-> <<>>, removals |-> 0, removed |-> {}]
<1>1. CalledAreBehind(w, listeners[w.event]) /\ RepeatsRemoved(w)
  BY DEF CalledAreBehind, RepeatsRemoved
<1>2. w \in Emission
  BY DEF EmitterTypeOK, Emission
<1>3. /\ emissions' = Append(emissions, w) /\ emissions \in Seq(Emission)
      /\ listeners' = listeners
  BY DEF Emit, EmitterTypeOK
<1> HIDE DEF w
<1>4. \A k \in DOMAIN emissions' :
        emissions'[k] = w \/ (k \in DOMAIN emissions /\ emissions'[k] = emissions[k])
  BY <1>2, <1>3
<1> QED BY <1>1, <1>3, <1>4 DEF WalksInv, Array

\* The top walk goes on as g.
LEMMA ReplaceTopKeepsWalks ==
  ASSUME EmitterTypeOK, WalksInv, ~EmitterIdle, NEW g \in Emission, ReplaceTop(g),
         UNCHANGED listeners, g.event = Top.event,
         CalledAreBehind(g, Array(Top)), RepeatsRemoved(g)
  PROVE  WalksInv'
<1>1. emissions \in Seq(Emission) /\ emissions # <<>> /\ emissions' = Append(Front(emissions), g)
  BY DEF EmitterTypeOK, EmitterIdle, ReplaceTop
<1>2. \A k \in DOMAIN emissions' :
        emissions'[k] = g \/ (k \in DOMAIN emissions /\ emissions'[k] = emissions[k])
  <2>1. /\ emissions' \in Seq(Emission) /\ Len(emissions') = Len(emissions)
        /\ emissions'[Len(emissions)] = g
        /\ \A i \in 1..Len(emissions) : i # Len(emissions) => emissions'[i] = emissions[i]
    BY <1>1, LastReplaced
  <2>2. DOMAIN emissions' = 1..Len(emissions) /\ DOMAIN emissions = 1..Len(emissions)
    BY <1>1, <2>1
  <2> QED BY <2>1, <2>2
<1> QED BY <1>2 DEF WalksInv, Array

\* Of the walk on top.
LEMMA TopWalks ==
  ASSUME EmitterTypeOK, WalksInv, ~EmitterIdle
  PROVE  NoRepeats(Array(Top)) /\ CalledAreBehind(Top, Array(Top)) /\ RepeatsRemoved(Top)
<1>1. Len(emissions) \in DOMAIN emissions /\ Top = emissions[Len(emissions)]
  BY DEF EmitterTypeOK, EmitterIdle, Top, Last
<1>2. Top.event \in Events
  BY TopType DEF Emission
<1> QED BY <1>1, <1>2 DEF WalksInv, Array

LEMMA CallListenerKeepsWalks ==
  ASSUME EmitterTypeOK, WalksInv, CallListener
  PROVE  WalksInv'
<1> DEFINE l == Array(Top)[Top.next]
           g == [Top EXCEPT !.next = @ + 1, !.calling = TRUE, !.called = Append(@, l)]
<1>1. /\ Top \in Emission /\ Array(Top) \in Seq(Listeners)
      /\ Top.next \in DOMAIN Array(Top) /\ l \in Listeners
  BY TopType, CalledIsThere DEF CallListener
<1>2. g \in Emission
  <2>1. Top.next + 1 \in Nat \ {0} /\ Append(Top.called, l) \in Seq(Listeners)
    BY <1>1 DEF Emission
  <2> HIDE DEF l
  <2>2. \A k \in Nat \ {0}, s \in Seq(Listeners) :
          [Top EXCEPT !.next = k, !.calling = TRUE, !.called = s] \in Emission
    BY <1>1 DEF Emission
  <2> QED BY <2>1, <2>2
<1>3. /\ g.event = Top.event /\ g.removed = Top.removed
      /\ g.next = Top.next + 1 /\ g.called = Append(Top.called, l)
  BY <1>1 DEF Emission
<1>4. ReplaceTop(g) /\ ~EmitterIdle /\ UNCHANGED listeners
  BY DEF CallListener
<1> HIDE DEF g
<1>5. NoRepeats(Array(Top)) /\ CalledAreBehind(Top, Array(Top)) /\ RepeatsRemoved(Top)
  BY <1>4, TopWalks
<1>6. CalledAreBehind(g, Array(Top)) /\ RepeatsRemoved(g)
  <2> DEFINE f == Top
             a == Array(Top)
  <2> HIDE DEF f, a
  <2>1. /\ a \in Seq(Listeners) /\ NoRepeats(a) /\ f \in Emission /\ f.next \in DOMAIN a
        /\ CalledAreBehind(f, a) /\ RepeatsRemoved(f)
        /\ g.called = Append(f.called, a[f.next]) /\ g.next = f.next + 1 /\ g.removed = f.removed
    BY <1>1, <1>3, <1>5 DEF f, a
  <2>2. CalledAreBehind(g, a) /\ RepeatsRemoved(g)
    BY <1>2, <2>1, CallGoesAhead
  <2> QED BY <2>2 DEF a
<1> QED BY <1>2, <1>3, <1>4, <1>6, ReplaceTopKeepsWalks

LEMMA ListenerDoneKeepsWalks ==
  ASSUME EmitterTypeOK, WalksInv, ListenerReturns \/ ListenerThrows
  PROVE  WalksInv'
<1> DEFINE g == [Top EXCEPT !.calling = FALSE]
<1>1. ReplaceTop(g) /\ ~EmitterIdle /\ UNCHANGED listeners
  BY DEF ListenerReturns, ListenerThrows, AfterThrow
<1>2. Top \in Emission
  BY <1>1, TopType
<1>3. /\ g \in Emission /\ g.event = Top.event /\ g.next = Top.next
      /\ g.called = Top.called /\ g.removed = Top.removed
  BY <1>2 DEF Emission
<1> HIDE DEF g
<1>4. CalledAreBehind(g, Array(Top)) /\ RepeatsRemoved(g)
  BY <1>1, <1>3, TopWalks DEF CalledAreBehind, RepeatsRemoved
<1> QED BY <1>1, <1>3, <1>4, ReplaceTopKeepsWalks

LEMMA EmitReturnsKeepsWalks ==
  ASSUME EmitterTypeOK, WalksInv, EmitReturns
  PROVE  WalksInv'
<1>1. emissions \in Seq(Emission) /\ emissions # <<>> /\ emissions' = Front(emissions)
  BY DEF EmitterTypeOK, EmitReturns, EmitterIdle
<1>2. \A i \in DOMAIN emissions' : i \in DOMAIN emissions /\ emissions'[i] = emissions[i]
  <2>1. /\ Front(emissions) \in Seq(Emission)
        /\ \A i \in 1..Len(Front(emissions)) :
             i \in 1..Len(emissions) /\ Front(emissions)[i] = emissions[i]
    BY <1>1, FrontLast
  <2> QED BY <1>1, <2>1
<1> QED BY <1>2 DEF EmitReturns, WalksInv, Array

LEMMA NextKeepsWalks == TypeOK /\ WalksInv /\ [Next]_vars => WalksInv'
<1> SUFFICES ASSUME TypeOK, WalksInv, [Next]_vars
             PROVE  WalksInv'
  OBVIOUS
<1>1. EmitterTypeOK /\ "CONNECT" \in Events /\ "DISCONNECT" \in Events /\ "ATTEMPT" \in Events
  BY SocketAssumption DEF TypeOK
<1>2. CASE \E e \in Conns : Opens(e) \/ Closes(e)
  BY <1>1, <1>2, EmitKeepsWalks DEF Opens, Closes, SocketEvent
<1>3. CASE Tick
  BY <1>1, <1>3, EmitKeepsWalks DEF Tick
<1>4. CASE TickEnds
  BY <1>1, <1>4, EmitReturnsKeepsWalks DEF TickEnds
<1>5. CASE EmissionGoesOn
  BY <1>1, <1>5, CallListenerKeepsWalks, ListenerDoneKeepsWalks, EmitReturnsKeepsWalks
  DEF EmissionGoesOn
<1>6. CASE UNCHANGED emitterVars
  BY <1>6 DEF emitterVars, WalksInv, Array
<1>7. CASE AppActs
  BY <1>1, <1>6, <1>7, OnKeepsWalks, OffKeepsWalks, EmitKeepsWalks DEF AppActs
<1> QED BY <1>2, <1>3, <1>4, <1>5, <1>6, <1>7 DEF Next, SocketNext, vars

(* Whoever comes and goes and however deep emissions nest, nobody hears the
   same emission twice but who was removed from its array meanwhile. *)
THEOREM RepeatsAreOfRemoved == Spec => []HeardTwiceOnlyIfRemoved
<1>1. Init => WalksInv
  <2> SUFFICES ASSUME Init PROVE WalksInv
    OBVIOUS
  <2>1. \A e \in Events : NoRepeats(listeners[e])
    BY DEF Init, NoRepeats
  <2> QED BY <2>1 DEF Init, WalksInv
<1>2. WalksInv => HeardTwiceOnlyIfRemoved
  BY DEF WalksInv, RepeatsRemoved, HeardTwiceOnlyIfRemoved
<1> QED BY <1>1, <1>2, NextKeepsWalks, TypeCorrect, PTL DEF Spec

=============================================================================
