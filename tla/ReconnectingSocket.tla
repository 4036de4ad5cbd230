-------------------------- MODULE ReconnectingSocket --------------------------
(***************************************************************************)
(* WebSocketClient with its EventEmitter and an application: listeners of  *)
(* CONNECT, DISCONNECT and ATTEMPT come and go, also while an event is     *)
(* being emitted, listeners throw and emit, and stopTrying() is called at  *)
(* any moment (WebSocketRpc never does).  A browser event or a tick of the *)
(* interval is one job: nothing else of the page runs until the emission   *)
(* it makes has returned.                                                  *)
(***************************************************************************)
EXTENDS WebSocketClient, EventEmitter

CONSTANT MaxActs       \* bound: things the application does

ASSUME SocketAssumption ==
  /\ {"CONNECT", "DISCONNECT", "ATTEMPT"} \subseteq Events
  /\ IsFiniteSet(Listeners) /\ Listeners = 1..Cardinality(Listeners)
  /\ MaxActs \in Nat

VARIABLES
  ticking,             \* onAttempt is on the stack, connect() is still to come
  acts                 \* things the application has done

appVars == <<ticking, acts>>

vars == <<transportVars, clientVars, emitterVars, appVars>>

TypeOK ==
  /\ TransportTypeOK({})
  /\ SocketTypeOK
  /\ EmitterTypeOK
  /\ ticking \in BOOLEAN
  /\ acts \in 0..MaxActs

\* The job that constructs the client also registers the first listeners;
\* they are numbered in that order.
Init ==
  /\ TransportInit /\ SocketInit
  /\ listeners = [e \in Events |-> [l \in Listeners |-> l]]
  /\ emissions = <<>>
  /\ ticking = FALSE
  /\ acts = 0

-----------------------------------------------------------------------------
(* The browser's events and the interval.                                   *)

SocketEvent(name) ==
  /\ EmitterIdle
  /\ Emit(name)
  /\ UNCHANGED <<ticking, acts>>

Opens(e) == SocketOpens(e) /\ SocketEvent("CONNECT") /\ UNCHANGED <<c2s, discarded>>

Closes(e) == SocketCloses(e) /\ SocketEvent("DISCONNECT")

\* onAttempt() emits ATTEMPT on every tick, connected or not ...
Tick ==
  /\ trying /\ EmitterIdle
  /\ Emit("ATTEMPT")
  /\ ticking' = TRUE
  /\ UNCHANGED <<transportVars, clientVars, acts>>

\* ... and then connects, whatever the listeners did.
TickEnds ==
  /\ ticking /\ Len(emissions) = 1
  /\ EmitReturns
  /\ ticking' = FALSE
  /\ IF MayConnect THEN NewWebSocket ELSE UNCHANGED <<socket, connecting, cliEnd>>
  /\ UNCHANGED <<srvEnd, c2s, s2c, discarded, connected, trying, acts>>

EmissionGoesOn ==
  /\ \/ CallListener \/ ListenerReturns \/ ListenerThrows
     \/ ~(ticking /\ Len(emissions) = 1) /\ EmitReturns
  /\ UNCHANGED <<transportVars, clientVars, appVars>>

-----------------------------------------------------------------------------
(* The application: on, off and emit of the client go to its emitter.       *)

AppActs ==
  /\ CodeRuns
  /\ acts < MaxActs
  /\ acts' = acts + 1
  /\ UNCHANGED ticking
  /\ \/ /\ \E e \in Events, l \in Listeners : On(e, l) \/ Off(e, l)
        /\ UNCHANGED <<transportVars, clientVars>>
     \/ \E e \in Events : Emit(e) /\ UNCHANGED <<transportVars, clientVars>>
     \/ StopTrying /\ UNCHANGED emitterVars

SocketNext ==
  \/ Tick \/ TickEnds \/ EmissionGoesOn \/ AppActs
  \/ \E e \in Conns : Opens(e) \/ Closes(e)

ServerEndNext == \E e \in Conns : AcceptConnection(e) \/ ServerEndCloses(e)

Next == \/ SocketNext
        \/ ServerEndNext /\ UNCHANGED <<clientVars, emitterVars, appVars>>

(* The interval, the handshake and the two kinds of event are delivered, and a
   job runs to its end.  A socket's event that has happened waits while another
   job runs, so its delivery is strongly fair: the event loop takes it sooner
   or later, however often the interval fires. *)
Fairness ==
  /\ WF_vars(Tick)
  /\ WF_vars(TickEnds \/ EmissionGoesOn)
  /\ SF_vars(\E e \in Conns : Opens(e))
  /\ SF_vars(\E e \in Conns : srvEnd[e] = "CLOSED" /\ Closes(e))
  /\ WF_vars(/\ \E e \in Conns : AcceptConnection(e)
             /\ UNCHANGED <<clientVars, emitterVars, appVars>>)

Spec == Init /\ [][Next]_vars /\ Fairness

-----------------------------------------------------------------------------

(* Unless the application stops it, the client ends up connected for good
   once the breaks are over: no order of open and close events, and nothing a
   listener does, leaves the flags so that connect() always returns early. *)
ConnectedUnlessStopped == <>[](connected \/ ~trying)

=============================================================================
