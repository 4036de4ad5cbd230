----------------------------- MODULE EventEmitter -----------------------------
(***************************************************************************)
(* src/common/EventEmitter.ts: listeners by event.  emit() walks the LIVE  *)
(* array of the event with forEach, so what a listener does to that array  *)
(* while it is being called changes whom the walk still reaches: forEach   *)
(* visits the indices up to the length the array had when it began, skips  *)
(* those that are gone by then, and never those that come after.           *)
(*                                                                         *)
(* A walk is a record on a stack, because a listener may emit as well.     *)
(* clear(), which nothing calls and no owner exposes, is left out.         *)
(***************************************************************************)
EXTENDS SequencesExt

CONSTANTS Events, Listeners

VARIABLES
  listeners,           \* the array of each event; empty where there is none
  emissions            \* the emit() calls on the stack, the outermost first

emitterVars == <<listeners, emissions>>

(* start and called are history: the array when the walk began and whom it
   has called; removals counts the splices of its array since, removed has
   whom they took out. *)
Emission ==
  [event : Events, next : Nat \ {0}, start : Seq(Listeners), calling : BOOLEAN,
   called : Seq(Listeners), removals : Nat, removed : SUBSET Listeners]

EmitterTypeOK ==
  /\ listeners \in [Events -> Seq(Listeners)]
  /\ emissions \in Seq(Emission)

EmitterIdle == emissions = <<>>

Top == Last(emissions)

\* JavaScript runs one thing at a time: code outside the emitter runs in a job
\* of its own or in the listener that is being called.
CodeRuns == ~EmitterIdle => Top.calling

ReplaceTop(f) == emissions' = Append(Front(emissions), f)

-----------------------------------------------------------------------------

\* An on() that does not look whether the listener is there.
PushedAgain(e, l) == Append(listeners[e], l)

\* A listener is registered once for an event.
Pushed(e, l) ==
  IF Contains(listeners[e], l) THEN listeners[e] ELSE Append(listeners[e], l)

On(e, l) ==
  /\ listeners' = [listeners EXCEPT ![e] = Pushed(e, l)]
  /\ UNCHANGED emissions

\* The splice moves the later listeners one index down, under every walk.
Off(e, l) ==
  /\ Contains(listeners[e], l)
  /\ listeners' = [listeners EXCEPT ![e] = RemoveFirst(@, l)]
  /\ emissions' = [i \in DOMAIN emissions |->
                     IF emissions[i].event = e
                     THEN [emissions[i] EXCEPT !.removals = @ + 1,
                                               !.removed = @ \cup {l}]
                     ELSE emissions[i]]

Emit(e) ==
  /\ emissions' = Append(emissions,
       [event |-> e, next |-> 1, start |-> listeners[e], calling |-> FALSE,
        called |-> <<>>, removals |-> 0, removed |-> {}])
  /\ UNCHANGED listeners

\* What the walk f reads.
Array(f) == listeners[f.event]

WalkGoesOn(f) == f.next <= Len(f.start) /\ f.next <= Len(Array(f))

CallListener ==
  /\ ~EmitterIdle /\ ~Top.calling /\ WalkGoesOn(Top)
  /\ ReplaceTop([Top EXCEPT !.next = @ + 1, !.calling = TRUE,
                            !.called = Append(@, Array(Top)[Top.next])])
  /\ UNCHANGED listeners

\* No try around the listener: its exception ends the walk.
AfterThrowEnds(f) == [f EXCEPT !.calling = FALSE, !.next = Len(f.start) + 1]

\* A handler of the exception that loses what the walk was doing.
AfterThrowForgets(f) == [event |-> f.event]

\* The exception is caught and printed, forEach goes on.
AfterThrow(f) == [f EXCEPT !.calling = FALSE]

ListenerReturns ==
  /\ ~EmitterIdle /\ Top.calling
  /\ ReplaceTop([Top EXCEPT !.calling = FALSE])
  /\ UNCHANGED listeners

ListenerThrows ==
  /\ ~EmitterIdle /\ Top.calling
  /\ ReplaceTop(AfterThrow(Top))
  /\ UNCHANGED listeners

WalkOver(f) == ~f.calling /\ ~WalkGoesOn(f)

EmitReturns ==
  /\ ~EmitterIdle /\ WalkOver(Top)
  /\ emissions' = Front(emissions)
  /\ UNCHANGED listeners

-----------------------------------------------------------------------------

\* Listeners that were there when the walk began and are there now, and
\* were not called.
Missed(f) == (ToSet(f.start) \cap ToSet(listeners[f.event])) \ ToSet(f.called)

(* emit() reaches all the listeners of its event, those after one that threw
   included, except that every removal during the walk may cost one: the next
   listener moves into the place already visited.  (The comment of emit says
   it dispatches "to all listeners of that specific key".) *)
MissesAtMostRemovals ==
  \A i \in DOMAIN emissions :
    LET f == emissions[i]
    IN  WalkOver(f) => Cardinality(Missed(f)) <= f.removals

(* Nobody hears the same emission twice, except who was removed while it went
   on: registered again behind the place the walk had reached, such a listener
   is called once more.  The CONNECT of a connection makes a page flush and ask
   for its schema once, however emissions nest and whoever comes and goes. *)
HeardTwiceOnlyIfRemoved ==
  \A k \in DOMAIN emissions :
    LET f == emissions[k]
    IN  \A i, j \in DOMAIN f.called :
          (i # j /\ f.called[i] = f.called[j]) => f.called[i] \in f.removed

=============================================================================
