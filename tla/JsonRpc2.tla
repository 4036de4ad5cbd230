------------------------------ MODULE JsonRpc2 -------------------------------
(***************************************************************************)
(* src/common/JsonRpc2.ts and src/common/Handlers.ts: the messages of the  *)
(* protocol and what running a handler comes to.                           *)
(*                                                                         *)
(* A message is a record of its kind and of the identity of the call or    *)
(* notification it carries.  createRpcId() draws a fresh string for every  *)
(* call; here calls are numbered in the order they are made, which is as   *)
(* fresh.  A notification has id null on the wire; its number only lets    *)
(* properties follow it.  Method names, params and results are left out:   *)
(* what matters of a result is which members the response ends up with.    *)
(***************************************************************************)
EXTENDS Naturals

CONSTANTS
  MaxCalls,            \* bound: calls the browser makes
  MaxNotes,            \* bound: notifications the browser sends
  HandlerKinds         \* what the registered handlers of a run do

\* missing: no handler; value: returns a result; void: returns undefined;
\* throws; promise: a promise that resolves; rejection: one that rejects.
AllHandlerKinds ==
  {"missing", "value", "void", "throws", "promise", "rejection"}

ASSUME JsonRpcAssumption ==
  /\ MaxCalls \in Nat
  /\ MaxNotes \in Nat
  /\ HandlerKinds \subseteq AllHandlerKinds

Calls == 1..MaxCalls
Notes == 1..MaxNotes

(* The members a response has after JSON.stringify, which drops members whose
   value is undefined and writes an Error as {}:
     result   result: r
     nothing  neither result nor error, from a handler returning undefined
     error    error: {}  *)
Bodies == {"result", "nothing", "error"}

Request(c) == [kind |-> "request", id |-> c]
Notification(n) == [kind |-> "notification", id |-> n]
Response(c, b) == [kind |-> "response", id |-> c, body |-> b]

Requests == [kind : {"request"}, id : Calls]
Notifications == [kind : {"notification"}, id : Notes]
Responses == [kind : {"response"}, id : Calls, body : Bodies]
Message == Requests \cup Notifications \cup Responses

\* isRpcRequest, and then `if (req.id)`.
IsRequest(m) == m.kind = "request"
IsNotification(m) == m.kind = "notification"
IsResponse(m) == m.kind = "response"

\* The body of the answer to a call whose handler does not return a promise.
BodyOf(k) == CASE k = "value" -> "result"
               [] k = "void" -> "nothing"
               [] k \in {"missing", "throws"} -> "error"

Async(k) == k \in {"promise", "rejection"}

\* A resolve() that hands on whatever the response holds.
OutcomeIsBody(b) == b

\* A resolve() that does not look at response.error.
OutcomeIgnoresError(b) == "resolved"

\* What the caller's promise settles to (resolve() tests response.error).
Outcome(b) == IF b = "error" THEN "rejected" ELSE "resolved"

=============================================================================
