------------------------------- MODULE RpcCall -------------------------------
(***************************************************************************)
(* What the library promises of a remote call (README.md:3-10 and the      *)
(* comments of JsonRpc2.ts): a promise per call, settled at most once and  *)
(* only by an answer the server gave to that call, whose handler ran at    *)
(* most once.  A page that goes away takes its promises with it.           *)
(***************************************************************************)
EXTENDS Naturals

CONSTANT CallIds

VARIABLES
  promise,             \* state of the promise of each call
  ran,                 \* times the handler was run for it
  served               \* calls the server has taken

vars == <<promise, ran, served>>

Init ==
  /\ promise = [c \in CallIds |-> "idle"]
  /\ ran = [c \in CallIds |-> 0]
  /\ served = {}

Issue(c) ==
  /\ promise[c] = "idle"
  /\ promise' = [promise EXCEPT ![c] = "pending"]
  /\ UNCHANGED <<ran, served>>

\* The server takes the call: it runs the handler, or finds there is none.
Serve(c) ==
  /\ promise[c] \in {"pending", "gone"}
  /\ c \notin served
  /\ served' = served \cup {c}
  /\ ran' \in {ran, [ran EXCEPT ![c] = @ + 1]}
  /\ UNCHANGED promise

\* Resolved only if the handler ran.
SettleCall(c) ==
  /\ promise[c] = "pending"
  /\ c \in served
  /\ \/ ran[c] = 1 /\ promise' = [promise EXCEPT ![c] = "resolved"]
     \/ promise' = [promise EXCEPT ![c] = "rejected"]
  /\ UNCHANGED <<ran, served>>

PageGoes ==
  /\ promise' = [c \in CallIds |-> IF promise[c] = "pending" THEN "gone" ELSE promise[c]]
  /\ UNCHANGED <<ran, served>>

Next == PageGoes \/ \E c \in CallIds : Issue(c) \/ Serve(c) \/ SettleCall(c)

Spec == Init /\ [][Next]_vars

=============================================================================
