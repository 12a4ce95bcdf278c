---------------------------- MODULE CognitionCall ----------------------------
(***************************************************************************)
(* What the agent loop is promised by a cognition service: one request at  *)
(* a time, and for each either the result computed for that very request   *)
(* or an error, once.  Nothing is said of processes, threads and timeouts. *)
(***************************************************************************)

CONSTANTS
  Requests,   \* the requests, the warm-up among them
  NoRequest   \* no request is in progress; not one of Requests

VARIABLES
  asked,   \* the request in progress, or NoRequest
  reply    \* the last answer: "none", "error", or a request, for the result computed for it

vars == <<asked, reply>>

Init ==
  /\ asked = NoRequest
  /\ reply = "none"

Ask(r) ==
  /\ asked = NoRequest
  /\ asked' = r
  /\ reply' = "none"

Succeed ==
  /\ asked # NoRequest
  /\ asked' = NoRequest
  /\ reply' = asked

Fail ==
  /\ asked # NoRequest
  /\ asked' = NoRequest
  /\ reply' = "error"

\* The caller is cancelled while it waits; it hears no answer.
Abandon ==
  /\ asked # NoRequest
  /\ asked' = NoRequest
  /\ reply' = "none"

Next == (\E r \in Requests : Ask(r)) \/ Succeed \/ Fail \/ Abandon

Spec == Init /\ [][Next]_vars
=============================================================================
