------------------------------ MODULE AdsCall ------------------------------
(***************************************************************************)
(* What AmsConnection::AdsRequest promises to the threads that call it.    *)
(*                                                                         *)
(* A call is in progress until it returns.  It returns "ok", "failure" or  *)
(* "error" only if the remote side has answered this very call, with data, *)
(* with a result other than 0 in the body of its answer, or with an error  *)
(* before it; "timeout" and "unsent" it may return in any case.  The data  *)
(* of the caller is that of the answer when the call returns "ok" or       *)
(* "failure", and never changes while no call is in progress.              *)
(***************************************************************************)
CONSTANT Callers

VARIABLES
  busy,     \* the callers with a call in progress
  answer,   \* answer[c]: "none" or what the last call of c was answered
  outcome,  \* outcome[c]: what the last call of c returned
  content   \* content[c]: "old", "answer" or "partial", what c's buffer holds

vars == <<busy, answer, outcome, content>>

Init ==
  /\ busy = {}
  /\ answer = [c \in Callers |-> "none"]
  /\ outcome = [c \in Callers |-> "none"]
  /\ content = [c \in Callers |-> "old"]

Call(c) ==
  /\ c \notin busy
  /\ busy' = busy \cup {c}
  /\ answer' = [answer EXCEPT ![c] = "none"]
  /\ outcome' = [outcome EXCEPT ![c] = "none"]
  /\ content' = [content EXCEPT ![c] = "old"]

Answer(c, kind) ==
  /\ c \in busy
  /\ answer[c] = "none"
  /\ answer' = [answer EXCEPT ![c] = kind]
  /\ UNCHANGED <<busy, outcome, content>>

(* An answer that comes after the call has returned has no effect. *)
Fill(c, how) ==
  /\ c \in busy
  /\ answer[c] \in {"data", "failure"}
  /\ content' = [content EXCEPT ![c] = how]
  /\ UNCHANGED <<busy, answer, outcome>>

Return(c, result) ==
  /\ c \in busy
  /\ result = "ok" => answer[c] = "data" /\ content[c] = "answer"
  /\ result = "failure" => answer[c] = "failure" /\ content[c] = "answer"
  /\ result = "error" => answer[c] = "error"
  /\ busy' = busy \ {c}
  /\ outcome' = [outcome EXCEPT ![c] = result]
  /\ UNCHANGED <<answer, content>>

Next ==
  \E c \in Callers :
    \/ Call(c)
    \/ \E kind \in {"data", "failure", "error"} : Answer(c, kind)
    \/ \E how \in {"answer", "partial"} : Fill(c, how)
    \/ \E result \in {"ok", "failure", "error", "timeout", "unsent"} :
         Return(c, result)

Spec == Init /\ [][Next]_vars

=============================================================================
