--------------------------- MODULE MasterService ---------------------------
(***************************************************************************)
(* What a master of the gateway promises to the slaves that forward        *)
(* requests to it, whatever transport it speaks.                           *)
(*                                                                         *)
(* A request is numbered by its arrival.  It waits, is put on the wire     *)
(* (it is "serving"), and is then answered or lost.  The master has one    *)
(* request on the wire at a time, takes them in the order of arrival, may  *)
(* give up on those that waited too long, and never answers a request      *)
(* twice, or one it gave up on.  Whose answer it gives depends on whether  *)
(* the transport has transaction ids.                                      *)
(*                                                                         *)
(* One handler of the code often does several of these things under its    *)
(* lock (it delivers an answer, drops what has expired and sends the next  *)
(* request), so a step is described by what it may do to each request and  *)
(* not by a list of actions.                                               *)
(***************************************************************************)
EXTENDS Naturals

CONSTANTS
  MaxMessages,     \* how many requests are ever submitted
  Exact            \* whether the transport tells whose answer an answer is

VARIABLES
  status,          \* request -> where it is
  answer           \* request -> the request whose answer it was given, or 0

Messages == 1..MaxMessages

Statuses == {"new", "waiting", "serving", "answered", "lost"}

(***************************************************************************)
(* What one step may make of a request.  A request submitted to an idle    *)
(* master is on the wire at the end of the same step.                      *)
(***************************************************************************)
Successors(s) ==
  CASE s = "new"     -> {"new", "waiting", "serving"}
    [] s = "waiting" -> {"waiting", "serving", "lost"}
    [] s = "serving" -> {"serving", "answered", "lost"}
    [] OTHER         -> {s}

ServiceInit ==
  /\ status = [m \in Messages |-> "new"]
  /\ answer = [m \in Messages |-> 0]

(* At most one request enters the queue in a step, in order of arrival. *)
ArrivalsInOrder ==
  \A m \in Messages :
    (status[m] = "new" /\ status'[m] # "new") =>
      \A n \in Messages : IF n < m THEN status[n] # "new" ELSE status'[n] = "new" \/ n = m

(* Requests leave the queue from its head. *)
DeparturesInOrder ==
  \A m, n \in Messages :
    (n < m /\ status[m] # status'[m] /\ status'[m] \in {"serving", "lost"}
           /\ status[m] # "serving")
      => status'[n] # "waiting"

(* What a request may be given: its own answer; where the transport does   *)
(* not tell, also the late answer to an earlier request, which nobody has  *)
(* been given yet.                                                         *)
MayBeGiven(m) ==
  {m} \cup {n \in 1..(m - 1) :
              ~Exact /\ status[n] \in {"lost", "answered"} /\ \A k \in Messages : answer[k] # n}

AnswersFitting ==
  \A m \in Messages :
    IF status'[m] = "answered" /\ status[m] # "answered"
    THEN answer'[m] \in MayBeGiven(m)
    ELSE answer'[m] = answer[m]

(* One request on the wire. *)
SingleServing ==
  \A m, n \in Messages : status'[m] = "serving" /\ status'[n] = "serving" => m = n

ServiceNext ==
  /\ status' \in [Messages -> Statuses]
  /\ answer' \in [Messages -> 0..MaxMessages]
  /\ \A m \in Messages : status'[m] \in Successors(status[m])
  /\ ArrivalsInOrder
  /\ DeparturesInOrder
  /\ SingleServing
  /\ AnswersFitting

ServiceSpec == ServiceInit /\ [][ServiceNext]_<<status, answer>>
=============================================================================
