--------------------------- MODULE SlaveSession ----------------------------
(***************************************************************************)
(* What a slave of the gateway promises to the one party it serves on a    *)
(* line without transaction ids: only the latest request it has taken is   *)
(* ever answered, and at most once.  A request that is still unanswered    *)
(* when the next one is taken has been given up by the party that sent it, *)
(* and an answer to it would be mistaken for an answer to the next.        *)
(***************************************************************************)
EXTENDS Naturals, Sequences

CONSTANT MaxRequests      \* how many requests are ever sent

VARIABLES
  latest,     \* the last request taken, 0 before the first
  open,       \* it has not been answered
  answered    \* the requests answered so far

session == <<latest, open, answered>>

SessionInit ==
  /\ latest = 0
  /\ open = FALSE
  /\ answered = <<>>

(* A newer request is taken.  Requests that cannot be read are skipped. *)
Take ==
  /\ latest' \in (latest + 1)..MaxRequests
  /\ open' = TRUE
  /\ UNCHANGED answered

Answer ==
  /\ open
  /\ open' = FALSE
  /\ answered' = Append(answered, latest)
  /\ UNCHANGED latest

SessionNext == Take \/ Answer

SessionSpec == SessionInit /\ [][SessionNext]_session
=============================================================================
