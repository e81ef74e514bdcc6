--------------------------- MODULE EffectJournal ---------------------------
(***************************************************************************)
(* What a live run promises, however its handlers interleave: a program     *)
(* asks for rounds of effects, each round is answered and logged whole and   *)
(* in the order it was asked, and the run comes to one outcome. A run that   *)
(* fails leaves no log.                                                      *)
(***************************************************************************)
EXTENDS Sequences

CONSTANTS
  Request,      \* what a program may ask for
  Answer,       \* what an effect may answer
  Entry(_, _),  \* the log entry of a request and its answer
  Nothing       \* no outcome yet

VARIABLES
  asked,   \* the requests of the current round, in order
  log,     \* the entries of the rounds before it
  outcome  \* Nothing, "returned" or "threw"

vars == <<asked, log, outcome>>

\* The program asks for another round or returns; or the run fails.
Ask    == asked' \in Seq(Request) \ {<<>>} /\ outcome' = Nothing
Return == asked' = <<>> /\ outcome' = "returned"
Fail   == asked' = <<>> /\ log' = <<>> /\ outcome' = "threw"

Init ==
  /\ log = <<>>
  /\ \/ asked \in Seq(Request) \ {<<>>} /\ outcome = Nothing
     \/ asked = <<>> /\ outcome \in {"returned", "threw"}

\* Every request of the round has an answer.
Answered ==
  \E answers \in [DOMAIN asked -> Answer] :
    log' = log \o [i \in DOMAIN asked |-> Entry(asked[i], answers[i])]

Next ==
  /\ outcome = Nothing
  /\ \/ Answered /\ (Ask \/ Return)
     \/ Fail

Spec == Init /\ [][Next]_vars
=============================================================================
