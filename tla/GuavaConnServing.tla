------------------------ MODULE GuavaConnServing ------------------------
(***************************************************************************)
(* GuavaConn, with clients that wait for each answer, implements           *)
(* HttpServing: the callbacks of one connection never get out of step.     *)
(* With Pipelining it does not (a second answer may start while the first  *)
(* is being written).                                                      *)
(***************************************************************************)
EXTENDS GuavaConn

PhaseOf(c) ==
    CASE stream[c] = "none" -> "away"
      [] stream[c] \in {"closing", "freed"} -> "gone"
      [] stream[c] = "open" /\ writeReq[c] # 0 -> "answering"
      [] stream[c] = "open" /\ writeReq[c] = 0 ->
            IF parser[c] \in {"headers", "body"} THEN "taking" ELSE "waiting"

Phases == [c \in Conns |-> PhaseOf(c)]

Deaf == [c \in Conns |-> parser[c] = "error"]

Answers == [c \in Conns |-> {m \in Msgs : resp[c][m] = "written"}]

Serving == INSTANCE HttpServing WITH
    up <- process = "up",
    phase <- Phases,
    deaf <- Deaf,
    stays <- promised,
    taken <- request,
    answered <- Answers

\* Seen through the mapping, every step of the callbacks is a step of
\* HttpServing or none.
ImplementsServing == Serving!Spec
============================================================================
