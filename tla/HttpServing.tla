--------------------------- MODULE HttpServing ---------------------------
(***************************************************************************)
(* What guava promises to clients that wait for each answer: on every      *)
(* connection requests are taken and answered one at a time, an answer is  *)
(* given once and to the request taken last, and the connection ends with  *)
(* the answer that did not promise to stay, or when the client leaves.  A  *)
(* connection whose bytes could not be understood is kept but no longer    *)
(* served.  There are no buffers, callbacks or objects here.               *)
(***************************************************************************)
EXTENDS Naturals

CONSTANT Conns

VARIABLES
    up,          \* the server process runs
    phase,       \* what each connection is doing
    deaf,        \* the server no longer understands the client
    stays,       \* the newest answer promised to keep the connection
    taken,       \* requests taken on each connection
    answered     \* the numbers of those that were answered

vars == <<up, phase, deaf, stays, taken, answered>>

Init ==
    /\ up = TRUE
    /\ phase = [c \in Conns |-> "away"]
    /\ deaf = [c \in Conns |-> FALSE]
    /\ stays = [c \in Conns |-> FALSE]
    /\ taken = [c \in Conns |-> 0]
    /\ answered = [c \in Conns |-> {}]

Move(c, from, to) ==
    /\ up
    /\ phase[c] = from
    /\ phase' = [phase EXCEPT ![c] = to]

Connect(c) ==
    /\ Move(c, "away", "waiting")
    /\ UNCHANGED <<up, deaf, stays, taken, answered>>

Take(c) ==
    /\ ~ deaf[c]
    /\ Move(c, "waiting", "taking")
    /\ taken' = [taken EXCEPT ![c] = @ + 1]
    /\ UNCHANGED <<up, deaf, stays, answered>>

StartAnswer(c, stay) ==
    /\ ~ deaf[c]
    /\ Move(c, "taking", "answering")
    /\ stays' = [stays EXCEPT ![c] = stay]
    /\ UNCHANGED <<up, deaf, taken, answered>>

FinishAnswer(c) ==
    /\ Move(c, "answering", IF stays[c] THEN "waiting" ELSE "gone")
    /\ answered' = [answered EXCEPT ![c] = @ \cup {taken[c]}]
    /\ UNCHANGED <<up, deaf, stays, taken>>

Misunderstand(c) ==
    /\ up
    /\ phase[c] \in {"waiting", "taking", "answering"}
    /\ deaf' = [deaf EXCEPT ![c] = TRUE]
    /\ phase' = [phase EXCEPT ![c] = IF @ = "answering" THEN @ ELSE "waiting"]
    /\ UNCHANGED <<up, stays, taken, answered>>

Leave(c) ==
    /\ \E p \in {"waiting", "taking", "answering"} : Move(c, p, "gone")
    /\ UNCHANGED <<up, deaf, stays, taken, answered>>

Stop ==
    /\ up
    /\ up' = FALSE
    /\ UNCHANGED <<phase, deaf, stays, taken, answered>>

Next ==
    \/ Stop
    \/ \E c \in Conns :
          \/ Connect(c)
          \/ Take(c)
          \/ \E stay \in BOOLEAN : StartAnswer(c, stay)
          \/ FinishAnswer(c)
          \/ Misunderstand(c)
          \/ Leave(c)

Spec == Init /\ [][Next]_vars
============================================================================
