----------------------------- MODULE SessionKV -----------------------------
(***************************************************************************)
(* What a session store shared by several server processes promises.  A    *)
(* set takes effect at once, some time before it returns, or never; a      *)
(* session may be lost at any time; a get answers with what the session    *)
(* was at some time since it was called, with what a set of it under way   *)
(* since then has put or wanted to put, or with nothing.  So nobody ever   *)
(* gets a content that had been replaced or deleted before the call, one   *)
(* put under another id, or a part of one.                                 *)
(***************************************************************************)
CONSTANTS Procs, Sids, Contents, Gone

VARIABLES
    session,     \* the content under every id, or Gone
    call,        \* what each process has called
    answer       \* the result of its last get

vars == <<session, call, answer>>

Idle == [op |-> "none"]
Setting(s, c) == [op |-> "set", sid |-> s, content |-> c]
Getting(s, may) == [op |-> "get", sid |-> s, may |-> may]

Init ==
    /\ session = [s \in Sids |-> Gone]
    /\ call = [p \in Procs |-> Idle]
    /\ answer = [p \in Procs |-> Gone]

CallSet(p, s, c) ==
    /\ call[p] = Idle
    /\ call' = [call EXCEPT ![p] = Setting(s, c)]
    /\ UNCHANGED answer
    /\ session' \in {session, [session EXCEPT ![s] = Gone]}

\* Gets of s that are under way may answer c from now on.
Reaching(calls, s, c) ==
    {[q \in Procs |-> IF q \in Q THEN [calls[q] EXCEPT !.may = @ \cup {c}] ELSE calls[q]] :
        Q \in SUBSET {q \in Procs : calls[q].op = "get" /\ calls[q].sid = s}}

\* The set of process p returns: it has taken effect, or it has lost the
\* session or done nothing because it failed or another call came between.
Set(p) ==
    /\ call[p].op = "set"
    /\ LET s == call[p].sid
           c == call[p].content
       IN  /\ session' \in {session, [session EXCEPT ![s] = c], [session EXCEPT ![s] = Gone]}
           /\ call' \in Reaching([call EXCEPT ![p] = Idle], s, c)
    /\ UNCHANGED answer

\* The process ends in the middle of its call, and all it knows with it.
Drop(p) ==
    /\ call[p] # Idle
    /\ call' = [call EXCEPT ![p] = Idle]
    /\ answer' = [answer EXCEPT ![p] = Gone]
    /\ UNCHANGED session

CallGet(p, s) ==
    /\ call[p] = Idle
    /\ call' = [call EXCEPT ![p] = Getting(s, {session[s], Gone})]
    /\ UNCHANGED <<session, answer>>

Answer(p, c) ==
    /\ call[p].op = "get" /\ c \in call[p].may
    /\ answer' = [answer EXCEPT ![p] = c]
    /\ call' = [call EXCEPT ![p] = Idle]
    /\ UNCHANGED session

AnswerAtOnce(p) ==
    /\ call[p] = Idle
    /\ answer' = [answer EXCEPT ![p] = Gone]
    /\ UNCHANGED <<session, call>>

Lose(s) ==
    /\ session' = [session EXCEPT ![s] = Gone]
    /\ UNCHANGED <<call, answer>>

Next ==
    \/ \E s \in Sids : Lose(s)
    \/ \E p \in Procs :
          \/ \E s \in Sids : CallGet(p, s) \/ \E c \in Contents : CallSet(p, s, c)
          \/ Set(p) \/ Drop(p) \/ AnswerAtOnce(p)
          \/ \E c \in Contents \cup {Gone} : Answer(p, c)

Spec == Init /\ [][Next]_vars
============================================================================
