-------------------------- MODULE GuavaFileStore --------------------------
(***************************************************************************)
(* The file based session store (guava_session_store_file.c): one file per *)
(* session id in /tmp, shared by all server processes of the machine.  Set *)
(* and get are an fopen, a transfer through a stdio buffer and an fclose,  *)
(* between which another process may do anything and the own one may be    *)
(* killed.  A marshalled session fits into the buffer, so it is written by *)
(* one write and read by one read.                                         *)
(***************************************************************************)
EXTENDS Naturals, FiniteSets

CONSTANTS
    Procs,         \* the server processes
    Sids,          \* session ids
    Contents,      \* the contents of sessions
    Odd,           \* those that hold a value marshal cannot write
    Inodes         \* bound: files made

VARIABLES
    dir,           \* the file of each id, NoFile if there is none
    data,          \* what each file holds: Empty, a content, or Unreadable
    proc,          \* what each process is doing
    result,        \* the result of its last get
    \* History:
    since          \* what each file a process is reading from held since fopen

vars == <<dir, data, proc, result, since>>

NoFile == "no file"
Empty == "empty"
Unreadable == "unreadable"
PyNone == "None"

ASSUME FileStoreAssumption ==
    /\ Odd \subseteq Contents /\ NoFile \notin Inodes
    /\ {Empty, Unreadable, PyNone} \cap Contents = {}

Idle == [op |-> "none"]
Writing(s, c, i) == [op |-> "set", sid |-> s, content |-> c, inode |-> i]
Reading(s, i) == [op |-> "get", sid |-> s, inode |-> i]

Init ==
    /\ dir = [s \in Sids |-> NoFile]
    /\ data = [i \in Inodes |-> Empty]
    /\ proc = [p \in Procs |-> Idle]
    /\ result = [p \in Procs |-> PyNone]
    /\ since = [p \in Procs |-> {}]

\* Files neither in the directory nor open.
Free == {i \in Inodes : (\A s \in Sids : dir[s] # i) /\ (\A p \in Procs : proc[p].op = "none" \/ proc[p].inode # i)}

\* The reading processes see what is written.
Watch(newData) ==
    since' = [p \in Procs |-> IF proc[p].op = "get" /\ newData[proc[p].inode] # data[proc[p].inode]
                                THEN since[p] \cup {newData[proc[p].inode]} ELSE since[p]]

Write(i, what) ==
    /\ data' = [data EXCEPT ![i] = what]
    /\ Watch([data EXCEPT ![i] = what])

\* guava_session_store_file_set as far as the fopen with mode "wb", which
\* empties the file or makes one.
SetOpens(p, s, c) ==
    /\ proc[p] = Idle
    /\ \/ /\ dir[s] # NoFile
          /\ Write(dir[s], Empty)
          /\ proc' = [proc EXCEPT ![p] = Writing(s, c, dir[s])]
          /\ UNCHANGED <<dir, result>>
       \/ /\ dir[s] = NoFile
          /\ \E i \in Free :
                /\ dir' = [dir EXCEPT ![s] = i]
                /\ Write(i, Empty)
                /\ proc' = [proc EXCEPT ![p] = Writing(s, c, i)]
          /\ UNCHANGED result

Leave(p) == proc' = [proc EXCEPT ![p] = Idle]

Marshalled(c) == IF c \in Odd THEN Unreadable ELSE c

\* Its PyMarshal_WriteObjectToFile and fclose, wherever the file is by now; an
\* object that cannot be marshalled makes the file unreadable.
SetWrites(p) ==
    /\ proc[p].op = "set"
    /\ Write(proc[p].inode, Marshalled(proc[p].content))
    /\ Leave(p)
    /\ UNCHANGED <<dir, result>>

\* guava_session_store_file_get: no file, None.
GetFindsNone(p, s) ==
    /\ proc[p] = Idle /\ dir[s] = NoFile
    /\ result' = [result EXCEPT ![p] = PyNone]
    /\ UNCHANGED <<dir, data, proc, since>>

\* Its fopen.
GetOpens(p, s) ==
    /\ proc[p] = Idle /\ dir[s] # NoFile
    /\ proc' = [proc EXCEPT ![p] = Reading(s, dir[s])]
    /\ since' = [since EXCEPT ![p] = {data[dir[s]]}]
    /\ UNCHANGED <<dir, data, result>>

\* Variant for the mutation checks: for what is no object the last result is
\* returned.
GetReadsCached(p) ==
    /\ proc[p].op = "get"
    /\ LET d == data[proc[p].inode] IN
        result' = [result EXCEPT ![p] = IF d \in Contents THEN d ELSE @]
    /\ Leave(p) /\ since' = [since EXCEPT ![p] = {}]
    /\ UNCHANGED <<dir, data>>

\* Its PyMarshal_ReadObjectFromFile and fclose: what is no object is None.
GetReads(p) ==
    /\ proc[p].op = "get"
    /\ LET d == data[proc[p].inode] IN
        result' = [result EXCEPT ![p] = IF d \in Contents THEN d ELSE PyNone]
    /\ Leave(p) /\ since' = [since EXCEPT ![p] = {}]
    /\ UNCHANGED <<dir, data>>

\* guava_session_store_file_delete: unlink.
Delete(p, s) ==
    /\ proc[p] = Idle
    /\ dir' = [dir EXCEPT ![s] = NoFile]
    /\ UNCHANGED <<data, proc, result, since>>

\* The process is killed, and started again with nothing in hand.
Crash(p) ==
    /\ proc[p] # Idle
    /\ Leave(p) /\ since' = [since EXCEPT ![p] = {}]
    /\ result' = [result EXCEPT ![p] = PyNone]
    /\ UNCHANGED <<dir, data>>

Next ==
    \E p \in Procs :
        \/ \E s \in Sids : \/ \E c \in Contents : SetOpens(p, s, c)
                           \/ GetFindsNone(p, s) \/ GetOpens(p, s) \/ Delete(p, s)
        \/ SetWrites(p) \/ GetReads(p) \/ Crash(p)

Spec == Init /\ [][Next]_vars

----------------------------------------------------------------------------
(* Properties. *)

\* What a get of s finds.
Found(s) == IF dir[s] # NoFile /\ data[dir[s]] \in Contents THEN data[dir[s]] ELSE PyNone

Call(p) ==
    CASE proc[p].op = "none" -> [op |-> "none"]
      [] proc[p].op = "set" -> [op |-> "set", sid |-> proc[p].sid, content |-> proc[p].content]
      [] proc[p].op = "get" -> [op |-> "get", sid |-> proc[p].sid,
                                may |-> (since[p] \cap Contents) \cup {PyNone}]

KV == INSTANCE SessionKV WITH
    Gone <- PyNone,
    session <- [s \in Sids |-> Found(s)],
    call <- [p \in Procs |-> Call(p)],
    answer <- result

\* The file store keeps the promise of SessionKV, although its set is not
\* atomic: a get overlapping a set answers the new content or nothing.
ImplementsSessionKV == KV!Spec
============================================================================
