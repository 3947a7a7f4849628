----------------------- MODULE GuavaFileStoreProofs -----------------------
(***************************************************************************)
(* The file store keeps the promise of SessionKV for any number of         *)
(* processes, ids, contents and files.  The reason is FileInv: a file has  *)
(* one id for as long as it is in the directory or open, and a process     *)
(* that reads has seen what its file holds.                                *)
(***************************************************************************)
EXTENDS GuavaFileStore, TLAPS

Data == Contents \cup {Empty, Unreadable}

Steps == {Idle} \cup {Writing(s, c, i) : s \in Sids, c \in Contents, i \in Inodes}
                \cup {Reading(s, i) : s \in Sids, i \in Inodes}

FileTypeOK ==
    /\ dir \in [Sids -> Inodes \cup {NoFile}]
    /\ data \in [Inodes -> Data]
    /\ proc \in [Procs -> Steps]
    /\ result \in [Procs -> Contents \cup {PyNone}]
    /\ since \in [Procs -> SUBSET Data]

\* A file belongs to one id, whoever has it open.
OwnerInv ==
    /\ \A s, t \in Sids : dir[s] # NoFile /\ dir[s] = dir[t] => s = t
    /\ \A p \in Procs, s \in Sids : proc[p].op # "none" /\ dir[s] = proc[p].inode => s = proc[p].sid
    /\ \A p, q \in Procs :
          proc[p].op # "none" /\ proc[q].op # "none" /\ proc[p].inode = proc[q].inode =>
              proc[p].sid = proc[q].sid

SinceInv == \A p \in Procs : proc[p].op = "get" => data[proc[p].inode] \in since[p]

FileInv == FileTypeOK /\ OwnerInv /\ SinceInv

----------------------------------------------------------------------------
(* Steps of processes. *)

LEMMA StepFields ==
    /\ Idle \in Steps /\ Idle.op = "none"
    /\ \A s \in Sids, c \in Contents, i \in Inodes :
          /\ Writing(s, c, i) \in Steps /\ Writing(s, c, i).op = "set" /\ Writing(s, c, i).sid = s
          /\ Writing(s, c, i).content = c /\ Writing(s, c, i).inode = i
    /\ \A s \in Sids, i \in Inodes :
          /\ Reading(s, i) \in Steps /\ Reading(s, i).op = "get" /\ Reading(s, i).sid = s
          /\ Reading(s, i).inode = i
    /\ \A x \in Steps : /\ x.op \in {"none", "set", "get"}
                        /\ x.op = "none" => x = Idle
                        /\ x.op # "none" => x.sid \in Sids /\ x.inode \in Inodes
                        /\ x.op = "set" => x.content \in Contents
  <1>1. Idle.op = "none" /\ Idle \in Steps
    BY DEF Idle, Steps
  <1>2. ASSUME NEW s \in Sids, NEW c \in Contents, NEW i \in Inodes
        PROVE  /\ Writing(s, c, i) \in Steps /\ Writing(s, c, i).op = "set" /\ Writing(s, c, i).sid = s
               /\ Writing(s, c, i).content = c /\ Writing(s, c, i).inode = i
    <2>1. Writing(s, c, i) \in Steps
      BY DEF Steps
    <2> QED BY <2>1 DEF Writing
  <1>3. ASSUME NEW s \in Sids, NEW i \in Inodes
        PROVE  /\ Reading(s, i) \in Steps /\ Reading(s, i).op = "get" /\ Reading(s, i).sid = s
               /\ Reading(s, i).inode = i
    <2>1. Reading(s, i) \in Steps
      BY DEF Steps
    <2> QED BY <2>1 DEF Reading
  <1>4. \A x \in Steps : \/ x = Idle
                         \/ \E s \in Sids, c \in Contents, i \in Inodes : x = Writing(s, c, i)
                         \/ \E s \in Sids, i \in Inodes : x = Reading(s, i)
    BY DEF Steps
  <1> QED BY <1>1, <1>2, <1>3, <1>4

\* A write into a file that exists; the readers see it.
LEMMA WriteEffect ==
    ASSUME FileInv, NEW i \in Inodes, NEW what \in Data, Write(i, what)
    PROVE  /\ data' \in [Inodes -> Data] /\ data'[i] = what
           /\ \A j \in Inodes \ {i} : data'[j] = data[j]
           /\ since' \in [Procs -> SUBSET Data]
           /\ \A p \in Procs :
                 \/ since'[p] = since[p] /\ (proc[p].op = "get" => data'[proc[p].inode] = data[proc[p].inode])
                 \/ proc[p].op = "get" /\ proc[p].inode = i /\ since'[p] = since[p] \cup {what}
  <1> USE DEF FileInv, FileTypeOK
  <1>1. data' = [data EXCEPT ![i] = what]
    BY DEF Write
  <1>2. since' = [p \in Procs |-> IF proc[p].op = "get" /\ data'[proc[p].inode] # data[proc[p].inode]
                                    THEN since[p] \cup {data'[proc[p].inode]} ELSE since[p]]
    BY <1>1 DEF Write, Watch
  <1>3. /\ data' \in [Inodes -> Data] /\ data'[i] = what
        /\ \A j \in Inodes \ {i} : data'[j] = data[j]
    BY <1>1
  <1>4. \A p \in Procs : proc[p].op = "get" => proc[p].inode \in Inodes
    BY StepFields
  <1>5. ASSUME NEW p \in Procs
        PROVE  /\ \/ since'[p] = since[p] /\ (proc[p].op = "get" => data'[proc[p].inode] = data[proc[p].inode])
                  \/ proc[p].op = "get" /\ proc[p].inode = i /\ since'[p] = since[p] \cup {what}
               /\ since'[p] \in SUBSET Data
    <2>1. CASE proc[p].op = "get" /\ data'[proc[p].inode] # data[proc[p].inode]
      <3>1. proc[p].inode = i /\ since'[p] = since[p] \cup {what}
        BY <1>2, <1>3, <1>4, <2>1
      <3>2. since[p] \cup {what} \in SUBSET Data
        OBVIOUS
      <3> QED BY <2>1, <3>1, <3>2
    <2>2. CASE ~ (proc[p].op = "get" /\ data'[proc[p].inode] # data[proc[p].inode])
      BY <1>2, <2>2
    <2> QED BY <2>1, <2>2
  <1>6. since' \in [Procs -> SUBSET Data]
    BY <1>2, <1>5
  <1> QED BY <1>3, <1>5, <1>6

\* The file that guava_session_store_file_set opens is that of its id, or
\* nobody else's: s is its only owner.
Owns(s, i) ==
    /\ \A t \in Sids \ {s} : dir[t] # i
    /\ \A q \in Procs : proc[q].op # "none" /\ proc[q].inode = i => proc[q].sid = s

LEMMA SetOpensAt ==
    ASSUME FileInv, NEW p \in Procs, NEW s \in Sids, NEW c \in Contents, SetOpens(p, s, c)
    PROVE  \E i \in Inodes :
              /\ proc[p] = Idle /\ Owns(s, i) /\ Write(i, Empty)
              /\ dir' = [dir EXCEPT ![s] = i]
              /\ proc' = [proc EXCEPT ![p] = Writing(s, c, i)]
              /\ result' = result
  <1> USE DEF FileInv, FileTypeOK
  <1>1. CASE dir[s] # NoFile
    <2>1. /\ dir[s] \in Inodes /\ Owns(s, dir[s])
      BY <1>1 DEF OwnerInv, Owns
    <2>2. /\ proc[p] = Idle /\ Write(dir[s], Empty) /\ dir' = dir /\ result' = result
          /\ proc' = [proc EXCEPT ![p] = Writing(s, c, dir[s])]
      BY <1>1 DEF SetOpens
    <2>3. dir = [dir EXCEPT ![s] = dir[s]]
      OBVIOUS
    <2> QED BY <2>1, <2>2, <2>3
  <1>2. CASE dir[s] = NoFile
    <2>1. PICK i \in Free : /\ dir' = [dir EXCEPT ![s] = i] /\ Write(i, Empty)
                            /\ proc' = [proc EXCEPT ![p] = Writing(s, c, i)]
      BY <1>2 DEF SetOpens
    <2>2. i \in Inodes /\ Owns(s, i)
      BY DEF Free, Owns
    <2>3. proc[p] = Idle /\ result' = result
      BY <1>2 DEF SetOpens
    <2> QED BY <2>1, <2>2, <2>3
  <1> QED BY <1>1, <1>2

----------------------------------------------------------------------------
(* The invariant. *)

LEMMA FileInitInv == Init => FileInv
  BY StepFields, FileStoreAssumption DEF Init, FileInv, FileTypeOK, OwnerInv, SinceInv, Data

LEMMA SetOpensKeeps ==
    ASSUME FileInv, NEW p \in Procs, NEW s \in Sids, NEW c \in Contents, SetOpens(p, s, c)
    PROVE  FileInv'
  <1> USE DEF FileInv
  <1>1. PICK i \in Inodes : /\ proc[p] = Idle /\ Owns(s, i) /\ Write(i, Empty)
                            /\ dir' = [dir EXCEPT ![s] = i]
                            /\ proc' = [proc EXCEPT ![p] = Writing(s, c, i)]
                            /\ result' = result
    BY SetOpensAt
  <1>2. Empty \in Data
    BY DEF Data
  <1>3. /\ data' \in [Inodes -> Data] /\ data'[i] = Empty
        /\ \A j \in Inodes \ {i} : data'[j] = data[j]
        /\ since' \in [Procs -> SUBSET Data]
        /\ \A q \in Procs :
              \/ since'[q] = since[q] /\ (proc[q].op = "get" => data'[proc[q].inode] = data[proc[q].inode])
              \/ proc[q].op = "get" /\ proc[q].inode = i /\ since'[q] = since[q] \cup {Empty}
    BY <1>1, <1>2, WriteEffect
  <1>4. FileTypeOK'
    BY <1>1, <1>3, StepFields DEF FileTypeOK
  <1>5. /\ proc'[p].op = "set" /\ proc'[p].sid = s /\ proc'[p].inode = i
        /\ \A q \in Procs \ {p} : proc'[q] = proc[q]
        /\ dir'[s] = i /\ \A t \in Sids \ {s} : dir'[t] = dir[t] /\ dir[t] # i
        /\ \A q \in Procs : proc[q].op # "none" /\ proc[q].inode = i => proc[q].sid = s
    BY <1>1, StepFields DEF FileTypeOK, Owns
  <1>6. OwnerInv'
    <2>1. ASSUME NEW t \in Sids, NEW u \in Sids, dir'[t] # NoFile, dir'[t] = dir'[u] PROVE t = u
      BY <1>5, <2>1 DEF OwnerInv
    <2>2. ASSUME NEW q \in Procs, NEW t \in Sids, proc'[q].op # "none", dir'[t] = proc'[q].inode
          PROVE  t = proc'[q].sid
      <3>1. CASE q = p
        BY <1>5, <2>2, <3>1
      <3>2. CASE q # p
        BY <1>5, <2>2, <3>2 DEF OwnerInv
      <3> QED BY <3>1, <3>2
    <2>3. ASSUME NEW q \in Procs, NEW r \in Procs, proc'[q].op # "none", proc'[r].op # "none",
                 proc'[q].inode = proc'[r].inode
          PROVE  proc'[q].sid = proc'[r].sid
      BY <1>5, <2>3 DEF OwnerInv
    <2> QED BY <2>1, <2>2, <2>3 DEF OwnerInv
  <1>7. SinceInv'
    <2> SUFFICES ASSUME NEW q \in Procs, proc'[q].op = "get" PROVE data'[proc'[q].inode] \in since'[q]
      BY DEF SinceInv
    <2>1. q # p /\ proc'[q] = proc[q]
      BY <1>5
    <2> QED BY <1>3, <2>1 DEF SinceInv
  <1> QED BY <1>4, <1>6, <1>7

\* A process that has become idle stands in nobody's way.
LEMMA LeaveKeepsOwners ==
    ASSUME FileInv, NEW p \in Procs, Leave(p), UNCHANGED dir
    PROVE  /\ OwnerInv' /\ proc' \in [Procs -> Steps]
           /\ proc'[p] = Idle /\ \A q \in Procs \ {p} : proc'[q] = proc[q]
  <1>1. /\ proc' \in [Procs -> Steps] /\ proc'[p] = Idle
        /\ \A q \in Procs \ {p} : proc'[q] = proc[q]
    BY StepFields DEF FileInv, FileTypeOK, Leave
  <1>2. \A q \in Procs : proc'[q].op # "none" => proc'[q] = proc[q]
    BY <1>1, StepFields
  <1> QED BY <1>1, <1>2 DEF FileInv, OwnerInv

LEMMA MarshalledIsData ==
    ASSUME NEW c \in Contents
    PROVE  Marshalled(c) \in Data
  BY DEF Marshalled, Data

LEMMA SetWritesKeeps ==
    ASSUME FileInv, NEW p \in Procs, SetWrites(p)
    PROVE  FileInv'
  <1> USE DEF FileInv
  <1>1. /\ proc[p].op = "set" /\ Leave(p) /\ UNCHANGED <<dir, result>>
        /\ Write(proc[p].inode, Marshalled(proc[p].content))
    BY DEF SetWrites
  <1>2. proc[p].inode \in Inodes /\ Marshalled(proc[p].content) \in Data
    BY <1>1, StepFields, MarshalledIsData DEF FileTypeOK
  <1>3. /\ data' \in [Inodes -> Data] /\ since' \in [Procs -> SUBSET Data]
        /\ data'[proc[p].inode] = Marshalled(proc[p].content)
        /\ \A q \in Procs :
              \/ since'[q] = since[q] /\ (proc[q].op = "get" => data'[proc[q].inode] = data[proc[q].inode])
              \/ /\ proc[q].op = "get" /\ proc[q].inode = proc[p].inode
                 /\ since'[q] = since[q] \cup {Marshalled(proc[p].content)}
    BY <1>1, <1>2, WriteEffect
  <1>4. /\ OwnerInv' /\ proc' \in [Procs -> Steps]
        /\ proc'[p] = Idle /\ \A q \in Procs \ {p} : proc'[q] = proc[q]
    BY <1>1, LeaveKeepsOwners
  <1>5. FileTypeOK'
    BY <1>1, <1>3, <1>4 DEF FileTypeOK
  <1>6. SinceInv'
    <2> SUFFICES ASSUME NEW q \in Procs, proc'[q].op = "get" PROVE data'[proc'[q].inode] \in since'[q]
      BY DEF SinceInv
    <2>1. proc'[q] = proc[q]
      BY <1>4, StepFields
    <2> QED BY <1>3, <2>1 DEF SinceInv
  <1> QED BY <1>4, <1>5, <1>6

LEMMA GetOpensKeeps ==
    ASSUME FileInv, NEW p \in Procs, NEW s \in Sids, GetOpens(p, s)
    PROVE  FileInv'
  <1> USE DEF FileInv
  <1>1. /\ dir[s] \in Inodes
        /\ proc' = [proc EXCEPT ![p] = Reading(s, dir[s])]
        /\ since' = [since EXCEPT ![p] = {data[dir[s]]}]
        /\ UNCHANGED <<dir, data, result>>
    BY DEF GetOpens, FileTypeOK
  <1>2. /\ proc' \in [Procs -> Steps] /\ since' \in [Procs -> SUBSET Data]
        /\ proc'[p].op = "get" /\ proc'[p].sid = s /\ proc'[p].inode = dir[s] /\ since'[p] = {data[dir[s]]}
        /\ \A q \in Procs \ {p} : proc'[q] = proc[q] /\ since'[q] = since[q]
    BY <1>1, StepFields DEF FileTypeOK
  <1>3. FileTypeOK'
    BY <1>1, <1>2 DEF FileTypeOK
  <1>4. Owns(s, dir[s])
    BY <1>1, FileStoreAssumption DEF OwnerInv, Owns
  <1>5. OwnerInv'
    BY <1>1, <1>2, <1>4 DEF OwnerInv, Owns
  <1>6. SinceInv'
    BY <1>1, <1>2 DEF SinceInv
  <1> QED BY <1>3, <1>5, <1>6

LEMMA EndKeeps ==
    ASSUME FileInv, NEW p \in Procs, GetReads(p) \/ Crash(p)
    PROVE  FileInv'
  <1> USE DEF FileInv
  <1>1. /\ Leave(p) /\ since' = [since EXCEPT ![p] = {}] /\ UNCHANGED <<dir, data>>
        /\ \/ result' = [result EXCEPT ![p] = PyNone]
           \/ result' = [result EXCEPT ![p] = data[proc[p].inode]] /\ data[proc[p].inode] \in Contents
    BY DEF GetReads, Crash
  <1>2. /\ OwnerInv' /\ proc' \in [Procs -> Steps]
        /\ proc'[p] = Idle /\ \A q \in Procs \ {p} : proc'[q] = proc[q]
    BY <1>1, LeaveKeepsOwners
  <1>3. FileTypeOK'
    BY <1>1, <1>2 DEF FileTypeOK
  <1>4. SinceInv'
    <2> SUFFICES ASSUME NEW q \in Procs, proc'[q].op = "get" PROVE data'[proc'[q].inode] \in since'[q]
      BY DEF SinceInv
    <2>1. q # p /\ proc'[q] = proc[q]
      BY <1>2, StepFields
    <2>2. since'[q] = since[q]
      BY <1>1, <2>1 DEF FileTypeOK
    <2> QED BY <1>1, <2>1, <2>2 DEF SinceInv
  <1> QED BY <1>2, <1>3, <1>4

LEMMA DirectoryKeeps ==
    ASSUME FileInv, NEW p \in Procs, NEW s \in Sids, GetFindsNone(p, s) \/ Delete(p, s)
    PROVE  FileInv'
  <1> USE DEF FileInv
  <1>1. CASE GetFindsNone(p, s)
    BY <1>1 DEF GetFindsNone, FileTypeOK, OwnerInv, SinceInv
  <1>2. CASE Delete(p, s)
    <2>1. dir' = [dir EXCEPT ![s] = NoFile] /\ UNCHANGED <<data, proc, result, since>>
      BY <1>2 DEF Delete
    <2>2. /\ FileTypeOK' /\ dir'[s] = NoFile /\ \A t \in Sids \ {s} : dir'[t] = dir[t]
      BY <2>1 DEF FileTypeOK
    <2>3. \A q \in Procs : proc[q].op # "none" => proc[q].inode # NoFile
      BY StepFields, FileStoreAssumption DEF FileTypeOK
    <2>4. OwnerInv'
      BY <2>1, <2>2, <2>3 DEF OwnerInv
    <2> QED BY <2>1, <2>2, <2>4 DEF SinceInv
  <1> QED BY <1>1, <1>2

LEMMA FileNextInv ==
    ASSUME FileInv, [Next]_vars
    PROVE  FileInv'
  <1>1. ASSUME NEW p \in Procs, NEW s \in Sids, NEW c \in Contents, SetOpens(p, s, c) PROVE FileInv'
    BY <1>1, SetOpensKeeps
  <1>2. ASSUME NEW p \in Procs, SetWrites(p) PROVE FileInv'
    BY <1>2, SetWritesKeeps
  <1>3. ASSUME NEW p \in Procs, NEW s \in Sids, GetOpens(p, s) PROVE FileInv'
    BY <1>3, GetOpensKeeps
  <1>4. ASSUME NEW p \in Procs, GetReads(p) \/ Crash(p) PROVE FileInv'
    BY <1>4, EndKeeps
  <1>5. ASSUME NEW p \in Procs, NEW s \in Sids, GetFindsNone(p, s) \/ Delete(p, s) PROVE FileInv'
    BY <1>5, DirectoryKeeps
  <1>6. CASE UNCHANGED vars
    BY <1>6 DEF vars, FileInv, FileTypeOK, OwnerInv, SinceInv
  <1> QED BY <1>1, <1>2, <1>3, <1>4, <1>5, <1>6 DEF Next

----------------------------------------------------------------------------
(* The refinement. *)

Sessions == [s \in Sids |-> Found(s)]
CallsNow == [p \in Procs |-> Call(p)]

\* What a get of process p may answer.
May(p) == (since[p] \cap Contents) \cup {PyNone}

LEMMA CallFields ==
    ASSUME NEW p \in Procs
    PROVE  /\ proc[p].op = "none" => Call(p) = KV!Idle
           /\ proc[p].op = "set" => Call(p) = KV!Setting(proc[p].sid, proc[p].content)
           /\ proc[p].op = "get" => Call(p) = KV!Getting(proc[p].sid, May(p))
  BY DEF Call, May, KV!Idle, KV!Setting, KV!Getting

LEMMA CallFieldsNext ==
    ASSUME NEW p \in Procs
    PROVE  /\ proc'[p].op = "none" => Call(p)' = KV!Idle
           /\ proc'[p].op = "set" => Call(p)' = KV!Setting(proc'[p].sid, proc'[p].content)
           /\ proc'[p].op = "get" => Call(p)' = KV!Getting(proc'[p].sid, May(p)')
  BY DEF Call, May, KV!Idle, KV!Setting, KV!Getting

\* A call that goes on, of which what is read has changed no content.
LEMMA SameCall ==
    ASSUME NEW p \in Procs, proc'[p] = proc[p], proc[p].op = "get" => May(p)' = May(p)
    PROVE  Call(p)' = Call(p)
  BY DEF Call, May

LEMMA InitRefines == Init => KV!Init
  <1> SUFFICES ASSUME Init PROVE KV!Init
    OBVIOUS
  <1>1. \A s \in Sids : Found(s) = PyNone
    BY DEF Init, Found
  <1>2. \A p \in Procs : Call(p) = KV!Idle
    BY CallFields, StepFields DEF Init
  <1> QED
    BY <1>1, <1>2 DEF Init, KV!Init

\* The fopen of a set loses the session.
LEMMA SetOpensRefines ==
    ASSUME FileInv, NEW p \in Procs, NEW s \in Sids, NEW c \in Contents, SetOpens(p, s, c)
    PROVE  KV!CallSet(p, s, c)
  <1> USE DEF FileInv
  <1>1. PICK i \in Inodes : /\ proc[p] = Idle /\ Owns(s, i) /\ Write(i, Empty)
                            /\ dir' = [dir EXCEPT ![s] = i]
                            /\ proc' = [proc EXCEPT ![p] = Writing(s, c, i)]
                            /\ result' = result
    BY SetOpensAt
  <1>2. Empty \in Data /\ Empty \notin Contents
    BY FileStoreAssumption DEF Data
  <1>3. /\ data'[i] = Empty /\ \A j \in Inodes \ {i} : data'[j] = data[j]
        /\ \A q \in Procs : since'[q] = since[q] \/ since'[q] = since[q] \cup {Empty}
    BY <1>1, <1>2, WriteEffect
  <1>4. Sessions' = [Sessions EXCEPT ![s] = PyNone]
    <2>1. Found(s)' = PyNone
      BY <1>1, <1>2, <1>3 DEF Found, FileTypeOK
    <2>2. ASSUME NEW t \in Sids \ {s} PROVE Found(t)' = Found(t)
      <3>1. dir'[t] = dir[t] /\ dir[t] # i
        BY <1>1 DEF Owns, FileTypeOK
      <3>2. dir[t] # NoFile => data'[dir[t]] = data[dir[t]]
        BY <1>3, <3>1 DEF FileTypeOK
      <3> QED BY <3>1, <3>2 DEF Found
    <2> QED BY <2>1, <2>2 DEF Sessions
  <1>5. Call(p) = KV!Idle
    BY <1>1, CallFields, StepFields
  <1>6. Call(p)' = KV!Setting(s, c)
    <2>1. proc'[p] = Writing(s, c, i)
      BY <1>1 DEF FileTypeOK
    <2> QED BY <2>1, CallFieldsNext, StepFields
  <1>7. ASSUME NEW q \in Procs \ {p} PROVE Call(q)' = Call(q)
    <2>1. proc'[q] = proc[q]
      BY <1>1 DEF FileTypeOK
    <2>2. May(q)' = May(q)
      BY <1>2, <1>3 DEF May
    <2> QED BY <2>1, <2>2, SameCall
  <1>8. CallsNow' = [CallsNow EXCEPT ![p] = KV!Setting(s, c)]
    BY <1>6, <1>7 DEF CallsNow
  <1> QED
    BY <1>1, <1>4, <1>5, <1>8 DEF KV!CallSet, Sessions, CallsNow

\* The write and fclose: the session is there, unless its file went or it
\* cannot be marshalled, and those who read the file may get it.
LEMMA SetWritesRefines ==
    ASSUME FileInv, NEW p \in Procs, SetWrites(p)
    PROVE  KV!Set(p)
  <1> USE DEF FileInv
  <1>0. PICK i \in Inodes, s \in Sids, c \in Contents :
            proc[p].op = "set" /\ proc[p].inode = i /\ proc[p].sid = s /\ proc[p].content = c
    BY StepFields DEF SetWrites, FileTypeOK
  <1> DEFINE written == Marshalled(c)
             Q == {q \in Procs : proc[q].op = "get" /\ proc[q].inode = i /\ since'[q] # since[q] /\ written \in Contents}
  <1>1. /\ UNCHANGED <<dir, result>> /\ Write(i, written)
        /\ proc' = [proc EXCEPT ![p] = Idle]
    BY <1>0 DEF SetWrites, Leave
  <1>2. written \in Data /\ (written \in Contents => written = c)
    BY MarshalledIsData, FileStoreAssumption DEF Marshalled
  <1> HIDE DEF written
  <1>3. /\ data'[i] = written /\ \A j \in Inodes \ {i} : data'[j] = data[j]
        /\ \A q \in Procs :
              \/ since'[q] = since[q]
              \/ proc[q].op = "get" /\ proc[q].inode = i /\ since'[q] = since[q] \cup {written}
    BY <1>1, <1>2, WriteEffect
  <1>4. \A t \in Sids : dir[t] = i => t = s
    BY <1>0 DEF OwnerInv
  <1>5. Sessions' \in {Sessions, [Sessions EXCEPT ![s] = c], [Sessions EXCEPT ![s] = PyNone]}
    <2>1. ASSUME NEW t \in Sids, dir[t] # i PROVE Found(t)' = Found(t)
      <3>1. dir'[t] = dir[t] /\ (dir[t] # NoFile => data'[dir[t]] = data[dir[t]])
        BY <1>1, <1>3, <2>1 DEF FileTypeOK
      <3> QED BY <3>1 DEF Found
    <2>2. CASE dir[s] = i
      <3>1. dir'[s] = i /\ data'[i] = written
        BY <1>1, <1>3, <2>2
      <3>2. Found(s)' = c \/ Found(s)' = PyNone
        BY <1>2, <3>1 DEF Found
      <3>3. \A t \in Sids \ {s} : Found(t)' = Found(t)
        BY <1>4, <2>1
      <3>4. CASE Found(s)' = c
        BY <3>3, <3>4 DEF Sessions
      <3>5. CASE Found(s)' = PyNone
        BY <3>3, <3>5 DEF Sessions
      <3> QED BY <3>2, <3>4, <3>5
    <2>3. CASE dir[s] # i
      <3>1. \A t \in Sids : Found(t)' = Found(t)
        BY <1>4, <2>1, <2>3
      <3> QED BY <3>1 DEF Sessions
    <2> QED BY <2>2, <2>3
  <1>6. Call(p) = KV!Setting(s, c)
    BY <1>0, CallFields
  <1>7. Call(p)' = KV!Idle
    <2>1. proc'[p] = Idle
      BY <1>1 DEF FileTypeOK
    <2> QED BY <2>1, CallFieldsNext, StepFields
  <1>8. p \notin Q
    BY <1>0
  <1>9. ASSUME NEW q \in Procs \ {p}
        PROVE  Call(q)' = IF q \in Q THEN [Call(q) EXCEPT !.may = @ \cup {c}] ELSE Call(q)
    <2>1. proc'[q] = proc[q]
      BY <1>1 DEF FileTypeOK
    <2>2. CASE q \in Q
      <3>1. May(q)' = May(q) \cup {c}
        BY <1>2, <1>3, <2>2 DEF May
      <3>2. Call(q) = KV!Getting(proc[q].sid, May(q)) /\ Call(q)' = KV!Getting(proc[q].sid, May(q)')
        BY <2>1, <2>2, CallFields, CallFieldsNext
      <3> QED BY <2>2, <3>1, <3>2 DEF KV!Getting
    <2>3. CASE q \notin Q
      <3>1. proc[q].op = "get" => May(q)' = May(q)
        BY <1>3, <2>3 DEF May
      <3> QED BY <2>1, <2>3, <3>1, SameCall
    <2> QED BY <2>2, <2>3
  <1>10. Q \subseteq {q \in Procs : [CallsNow EXCEPT ![p] = KV!Idle][q].op = "get"
                                     /\ [CallsNow EXCEPT ![p] = KV!Idle][q].sid = s}
    <2> SUFFICES ASSUME NEW q \in Q
                 PROVE  [CallsNow EXCEPT ![p] = KV!Idle][q].op = "get" /\ [CallsNow EXCEPT ![p] = KV!Idle][q].sid = s
      OBVIOUS
    <2>1. q \in Procs /\ q # p /\ proc[q].op = "get" /\ proc[q].inode = i
      BY <1>8
    <2>2. proc[q].sid = s
      BY <1>0, <2>1 DEF OwnerInv
    <2>3. [CallsNow EXCEPT ![p] = KV!Idle][q] = KV!Getting(s, May(q))
      BY <2>1, <2>2, CallFields DEF CallsNow
    <2> QED BY <2>3 DEF KV!Getting
  <1>11. CallsNow' = [q \in Procs |-> IF q \in Q THEN [[CallsNow EXCEPT ![p] = KV!Idle][q] EXCEPT !.may = @ \cup {c}]
                                      ELSE [CallsNow EXCEPT ![p] = KV!Idle][q]]
    <2>1. CallsNow'[p] = [CallsNow EXCEPT ![p] = KV!Idle][p]
      BY <1>7 DEF CallsNow
    <2>2. \A q \in Procs \ {p} : [CallsNow EXCEPT ![p] = KV!Idle][q] = Call(q)
      BY DEF CallsNow
    <2> HIDE DEF Q
    <2> QED BY <1>8, <1>9, <2>1, <2>2 DEF CallsNow
  <1> HIDE DEF Q
  <1>12. CallsNow' \in KV!Reaching([CallsNow EXCEPT ![p] = KV!Idle], s, c)
    BY <1>10, <1>11 DEF KV!Reaching
  <1>13. CallsNow[p] = KV!Setting(s, c)
    BY <1>6 DEF CallsNow
  <1>14. CallsNow[p].op = "set" /\ CallsNow[p].sid = s /\ CallsNow[p].content = c
    BY <1>13 DEF KV!Setting
  <1>15. result' = result
    BY <1>1
  <1> QED
    BY <1>5, <1>12, <1>14, <1>15 DEF KV!Set, Sessions, CallsNow

LEMMA GetOpensRefines ==
    ASSUME FileInv, NEW p \in Procs, NEW s \in Sids, GetOpens(p, s)
    PROVE  KV!CallGet(p, s)
  <1> USE DEF FileInv, FileTypeOK
  <1>1. /\ proc[p] = Idle /\ dir[s] # NoFile /\ dir[s] \in Inodes
        /\ proc' = [proc EXCEPT ![p] = Reading(s, dir[s])]
        /\ since' = [since EXCEPT ![p] = {data[dir[s]]}]
        /\ UNCHANGED <<dir, data, result>>
    BY DEF GetOpens
  <1>2. Sessions' = Sessions
    BY <1>1 DEF Sessions, Found
  <1>3. Call(p) = KV!Idle
    BY <1>1, CallFields, StepFields
  <1>4. May(p)' = {Found(s), PyNone}
    <2>1. since'[p] = {data[dir[s]]}
      BY <1>1
    <2> QED BY <1>1, <2>1 DEF May, Found
  <1>5. Call(p)' = KV!Getting(s, {Found(s), PyNone})
    <2>1. proc'[p] = Reading(s, dir[s])
      BY <1>1
    <2>2. proc'[p].op = "get" /\ proc'[p].sid = s
      BY <2>1 DEF Reading
    <2>3. Call(p)' = KV!Getting(proc'[p].sid, May(p)')
      BY <2>2, CallFieldsNext
    <2> QED BY <1>4, <2>2, <2>3
  <1>6. ASSUME NEW q \in Procs \ {p} PROVE Call(q)' = Call(q)
    <2>1. proc'[q] = proc[q] /\ since'[q] = since[q]
      BY <1>1
    <2> QED BY <2>1, SameCall DEF May
  <1>7. CallsNow' = [CallsNow EXCEPT ![p] = KV!Getting(s, {Sessions[s], PyNone})]
    BY <1>5, <1>6 DEF CallsNow, Sessions
  <1> QED
    BY <1>1, <1>2, <1>3, <1>7 DEF KV!CallGet, Sessions, CallsNow

\* A process that ends its call.
LEMMA CallEnds ==
    ASSUME FileInv, NEW p \in Procs, Leave(p), since' = [since EXCEPT ![p] = {}], UNCHANGED <<dir, data>>
    PROVE  Sessions' = Sessions /\ CallsNow' = [CallsNow EXCEPT ![p] = KV!Idle]
  <1> USE DEF FileInv, FileTypeOK
  <1>1. Sessions' = Sessions
    BY DEF Sessions, Found
  <1>2. proc'[p] = Idle /\ \A q \in Procs \ {p} : proc'[q] = proc[q] /\ since'[q] = since[q]
    BY DEF Leave
  <1>3. Call(p)' = KV!Idle
    BY <1>2, CallFieldsNext, StepFields
  <1>4. \A q \in Procs \ {p} : Call(q)' = Call(q)
    BY <1>2, SameCall DEF May
  <1> QED
    BY <1>1, <1>3, <1>4 DEF CallsNow

LEMMA GetReadsRefines ==
    ASSUME FileInv, NEW p \in Procs, GetReads(p)
    PROVE  \E c \in Contents \cup {PyNone} : KV!Answer(p, c)
  <1> USE DEF FileInv
  <1> DEFINE d == data[proc[p].inode]
             c == IF d \in Contents THEN d ELSE PyNone
  <1>1. /\ proc[p].op = "get" /\ Leave(p) /\ since' = [since EXCEPT ![p] = {}] /\ UNCHANGED <<dir, data>>
        /\ result' = [result EXCEPT ![p] = c]
    BY DEF GetReads
  <1>2. Sessions' = Sessions /\ CallsNow' = [CallsNow EXCEPT ![p] = KV!Idle]
    BY <1>1, CallEnds
  <1>3. CallsNow[p] = KV!Getting(proc[p].sid, May(p))
    BY <1>1, CallFields DEF CallsNow
  <1>4. c \in May(p) /\ c \in Contents \cup {PyNone}
    BY <1>1 DEF SinceInv, May
  <1> HIDE DEF c
  <1>5. KV!Answer(p, c)
    BY <1>1, <1>2, <1>3, <1>4 DEF KV!Answer, KV!Getting, Sessions, CallsNow
  <1> QED
    BY <1>4, <1>5

LEMMA CrashRefines ==
    ASSUME FileInv, NEW p \in Procs, Crash(p)
    PROVE  KV!Drop(p)
  <1>1. /\ proc[p] # Idle /\ Leave(p) /\ since' = [since EXCEPT ![p] = {}] /\ UNCHANGED <<dir, data>>
        /\ result' = [result EXCEPT ![p] = PyNone]
    BY DEF Crash
  <1>2. Sessions' = Sessions /\ CallsNow' = [CallsNow EXCEPT ![p] = KV!Idle]
    BY <1>1, CallEnds
  <1>3. CallsNow[p] # KV!Idle
    <2>1. proc[p].op = "set" \/ proc[p].op = "get"
      BY <1>1, StepFields DEF FileInv, FileTypeOK
    <2> QED BY <2>1, CallFields DEF CallsNow, KV!Idle, KV!Setting, KV!Getting
  <1> QED
    BY <1>1, <1>2, <1>3 DEF KV!Drop, Sessions, CallsNow

LEMMA GetFindsNoneRefines ==
    ASSUME FileInv, NEW p \in Procs, NEW s \in Sids, GetFindsNone(p, s)
    PROVE  KV!AnswerAtOnce(p)
  <1>1. /\ proc[p] = Idle /\ result' = [result EXCEPT ![p] = PyNone]
        /\ UNCHANGED <<dir, data, proc, since>>
    BY DEF GetFindsNone
  <1>2. Call(p) = KV!Idle
    BY <1>1, CallFields, StepFields
  <1>3. Sessions' = Sessions /\ CallsNow' = CallsNow
    BY <1>1 DEF Sessions, Found, CallsNow, Call
  <1> QED
    BY <1>1, <1>2, <1>3 DEF KV!AnswerAtOnce, Sessions, CallsNow

LEMMA DeleteRefines ==
    ASSUME FileInv, NEW p \in Procs, NEW s \in Sids, Delete(p, s)
    PROVE  KV!Lose(s)
  <1>1. dir' = [dir EXCEPT ![s] = NoFile] /\ UNCHANGED <<data, proc, result, since>>
    BY DEF Delete
  <1>2. CallsNow' = CallsNow
    BY <1>1 DEF CallsNow, Call
  <1>3. Sessions' = [Sessions EXCEPT ![s] = PyNone]
    <2>1. dir'[s] = NoFile /\ \A t \in Sids \ {s} : dir'[t] = dir[t]
      BY <1>1 DEF FileInv, FileTypeOK
    <2>2. Found(s)' = PyNone /\ \A t \in Sids \ {s} : Found(t)' = Found(t)
      BY <1>1, <2>1 DEF Found
    <2> QED BY <2>2 DEF Sessions
  <1> QED
    BY <1>1, <1>2, <1>3 DEF KV!Lose, Sessions, CallsNow

LEMMA NextRefines ==
    ASSUME FileInv, [Next]_vars
    PROVE  [KV!Next]_(KV!vars)
  <1>1. ASSUME NEW p \in Procs, NEW s \in Sids, NEW c \in Contents, SetOpens(p, s, c) PROVE KV!Next
    BY <1>1, SetOpensRefines DEF KV!Next
  <1>2. ASSUME NEW p \in Procs, SetWrites(p) PROVE KV!Next
    BY <1>2, SetWritesRefines DEF KV!Next
  <1>3. ASSUME NEW p \in Procs, NEW s \in Sids, GetOpens(p, s) PROVE KV!Next
    BY <1>3, GetOpensRefines DEF KV!Next
  <1>4. ASSUME NEW p \in Procs, GetReads(p) PROVE KV!Next
    BY <1>4, GetReadsRefines DEF KV!Next
  <1>5. ASSUME NEW p \in Procs, Crash(p) PROVE KV!Next
    BY <1>5, CrashRefines DEF KV!Next
  <1>6. ASSUME NEW p \in Procs, NEW s \in Sids, GetFindsNone(p, s) PROVE KV!Next
    BY <1>6, GetFindsNoneRefines DEF KV!Next
  <1>7. ASSUME NEW p \in Procs, NEW s \in Sids, Delete(p, s) PROVE KV!Next
    BY <1>7, DeleteRefines DEF KV!Next
  <1>8. CASE UNCHANGED vars
    BY <1>8 DEF vars, KV!vars, Found, Call
  <1> QED BY <1>1, <1>2, <1>3, <1>4, <1>5, <1>6, <1>7, <1>8 DEF Next

\* Although its set is not atomic, the file store keeps what SessionKV
\* promises, for any number of processes, ids, contents and files.
THEOREM FileStoreKeepsPromise == Spec => ImplementsSessionKV
  <1>1. Spec => []FileInv
    BY FileInitInv, FileNextInv, PTL DEF Spec
  <1> QED
    BY <1>1, InitRefines, NextRefines, PTL DEF Spec, ImplementsSessionKV, KV!Spec
============================================================================
