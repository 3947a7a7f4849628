------------------------- MODULE GuavaStaticProofs -------------------------
(***************************************************************************)
(* The files of GuavaStatic reach their clients, for any number of         *)
(* connections and descriptors, as far as its properties say.  What is     *)
(* always true of descriptors and of the pool is SocketInv and JobInv;     *)
(* what holds until a stream is closed while its sendfile is in the pool   *)
(* is OrderlyInv.                                                          *)
(***************************************************************************)
EXTENDS GuavaStatic, WellFoundedInduction, TLAPS

Entries == {Free} \cup {File(c) : c \in Conns} \cup {Sock(c) : c \in Conns}
Items == [what : {"head", "file", "part"}, of : Conns]

StaticTypeOK ==
    /\ table \in [Fds -> Entries]
    /\ stream \in [Conns -> {"none", "open", "closed"}]
    /\ fdOf \in [Conns -> Fds \cup {NoFd}]
    /\ keepAlive \in [Conns -> BOOLEAN]
    /\ out \in [Conns -> {"none", "queued", "sent"}]
    /\ \A j \in jobs : j.conn \in Conns
    /\ asked \in [Conns -> Nat]
    /\ got \in [Conns -> Seq(Items)]
    /\ due \in [Conns -> SUBSET {"head", "file"}]
    /\ short \in [Conns -> BOOLEAN] /\ waited \in [Conns -> BOOLEAN]
    /\ early \in BOOLEAN

\* An open stream has its own descriptor, and one never opened owes nothing.
SocketInv ==
    \A c \in Conns :
        /\ stream[c] = "open" => fdOf[c] \in Fds /\ table[fdOf[c]] = Sock(c)
        /\ stream[c] = "none" => due[c] = {}

\* At most one sendfile of each connection is in the pool, and while it is, the
\* connection's file is due; a head is queued only if it had to wait.
JobInv ==
    /\ \A j \in jobs : "file" \in due[j.conn] /\ \A k \in jobs : k.conn = j.conn => k = j
    /\ \A c \in Conns : out[c] = "queued" => waited[c]

Own(items, c) == \A i \in DOMAIN items : items[i].of = c

HeadFirst(items) ==
    \A i \in DOMAIN items : items[i].what # "head" => i > 1 /\ items[i - 1].what = "head"

EndsInHead(items) == Len(items) > 0 /\ items[Len(items)].what = "head"

\* The numbers in the pool stand for what they stood for, every item has come
\* to the client it is for, and the head of the file in the pool came last.
OrderlyInv ==
    ~ early =>
        /\ \A j \in jobs :
              /\ stream[j.conn] = "open" /\ j.sock = fdOf[j.conn]
              /\ j.file # NoFd => j.file \in Fds /\ table[j.file] = File(j.conn)
              /\ ~ waited[j.conn] => EndsInHead(got[j.conn])
        /\ \A c \in Conns :
              /\ Own(got[c], c)
              /\ ~ waited[c] => HeadFirst(got[c])

StaticInv == StaticTypeOK /\ SocketInv /\ JobInv /\ OrderlyInv /\ WaitingHasJob

----------------------------------------------------------------------------
(* Descriptors and items. *)

\* The entries of the descriptor table differ.
LEMMA EntriesDiffer ==
    /\ Free \in Entries /\ Free.is = "free"
    /\ \A c \in Conns : /\ File(c) \in Entries /\ Sock(c) \in Entries
                        /\ File(c).is = "file" /\ File(c).conn = c
                        /\ Sock(c).is = "socket" /\ Sock(c).conn = c
    /\ \A e \in Entries : e.is = "file" => e.conn \in Conns /\ e = File(e.conn)
    /\ \A e \in Entries : e.is = "socket" => e.conn \in Conns /\ e = Sock(e.conn)
  <1>1. \A c \in Conns : /\ File(c).is = "file" /\ File(c).conn = c
                         /\ Sock(c).is = "socket" /\ Sock(c).conn = c
    BY DEF File, Sock
  <1>2. Free.is = "free"
    BY DEF Free
  <1>3. Free \in Entries /\ \A c \in Conns : File(c) \in Entries /\ Sock(c) \in Entries
    BY DEF Entries
  <1>4. \A e \in Entries : e = Free \/ \E c \in Conns : e = File(c) \/ e = Sock(c)
    BY DEF Entries
  <1> QED
    BY <1>1, <1>2, <1>3, <1>4

\* A set of numbers has a least one.
LEMMA LeastNumber ==
    ASSUME NEW S \in SUBSET Nat, S # {}
    PROVE  \E n \in S : \A m \in S : n <= m
  <1>1. PICK n \in S : \A m \in S : <<m, n>> \notin OpToRel(<, Nat)
    BY NatLessThanWellFounded, WFMin
  <1>2. ASSUME NEW m \in S PROVE n <= m
    <2>1. <<m, n>> \in Nat \X Nat /\ ~ (m < n)
      BY <1>1 DEF OpToRel
    <2> QED BY <2>1
  <1> QED
    BY <1>2

\* A new descriptor was free.
LEMMA NewFdIsFree ==
    ASSUME NewFd # NoFd
    PROVE  NewFd \in Fds /\ table[NewFd] = Free
  <1>1. Unused # {} /\ NewFd = Min(Unused)
    BY DEF NewFd
  <1>2. Unused \in SUBSET Nat
    BY StaticAssumption DEF Unused
  <1>3. \E n \in Unused : \A m \in Unused : n <= m
    BY <1>1, <1>2, LeastNumber
  <1>4. Min(Unused) \in Unused
    BY <1>3 DEF Min
  <1> QED
    BY <1>1, <1>4 DEF Unused

LEMMA NoFdIsNone == NoFd \notin Fds
  BY StaticAssumption DEF NoFd

LEMMA ItemFields ==
    \A what \in {"head", "file", "part"}, c \in Conns :
        Item(what, c) \in Items /\ Item(what, c).what = what /\ Item(what, c).of = c
  BY DEF Item, Items

\* What a client has received grows at its end.
LEMMA ReceiveOne ==
    ASSUME NEW s \in Seq(Items), NEW item \in Items
    PROVE  /\ s \o <<item>> \in Seq(Items)
           /\ \A c : Own(s, c) /\ item.of = c => Own(s \o <<item>>, c)
           /\ item.what = "head" => EndsInHead(s \o <<item>>)
           /\ HeadFirst(s) /\ (item.what = "head" \/ EndsInHead(s)) => HeadFirst(s \o <<item>>)
  <1> DEFINE t == s \o <<item>>
  <1>1. /\ t \in Seq(Items) /\ Len(t) = Len(s) + 1 /\ Len(s) \in Nat
        /\ t[Len(s) + 1] = item /\ \A i \in 1 .. Len(s) : t[i] = s[i]
    OBVIOUS
  <1>2. DOMAIN s = 1 .. Len(s) /\ DOMAIN t = 1 .. Len(s) + 1
    BY <1>1
  <1> HIDE DEF t
  <1>3. \A c : Own(s, c) /\ item.of = c => Own(t, c)
    BY <1>1, <1>2 DEF Own
  <1>4. item.what = "head" => EndsInHead(t)
    BY <1>1 DEF EndsInHead
  <1>5. HeadFirst(s) /\ (item.what = "head" \/ EndsInHead(s)) => HeadFirst(t)
    BY <1>1, <1>2 DEF HeadFirst, EndsInHead
  <1> QED
    BY <1>1, <1>3, <1>4, <1>5 DEF t

LEMMA ReceiveNone ==
    ASSUME NEW s \in Seq(Items)
    PROVE  s \o <<>> = s
  OBVIOUS

----------------------------------------------------------------------------
(* The steps. *)

LEMMA StaticInitInv == Init => StaticInv
  <1> SUFFICES ASSUME Init PROVE StaticInv
    OBVIOUS
  <1>1. StaticTypeOK
    <2>1. <<>> \in Seq(Items)
      OBVIOUS
    <2>2. got \in [Conns -> Seq(Items)]
      BY <2>1 DEF Init
    <2> QED BY <2>2, EntriesDiffer DEF Init, StaticTypeOK
  <1>2. SocketInv /\ JobInv /\ WaitingHasJob
    BY DEF Init, SocketInv, JobInv, WaitingHasJob
  <1>3. OrderlyInv
    BY DEF Init, OrderlyInv, HeadFirst, Own
  <1> QED BY <1>1, <1>2, <1>3 DEF StaticInv

LEMMA OnConnKeeps ==
    ASSUME StaticInv, NEW c \in Conns, OnConn(c)
    PROVE  StaticInv'
  <1> USE DEF StaticInv
  <1>1. /\ NewFd \in Fds /\ table[NewFd] = Free /\ stream[c] = "none"
        /\ stream' = [stream EXCEPT ![c] = "open"] /\ fdOf' = [fdOf EXCEPT ![c] = NewFd]
        /\ table' = [table EXCEPT ![NewFd] = Sock(c)]
        /\ UNCHANGED <<keepAlive, out, jobs, asked, got, due, short, waited, left, early>>
    BY NewFdIsFree DEF OnConn, clients, ghost
  <1>2. StaticTypeOK'
    BY <1>1, EntriesDiffer DEF StaticTypeOK
  <1>3. SocketInv'
    BY <1>1, EntriesDiffer DEF SocketInv, StaticTypeOK
  <1>4. JobInv'
    BY <1>1 DEF JobInv
  <1>5. OrderlyInv'
    BY <1>1, EntriesDiffer DEF OrderlyInv, StaticTypeOK
  <1>6. WaitingHasJob'
    BY <1>1 DEF WaitingHasJob, SocketInv, StaticTypeOK
  <1> QED BY <1>2, <1>3, <1>4, <1>5, <1>6

\* What sending a head does to the connection that sends it, and to no other.
LEMMA SendHeadEffect ==
    ASSUME StaticInv, NEW c \in Conns, NEW ka \in BOOLEAN, NEW expected \in SUBSET {"file"},
           SendHead(c, ka, expected)
    PROVE  /\ stream[c] = "open" /\ due[c] = {}
           /\ asked' \in [Conns -> Nat] /\ keepAlive' \in [Conns -> BOOLEAN]
           /\ out' \in [Conns -> {"none", "queued", "sent"}] /\ got' \in [Conns -> Seq(Items)]
           /\ due' \in [Conns -> SUBSET {"head", "file"}] /\ waited' \in [Conns -> BOOLEAN]
           /\ "file" \in due'[c] <=> "file" \in expected
           /\ out'[c] = "queued" => waited'[c]
           /\ \A d \in Conns \ {c} : out'[d] = out[d] /\ waited'[d] = waited[d] /\ due'[d] = due[d] /\ got'[d] = got[d]
           /\ Own(got[c], c) => Own(got'[c], c)
           /\ ~ waited'[c] => ~ waited[c] /\ EndsInHead(got'[c]) /\ (HeadFirst(got[c]) => HeadFirst(got'[c]))
  <1> USE DEF StaticInv
  <1>1. /\ stream[c] = "open" /\ due[c] = {}
        /\ asked' = [asked EXCEPT ![c] = @ + 1] /\ keepAlive' = [keepAlive EXCEPT ![c] = ka]
    BY DEF SendHead
  <1>2. asked' \in [Conns -> Nat] /\ keepAlive' \in [Conns -> BOOLEAN]
    BY <1>1 DEF StaticTypeOK
  <1>3. CASE /\ out' = [out EXCEPT ![c] = "sent"] /\ Receive(c, <<Item("head", c)>>)
             /\ due' = [due EXCEPT ![c] = expected] /\ UNCHANGED waited
    <2>1. got' = [got EXCEPT ![c] = got[c] \o <<Item("head", c)>>]
      BY <1>3 DEF Receive
    <2>2. Item("head", c) \in Items /\ Item("head", c).what = "head" /\ Item("head", c).of = c
      BY ItemFields
    <2>3. got[c] \in Seq(Items)
      BY DEF StaticTypeOK
    <2> DEFINE t == got[c] \o <<Item("head", c)>>
    <2>4. /\ t \in Seq(Items) /\ EndsInHead(t) /\ (HeadFirst(got[c]) => HeadFirst(t))
          /\ Own(got[c], c) => Own(t, c)
      BY <2>2, <2>3, ReceiveOne
    <2> HIDE DEF t
    <2>5. got'[c] = t /\ got' \in [Conns -> Seq(Items)] /\ \A d \in Conns \ {c} : got'[d] = got[d]
      BY <2>1, <2>4 DEF t, StaticTypeOK
    <2>6. /\ out' \in [Conns -> {"none", "queued", "sent"}] /\ due' \in [Conns -> SUBSET {"head", "file"}]
          /\ waited' \in [Conns -> BOOLEAN] /\ waited' = waited
          /\ due'[c] = expected /\ out'[c] = "sent"
          /\ \A d \in Conns \ {c} : out'[d] = out[d] /\ due'[d] = due[d]
      BY <1>3 DEF StaticTypeOK
    <2> QED BY <1>1, <1>2, <2>4, <2>5, <2>6
  <1>4. CASE /\ out' = [out EXCEPT ![c] = "queued"] /\ due' = [due EXCEPT ![c] = expected \cup {"head"}]
             /\ waited' = [waited EXCEPT ![c] = TRUE] /\ UNCHANGED got
    BY <1>1, <1>2, <1>4 DEF StaticTypeOK
  <1> QED BY <1>3, <1>4 DEF SendHead

\* No sendfile of a connection that waits for nothing is in the pool.
LEMMA IdleHasNoJob ==
    ASSUME StaticInv, NEW c \in Conns, due[c] = {}
    PROVE  \A j \in jobs : j.conn # c
  BY DEF StaticInv, JobInv

LEMMA ServeTextKeeps ==
    ASSUME StaticInv, NEW c \in Conns, NEW ka \in BOOLEAN, ServeText(c, ka)
    PROVE  StaticInv'
  <1> USE DEF StaticInv
  <1>1. SendHead(c, ka, {}) /\ UNCHANGED <<table, stream, fdOf, jobs, short, left, early>>
    BY DEF ServeText
  <1>2. /\ stream[c] = "open" /\ due[c] = {}
        /\ asked' \in [Conns -> Nat] /\ keepAlive' \in [Conns -> BOOLEAN]
        /\ out' \in [Conns -> {"none", "queued", "sent"}] /\ got' \in [Conns -> Seq(Items)]
        /\ due' \in [Conns -> SUBSET {"head", "file"}] /\ waited' \in [Conns -> BOOLEAN]
        /\ "file" \notin due'[c]
        /\ out'[c] = "queued" => waited'[c]
        /\ \A d \in Conns \ {c} : out'[d] = out[d] /\ waited'[d] = waited[d] /\ due'[d] = due[d] /\ got'[d] = got[d]
        /\ Own(got[c], c) => Own(got'[c], c)
        /\ ~ waited'[c] => ~ waited[c] /\ (HeadFirst(got[c]) => HeadFirst(got'[c]))
    BY <1>1, SendHeadEffect
  <1>3. \A j \in jobs : j.conn \in Conns \ {c}
    BY <1>2, IdleHasNoJob DEF StaticTypeOK
  <1>4. StaticTypeOK'
    BY <1>1, <1>2 DEF StaticTypeOK
  <1>5. SocketInv'
    BY <1>1, <1>2 DEF SocketInv
  <1>6. JobInv'
    BY <1>1, <1>2, <1>3 DEF JobInv
  <1>7. OrderlyInv'
    BY <1>1, <1>2, <1>3 DEF OrderlyInv
  <1>8. WaitingHasJob'
    BY <1>1, <1>2 DEF WaitingHasJob
  <1> QED BY <1>4, <1>5, <1>6, <1>7, <1>8

LEMMA ServeFileKeeps ==
    ASSUME StaticInv, NEW c \in Conns, NEW ka \in BOOLEAN, ServeFile(c, ka)
    PROVE  StaticInv'
  <1> USE DEF StaticInv
  <1> DEFINE job == Job(c, NewFd)
  <1>1. /\ SendHead(c, ka, {"file"})
        /\ short' = [short EXCEPT ![c] = FALSE]
        /\ table' = IF NewFd = NoFd THEN table ELSE [table EXCEPT ![NewFd] = File(c)]
        /\ jobs' = jobs \cup {job}
        /\ UNCHANGED <<stream, fdOf, left, early>>
    BY DEF ServeFile, SendHeadAndOpen
  <1>2. job.sock = fdOf[c] /\ job.file = NewFd /\ job.conn = c
    BY DEF Job
  <1> HIDE DEF job
  <1>3. /\ stream[c] = "open" /\ due[c] = {}
        /\ asked' \in [Conns -> Nat] /\ keepAlive' \in [Conns -> BOOLEAN]
        /\ out' \in [Conns -> {"none", "queued", "sent"}] /\ got' \in [Conns -> Seq(Items)]
        /\ due' \in [Conns -> SUBSET {"head", "file"}] /\ waited' \in [Conns -> BOOLEAN]
        /\ "file" \in due'[c]
        /\ out'[c] = "queued" => waited'[c]
        /\ \A d \in Conns \ {c} : out'[d] = out[d] /\ waited'[d] = waited[d] /\ due'[d] = due[d] /\ got'[d] = got[d]
        /\ Own(got[c], c) => Own(got'[c], c)
        /\ ~ waited'[c] => ~ waited[c] /\ EndsInHead(got'[c]) /\ (HeadFirst(got[c]) => HeadFirst(got'[c]))
    BY <1>1, SendHeadEffect
  <1>4. \A j \in jobs : j.conn \in Conns \ {c}
    BY <1>3, IdleHasNoJob DEF StaticTypeOK
  <1>5. /\ table' \in [Fds -> Entries]
        /\ \A f \in Fds : table[f] # Free => table'[f] = table[f]
        /\ NewFd # NoFd => NewFd \in Fds /\ table'[NewFd] = File(c)
    BY <1>1, NewFdIsFree, EntriesDiffer DEF StaticTypeOK
  <1>6. StaticTypeOK'
    BY <1>1, <1>2, <1>3, <1>5 DEF StaticTypeOK
  <1>7. SocketInv'
    <2>1. ASSUME NEW d \in Conns, stream[d] = "open" PROVE fdOf[d] \in Fds /\ table'[fdOf[d]] = Sock(d)
      <3>1. fdOf[d] \in Fds /\ table[fdOf[d]] = Sock(d) /\ Sock(d) # Free
        BY <2>1, EntriesDiffer DEF SocketInv
      <3> QED BY <1>5, <3>1
    <2>2. ASSUME NEW d \in Conns, stream[d] = "none" PROVE due'[d] = {}
      BY <1>3, <2>2 DEF SocketInv
    <2> QED BY <1>1, <2>1, <2>2 DEF SocketInv
  <1>8. JobInv'
    <2>1. ASSUME NEW j \in jobs' PROVE "file" \in due'[j.conn]
      BY <1>1, <1>2, <1>3, <1>4 DEF JobInv
    <2>2. ASSUME NEW j \in jobs', NEW k \in jobs', k.conn = j.conn PROVE k = j
      BY <1>1, <1>2, <1>4, <2>2 DEF JobInv
    <2>3. ASSUME NEW d \in Conns, out'[d] = "queued" PROVE waited'[d]
      BY <1>3, <2>3 DEF JobInv
    <2> QED BY <2>1, <2>2, <2>3 DEF JobInv
  <1>9. OrderlyInv'
    <2> SUFFICES ASSUME ~ early PROVE OrderlyInv'
      BY <1>1 DEF OrderlyInv
    <2>1. ASSUME NEW j \in jobs
          PROVE  /\ stream'[j.conn] = "open" /\ j.sock = fdOf'[j.conn]
                 /\ j.file # NoFd => j.file \in Fds /\ table'[j.file] = File(j.conn)
                 /\ ~ waited'[j.conn] => EndsInHead(got'[j.conn])
      <3>1. j.conn \in Conns \ {c}
        BY <1>4
      <3>2. j.file # NoFd => j.file \in Fds /\ table[j.file] # Free
        BY <3>1, EntriesDiffer DEF OrderlyInv
      <3> QED BY <1>1, <1>3, <1>5, <3>1, <3>2 DEF OrderlyInv
    <2>2. /\ stream'[c] = "open" /\ job.sock = fdOf'[c]
          /\ job.file # NoFd => job.file \in Fds /\ table'[job.file] = File(c)
          /\ ~ waited'[c] => EndsInHead(got'[c])
      BY <1>1, <1>2, <1>3, <1>5
    <2>3. ASSUME NEW d \in Conns
          PROVE  /\ Own(got'[d], d)
                 /\ ~ waited'[d] => HeadFirst(got'[d])
      BY <1>3 DEF OrderlyInv
    <2> QED BY <1>1, <1>2, <2>1, <2>2, <2>3 DEF OrderlyInv
  <1>10. WaitingHasJob'
    BY <1>1, <1>2, <1>3 DEF WaitingHasJob, StaticTypeOK
  <1> QED BY <1>6, <1>7, <1>8, <1>9, <1>10

\* What uv_close does to the invariants that speak of descriptors, when the
\* rest of the step has kept what is received.
LEMMA CloseStreamEffect ==
    ASSUME StaticInv, NEW c \in Conns, stream[c] = "open", CloseStream(c)
    PROVE  /\ table' \in [Fds -> Entries] /\ fdOf' \in [Conns -> Fds \cup {NoFd}]
           /\ stream' \in [Conns -> {"none", "open", "closed"}] /\ early' \in BOOLEAN
           /\ stream'[c] = "closed"
           /\ \A d \in Conns \ {c} : stream'[d] = stream[d] /\ fdOf'[d] = fdOf[d]
           /\ \A f \in Fds : table[f] # Sock(c) => table'[f] = table[f]
           /\ ~ early' => ~ early /\ \A j \in jobs : j.conn # c
  <1>1. fdOf[c] \in Fds /\ table[fdOf[c]] = Sock(c)
    BY DEF StaticInv, SocketInv
  <1>2. table' \in [Fds -> Entries] /\ \A f \in Fds : table[f] # Sock(c) => table'[f] = table[f]
    BY <1>1, EntriesDiffer DEF CloseStream, StaticInv, StaticTypeOK
  <1>3. /\ fdOf' \in [Conns -> Fds \cup {NoFd}] /\ stream' \in [Conns -> {"none", "open", "closed"}]
        /\ stream'[c] = "closed"
        /\ \A d \in Conns \ {c} : stream'[d] = stream[d] /\ fdOf'[d] = fdOf[d]
    BY DEF CloseStream, StaticInv, StaticTypeOK
  <1>4. early' \in BOOLEAN /\ (~ early' => ~ early /\ \A j \in jobs : j.conn # c)
    BY DEF CloseStream, StaticInv, StaticTypeOK
  <1> QED BY <1>2, <1>3, <1>4

LEMMA OnWriteKeeps ==
    ASSUME StaticInv, NEW c \in Conns, OnWrite(c)
    PROVE  StaticInv'
  <1> USE DEF StaticInv
  <1>1. /\ stream[c] = "open" /\ out' = [out EXCEPT ![c] = "none"]
        /\ due' = [due EXCEPT ![c] = due[c] \ {"head"}]
        /\ UNCHANGED <<keepAlive, jobs, asked, short, waited, left>>
    BY DEF OnWrite, HeadOut
  <1>2. /\ got' \in [Conns -> Seq(Items)] /\ \A d \in Conns \ {c} : got'[d] = got[d]
        /\ Own(got[c], c) => Own(got'[c], c)
        /\ ~ waited[c] => got'[c] = got[c]
        /\ EndsInHead(got[c]) => EndsInHead(got'[c])
    <2>1. got[c] \in Seq(Items)
      BY DEF StaticTypeOK
    <2>2. CASE out[c] = "queued"
      <3> DEFINE t == got[c] \o <<Item("head", c)>>
      <3>1. waited[c]
        BY <2>2 DEF JobInv
      <3>2. got' = [got EXCEPT ![c] = t]
        BY <2>2 DEF OnWrite, HeadOut, Receive
      <3>3. Item("head", c) \in Items /\ Item("head", c).what = "head" /\ Item("head", c).of = c
        BY ItemFields
      <3>4. /\ t \in Seq(Items) /\ EndsInHead(t)
            /\ Own(got[c], c) => Own(t, c)
        BY <2>1, <3>3, ReceiveOne
      <3> HIDE DEF t
      <3> QED BY <3>1, <3>2, <3>4 DEF StaticTypeOK
    <2>3. CASE out[c] # "queued"
      <3>1. got' = [got EXCEPT ![c] = got[c]]
        BY <2>1, <2>3, ReceiveNone DEF OnWrite, HeadOut, Receive
      <3> QED BY <3>1 DEF StaticTypeOK
    <2> QED BY <2>2, <2>3
  <1>3. JobInv'
    BY <1>1 DEF JobInv, StaticTypeOK
  <1>4. CASE UNCHANGED <<stream, table, fdOf, early>>
    <2>1. StaticTypeOK'
      BY <1>1, <1>2, <1>4 DEF StaticTypeOK
    <2>2. SocketInv'
      BY <1>1, <1>4 DEF SocketInv, StaticTypeOK
    <2>3. OrderlyInv'
      BY <1>1, <1>2, <1>4 DEF OrderlyInv, StaticTypeOK
    <2>4. WaitingHasJob'
      BY <1>1, <1>4 DEF WaitingHasJob, StaticTypeOK
    <2> QED BY <1>3, <2>1, <2>2, <2>3, <2>4
  <1>5. CASE CloseStream(c)
    <2>1. /\ table' \in [Fds -> Entries] /\ fdOf' \in [Conns -> Fds \cup {NoFd}]
          /\ stream' \in [Conns -> {"none", "open", "closed"}] /\ early' \in BOOLEAN
          /\ stream'[c] = "closed"
          /\ \A d \in Conns \ {c} : stream'[d] = stream[d] /\ fdOf'[d] = fdOf[d]
          /\ \A f \in Fds : table[f] # Sock(c) => table'[f] = table[f]
          /\ ~ early' => ~ early /\ \A j \in jobs : j.conn # c
      BY <1>1, <1>5, CloseStreamEffect
    <2>2. StaticTypeOK'
      BY <1>1, <1>2, <2>1 DEF StaticTypeOK
    <2>3. SocketInv'
      <3>1. ASSUME NEW d \in Conns, stream'[d] = "open" PROVE fdOf'[d] \in Fds /\ table'[fdOf'[d]] = Sock(d)
        <4>1. d # c /\ stream[d] = "open" /\ fdOf'[d] = fdOf[d]
          BY <2>1, <3>1
        <4>2. fdOf[d] \in Fds /\ table[fdOf[d]] = Sock(d) /\ Sock(d) # Sock(c)
          BY <4>1, EntriesDiffer DEF SocketInv
        <4> QED BY <2>1, <4>1, <4>2
      <3>2. ASSUME NEW d \in Conns, stream'[d] = "none" PROVE due'[d] = {}
        BY <1>1, <2>1, <3>2 DEF SocketInv
      <3> QED BY <3>1, <3>2 DEF SocketInv
    <2>4. OrderlyInv'
      <3> SUFFICES ASSUME ~ early' PROVE OrderlyInv'
        BY DEF OrderlyInv
      <3>1. ~ early /\ \A j \in jobs : j.conn \in Conns \ {c}
        BY <2>1 DEF StaticTypeOK
      <3>2. ASSUME NEW j \in jobs, j.file # NoFd PROVE j.file \in Fds /\ table'[j.file] = File(j.conn)
        <4>1. j.file \in Fds /\ table[j.file] = File(j.conn) /\ File(j.conn) # Sock(c)
          BY <3>1, <3>2, EntriesDiffer DEF OrderlyInv
        <4> QED BY <2>1, <4>1
      <3>3. ASSUME NEW j \in jobs
            PROVE  /\ stream'[j.conn] = "open" /\ j.sock = fdOf'[j.conn]
                   /\ ~ waited[j.conn] => EndsInHead(got'[j.conn])
        BY <1>2, <2>1, <3>1 DEF OrderlyInv
      <3>4. ASSUME NEW d \in Conns
            PROVE  Own(got'[d], d) /\ (~ waited[d] => HeadFirst(got'[d]))
        BY <1>2, <3>1 DEF OrderlyInv
      <3> QED BY <1>1, <3>2, <3>3, <3>4 DEF OrderlyInv
    <2>5. WaitingHasJob'
      <3>1. ASSUME NEW d \in Conns, stream'[d] = "open", "file" \in due'[d]
            PROVE  short[d] \/ \E j \in jobs : j.conn = d /\ j.sock = fdOf'[d]
        <4>1. d # c /\ stream[d] = "open" /\ fdOf'[d] = fdOf[d] /\ due'[d] = due[d]
          BY <1>1, <2>1, <3>1
        <4> QED BY <3>1, <4>1 DEF WaitingHasJob
      <3> QED BY <1>1, <3>1 DEF WaitingHasJob
    <2> QED BY <1>3, <2>2, <2>3, <2>4, <2>5
  <1> QED BY <1>4, <1>5 DEF OnWrite

LEMMA OnReadEofKeeps ==
    ASSUME StaticInv, NEW c \in Conns, OnReadEof(c)
    PROVE  StaticInv'
  <1> USE DEF StaticInv
  <1>1. /\ stream[c] = "open" /\ out' = [out EXCEPT ![c] = "none"]
        /\ UNCHANGED <<keepAlive, jobs, asked, got, due, short, waited>>
    BY DEF OnReadEof, clients
  <1>2. /\ table' \in [Fds -> Entries] /\ fdOf' \in [Conns -> Fds \cup {NoFd}]
        /\ stream' \in [Conns -> {"none", "open", "closed"}] /\ early' \in BOOLEAN
        /\ stream'[c] = "closed"
        /\ \A d \in Conns \ {c} : stream'[d] = stream[d] /\ fdOf'[d] = fdOf[d]
        /\ \A f \in Fds : table[f] # Sock(c) => table'[f] = table[f]
        /\ ~ early' => ~ early /\ \A j \in jobs : j.conn # c
    BY <1>1, CloseStreamEffect DEF OnReadEof
  <1>3. StaticTypeOK'
    BY <1>1, <1>2 DEF StaticTypeOK
  <1>4. SocketInv'
    BY <1>1, <1>2, EntriesDiffer DEF SocketInv
  <1>5. JobInv'
    BY <1>1 DEF JobInv, StaticTypeOK
  <1>6. OrderlyInv'
    BY <1>1, <1>2, EntriesDiffer DEF OrderlyInv, StaticTypeOK
  <1>7. WaitingHasJob'
    BY <1>1, <1>2 DEF WaitingHasJob
  <1> QED BY <1>3, <1>4, <1>5, <1>6, <1>7

\* A thread sends the file, all of it or a part: while nothing was closed early,
\* to the connection that the work is for.
LEMMA SendsToItsOwn ==
    ASSUME StaticInv, NEW j \in jobs,
           Entry(j.sock).is = "socket", Entry(j.file).is = "file"
    PROVE  /\ Entry(j.sock).conn \in Conns /\ Entry(j.file).conn \in Conns
           /\ ~ early => Entry(j.sock).conn = j.conn /\ Entry(j.file).conn = j.conn
  <1> USE DEF StaticInv
  <1>1. /\ j.sock \in Fds /\ Entry(j.sock) = table[j.sock]
        /\ j.file \in Fds /\ Entry(j.file) = table[j.file]
    BY EntriesDiffer DEF Entry
  <1>2. table[j.sock] \in Entries /\ table[j.file] \in Entries
    BY <1>1 DEF StaticTypeOK
  <1>3. Entry(j.sock).conn \in Conns /\ Entry(j.file).conn \in Conns
    BY <1>1, <1>2, EntriesDiffer
  <1>4. ASSUME ~ early PROVE Entry(j.sock).conn = j.conn /\ Entry(j.file).conn = j.conn
    <2>1. j.conn \in Conns /\ stream[j.conn] = "open" /\ j.sock = fdOf[j.conn]
      BY <1>4 DEF OrderlyInv, StaticTypeOK
    <2>2. table[j.sock] = Sock(j.conn)
      BY <2>1 DEF SocketInv
    <2>3. table[j.file] = File(j.conn)
      BY <1>1, <1>4, NoFdIsNone DEF OrderlyInv
    <2> QED BY <1>1, <2>1, <2>2, <2>3, EntriesDiffer
  <1> QED BY <1>3, <1>4

\* What is received by a send, or by none.
LEMMA SendEffect ==
    ASSUME StaticInv, NEW j \in jobs, NEW what \in {"file", "part"},
           \/ /\ Entry(j.sock).is = "socket" /\ Entry(j.file).is = "file"
              /\ Receive(Entry(j.sock).conn, <<Item(what, Entry(j.file).conn)>>)
           \/ UNCHANGED got
    PROVE  /\ got' \in [Conns -> Seq(Items)]
           /\ ~ early => \A d \in Conns : /\ d # j.conn => got'[d] = got[d]
                                          /\ Own(got'[d], d)
                                          /\ ~ waited[d] => HeadFirst(got'[d])
  <1> USE DEF StaticInv
  <1>1. CASE UNCHANGED got
    BY <1>1 DEF StaticTypeOK, OrderlyInv
  <1>2. CASE /\ Entry(j.sock).is = "socket" /\ Entry(j.file).is = "file"
             /\ Receive(Entry(j.sock).conn, <<Item(what, Entry(j.file).conn)>>)
    <2> DEFINE to == Entry(j.sock).conn
               from == Entry(j.file).conn
               t == got[to] \o <<Item(what, from)>>
    <2>1. to \in Conns /\ from \in Conns /\ (~ early => to = j.conn /\ from = j.conn)
      BY <1>2, SendsToItsOwn
    <2>2. got' = [got EXCEPT ![to] = t]
      BY <1>2 DEF Receive
    <2>3. got[to] \in Seq(Items) /\ Item(what, from) \in Items /\ Item(what, from).of = from
      BY <2>1, ItemFields DEF StaticTypeOK
    <2>4. /\ t \in Seq(Items) /\ (HeadFirst(got[to]) /\ EndsInHead(got[to]) => HeadFirst(t))
          /\ Own(got[to], from) => Own(t, from)
      BY <2>3, ReceiveOne
    <2> HIDE DEF t, to, from
    <2>5. got' \in [Conns -> Seq(Items)] /\ got'[to] = t /\ \A d \in Conns \ {to} : got'[d] = got[d]
      BY <2>1, <2>2, <2>4 DEF StaticTypeOK
    <2>6. ASSUME ~ early, NEW d \in Conns
          PROVE  /\ d # j.conn => got'[d] = got[d]
                 /\ Own(got'[d], d)
                 /\ ~ waited[d] => HeadFirst(got'[d])
      <3>1. CASE d = j.conn
        BY <2>1, <2>4, <2>5, <2>6, <3>1 DEF OrderlyInv
      <3>2. CASE d # j.conn
        BY <2>1, <2>5, <2>6, <3>2 DEF OrderlyInv
      <3> QED BY <3>1, <3>2
    <2> QED BY <2>5, <2>6
  <1> QED BY <1>1, <1>2

LEMMA SendFileKeeps ==
    ASSUME StaticInv, NEW j \in jobs, SendFile(j)
    PROVE  StaticInv'
  <1> USE DEF StaticInv
  <1>1. /\ jobs' = jobs \ {j} /\ j.conn \in Conns
        /\ UNCHANGED <<table, stream, fdOf, keepAlive, out, asked, waited, left, early>>
    BY DEF SendFile, StaticTypeOK
  <1>2. \A k \in jobs' : k \in jobs /\ k.conn \in Conns \ {j.conn}
    BY <1>1 DEF JobInv, StaticTypeOK
  <1> DEFINE whole == /\ Entry(j.sock).is = "socket" /\ Entry(j.file).is = "file"
                      /\ due' = [due EXCEPT ![j.conn] = IF Entry(j.sock).conn = j.conn
                                                          THEN due[j.conn] \ {"file"} ELSE due[j.conn]]
                      /\ UNCHANGED short
             less == short' = [short EXCEPT ![j.conn] = TRUE] /\ UNCHANGED due
  <1>3. \E what \in {"file", "part"} :
           \/ /\ Entry(j.sock).is = "socket" /\ Entry(j.file).is = "file"
              /\ Receive(Entry(j.sock).conn, <<Item(what, Entry(j.file).conn)>>)
           \/ UNCHANGED got
    BY DEF SendFile
  <1>4. whole \/ less
    BY DEF SendFile
  <1>5. /\ got' \in [Conns -> Seq(Items)]
        /\ ~ early => \A d \in Conns : /\ d # j.conn => got'[d] = got[d]
                                       /\ Own(got'[d], d)
                                       /\ ~ waited[d] => HeadFirst(got'[d])
    BY <1>3, SendEffect
  <1>6. /\ due' \in [Conns -> SUBSET {"head", "file"}] /\ short' \in [Conns -> BOOLEAN]
        /\ \A d \in Conns : d # j.conn => due'[d] = due[d] /\ short'[d] = short[d]
        /\ \A d \in Conns : due[d] = {} => due'[d] = {}
    <2>1. CASE whole
      BY <1>1, <2>1 DEF StaticTypeOK
    <2>2. CASE less
      BY <1>1, <2>2 DEF StaticTypeOK
    <2> QED BY <1>4, <2>1, <2>2
  <1>7. StaticTypeOK'
    BY <1>1, <1>5, <1>6 DEF StaticTypeOK
  <1>8. SocketInv'
    BY <1>1, <1>6 DEF SocketInv
  <1>9. JobInv'
    BY <1>1, <1>2, <1>6 DEF JobInv
  <1>10. OrderlyInv'
    BY <1>1, <1>2, <1>5 DEF OrderlyInv
  <1>11. WaitingHasJob'
    <2> SUFFICES ASSUME NEW d \in Conns, stream[d] = "open", "file" \in due'[d]
                 PROVE  short'[d] \/ \E k \in jobs' : k.conn = d /\ k.sock = fdOf[d]
      BY <1>1 DEF WaitingHasJob
    <2>1. CASE d # j.conn
      BY <1>1, <1>6, <2>1 DEF WaitingHasJob
    <2>2. CASE d = j.conn /\ less
      BY <2>2 DEF StaticTypeOK
    <2>3. CASE d = j.conn /\ whole
      <3>1. due[d] \in SUBSET {"head", "file"}
        BY DEF StaticTypeOK
      <3>2. Entry(j.sock).conn # d /\ "file" \in due[d]
        BY <2>3, <3>1 DEF StaticTypeOK
      <3>3. fdOf[d] \in Fds /\ table[fdOf[d]] = Sock(d) /\ Sock(d).conn = d
        BY EntriesDiffer DEF SocketInv
      <3>4. j.sock # fdOf[d]
        BY <3>2, <3>3 DEF Entry
      <3>5. \A k \in jobs : k.conn = d => k = j
        BY <2>3 DEF JobInv
      <3>6. short[d]
        BY <3>2, <3>4, <3>5 DEF WaitingHasJob
      <3> QED BY <2>3, <3>6
    <2> QED BY <1>4, <2>1, <2>2, <2>3
  <1> QED BY <1>7, <1>8, <1>9, <1>10, <1>11

LEMMA StaticNextInv ==
    ASSUME StaticInv, [Next]_vars
    PROVE  StaticInv'
  <1>1. ASSUME NEW c \in Conns, OnConn(c) PROVE StaticInv'
    BY <1>1, OnConnKeeps
  <1>2. ASSUME NEW c \in Conns, OnWrite(c) PROVE StaticInv'
    BY <1>2, OnWriteKeeps
  <1>3. ASSUME NEW c \in Conns, OnReadEof(c) PROVE StaticInv'
    BY <1>3, OnReadEofKeeps
  <1>4. ASSUME NEW c \in Conns, NEW ka \in BOOLEAN, ServeText(c, ka) PROVE StaticInv'
    BY <1>4, ServeTextKeeps
  <1>5. ASSUME NEW c \in Conns, NEW ka \in BOOLEAN, ServeFile(c, ka) PROVE StaticInv'
    BY <1>5, ServeFileKeeps
  <1>6. ASSUME NEW j \in jobs, SendFile(j) PROVE StaticInv'
    BY <1>6, SendFileKeeps
  <1>7. CASE UNCHANGED vars
    BY <1>7 DEF vars, clients, ghost, StaticInv, StaticTypeOK, SocketInv, JobInv, OrderlyInv, WaitingHasJob
  <1> QED
    BY <1>1, <1>2, <1>3, <1>4, <1>5, <1>6, <1>7 DEF Next

----------------------------------------------------------------------------
(* The theorems. *)

LEMMA StaticInvariant == Spec => []StaticInv
  BY StaticInitInv, StaticNextInv, PTL DEF Spec

\* Files go astray only after a stream was closed under its sendfile, with any
\* number of connections and of descriptors.
THEOREM FilesStayHome == Spec => []StrayNeedsEarlyClose
  <1>1. StaticInv => StrayNeedsEarlyClose
    BY DEF StaticInv, OrderlyInv, Own, StrayNeedsEarlyClose
  <1> QED
    BY <1>1, StaticInvariant, PTL

\* Until then a file comes right after its head, unless the head had to wait.
THEOREM FilesFollowHeads == Spec => []FileFollowsHead
  <1>1. StaticInv => FileFollowsHead
    BY DEF StaticInv, OrderlyInv, HeadFirst, FileFollowsHead
  <1> QED
    BY <1>1, StaticInvariant, PTL

\* Whoever waits for a file on an open connection has a sendfile in the pool,
\* or one of his has failed or fallen short.
THEOREM WaitersHaveJobs == Spec => []WaitingHasJob
  <1>1. StaticInv => WaitingHasJob
    BY DEF StaticInv
  <1> QED
    BY <1>1, StaticInvariant, PTL
============================================================================
