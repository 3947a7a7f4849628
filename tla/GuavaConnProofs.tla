------------------------- MODULE GuavaConnProofs -------------------------
(***************************************************************************)
(* Proofs about GuavaConn for every set of connections, every bound on the *)
(* requests of one connection, and clients that pipeline or do not; and    *)
(* that with clients that wait for each answer the callbacks implement     *)
(* HttpServing.                                                            *)
(***************************************************************************)
EXTENDS GuavaConnServing, TLAPS

(* The inductive invariant, one connection at a time. *)

\* Which states of the stream go with which history of closing.
StreamInv(c) ==
    /\ closes[c] = IF stream[c] \in {"none", "open"} THEN 0 ELSE 1
    /\ stream[c] \in {"none", "open"} => closedBy[c] = "nobody"
    /\ stream[c] = "none" => request[c] = 0 /\ writeReq[c] = 0 /\ parser[c] = "idle"
    /\ writeReq[c] # 0 => stream[c] \in {"open", "closing"}

\* Which request has which answer: nothing is sent for a request not begun or
\* not complete, and the answer in flight is conn->write_req's.
AnswerInv(c) ==
    /\ \A m \in Msgs : m > request[c] => resp[c][m] = "none"
    /\ parser[c] \in {"headers", "body"} =>
          request[c] # 0 /\ resp[c][request[c]] = "none"
    /\ stream[c] = "open" /\ parser[c] = "idle" /\ request[c] # 0 =>
          resp[c][request[c]] \in {"sent", "written"}
    /\ process # "undefined" =>
          \A m \in Msgs : resp[c][m] = "sent" <=> writeReq[c] = m

\* References on the newest Request: two until its message is complete, then
\* the connection's, which guava_conn_free gives back.
RefInv(c) ==
    request[c] # 0 =>
        refs[c][request[c]] =
            (IF resp[c][request[c]] = "none" THEN 2 ELSE 1)
            - (IF stream[c] = "freed" THEN 1 ELSE 0)

\* What a client that waits for each answer may count on.
SerialInv(c) ==
    ~ overlap[c] =>
        /\ parser[c] \in {"headers", "body"} => writeReq[c] = 0
        /\ writeReq[c] # 0 => writeReq[c] = request[c] /\ (promised[c] <=> keepAlive[c])
        /\ stream[c] = "open" =>
              \A m \in Msgs : m < request[c] => resp[c][m] = "written"
        /\ closedBy[c] = "server" =>
              /\ writeReq[c] = 0
              /\ \A m \in Msgs : m <= request[c] => resp[c][m] = "written"
              /\ ~ promised[c]

IInv ==
    /\ TypeOK
    /\ \A c \in Conns : StreamInv(c) /\ AnswerInv(c) /\ RefInv(c) /\ SerialInv(c)
    /\ ReuseNeedsPipelining
----------------------------------------------------------------------------

\* An update two functions deep keeps the type.
LEMMA NestedUpdate ==
    ASSUME NEW D, NEW E, NEW T, NEW f \in [D -> [E -> T]],
           NEW d \in D, NEW e \in E, NEW v \in T
    PROVE  [f EXCEPT ![d][e] = v] \in [D -> [E -> T]]
  OBVIOUS

LEMMA OnConnKeeps ==
    ASSUME IInv, NEW c \in Conns, OnConn(c)
    PROVE  IInv'
<1> USE ConnAssumption DEF Msgs
<1>1. TypeOK'
  BY DEF IInv, TypeOK, StreamInv, AnswerInv, RefInv, OnConn, conn, ghost
<1>2. ASSUME NEW d \in Conns
      PROVE  (StreamInv(d) /\ AnswerInv(d) /\ RefInv(d) /\ SerialInv(d))'
  <2>1. CASE d = c
    <3>1. StreamInv(d)'
      BY <2>1 DEF IInv, TypeOK, StreamInv, OnConn, conn, ghost
    <3>2. AnswerInv(d)'
      BY <2>1 DEF IInv, TypeOK, StreamInv, AnswerInv, OnConn, conn, ghost
    <3>3. RefInv(d)'
      BY <2>1 DEF IInv, TypeOK, StreamInv, AnswerInv, RefInv, OnConn, conn, ghost
    <3>4. SerialInv(d)'
      BY <2>1 DEF IInv, TypeOK, StreamInv, AnswerInv, SerialInv, OnConn, conn, ghost
    <3> QED BY <3>1, <3>2, <3>3, <3>4
  <2>2. CASE d # c
    BY <2>2 DEF IInv, TypeOK, StreamInv, AnswerInv, RefInv, SerialInv, OnConn, conn, ghost
  <2> QED BY <2>1, <2>2
<1>3. ReuseNeedsPipelining'
  BY DEF IInv, TypeOK, ReuseNeedsPipelining, SerialInv, OnConn, conn, ghost
<1> QED BY <1>1, <1>2, <1>3 DEF IInv

LEMMA OnReadEofKeeps ==
    ASSUME IInv, NEW c \in Conns, OnReadEof(c)
    PROVE  IInv'
<1> USE ConnAssumption DEF Msgs
<1>1. TypeOK'
  BY DEF IInv, TypeOK, StreamInv, AnswerInv, RefInv, OnReadEof, Live, UvClose, conn, ghost
<1>2. ASSUME NEW d \in Conns
      PROVE  (StreamInv(d) /\ AnswerInv(d) /\ RefInv(d) /\ SerialInv(d))'
  <2>1. CASE d = c
    <3>1. StreamInv(d)'
      BY <2>1 DEF IInv, TypeOK, StreamInv, OnReadEof, Live, UvClose, conn, ghost
    <3>2. AnswerInv(d)'
      BY <2>1 DEF IInv, TypeOK, StreamInv, AnswerInv, OnReadEof, Live, UvClose, conn, ghost
    <3>3. RefInv(d)'
      <4>1. stream[d] = "open" /\ stream'[d] = "closing"
        BY <2>1 DEF IInv, TypeOK, OnReadEof, Live, UvClose
      <4>2. request' = request /\ resp' = resp /\ refs' = refs
        BY DEF OnReadEof
      <4>3. RefInv(d)
        BY DEF IInv
      <4> QED BY <4>1, <4>2, <4>3 DEF RefInv
    <3>4. SerialInv(d)'
      BY <2>1 DEF IInv, TypeOK, StreamInv, AnswerInv, SerialInv, OnReadEof, Live, UvClose, conn, ghost
    <3> QED BY <3>1, <3>2, <3>3, <3>4
  <2>2. CASE d # c
    BY <2>2 DEF IInv, TypeOK, StreamInv, AnswerInv, RefInv, SerialInv, OnReadEof, Live, UvClose, conn, ghost
  <2> QED BY <2>1, <2>2
<1>3. ReuseNeedsPipelining'
  BY DEF IInv, TypeOK, ReuseNeedsPipelining, SerialInv, OnReadEof, Live, UvClose, conn, ghost
<1> QED BY <1>1, <1>2, <1>3 DEF IInv

LEMMA OnReadBadKeeps ==
    ASSUME IInv, NEW c \in Conns, OnReadBad(c)
    PROVE  IInv'
<1> USE ConnAssumption DEF Msgs
<1>1. TypeOK'
  BY DEF IInv, TypeOK, StreamInv, AnswerInv, RefInv, OnReadBad, Live, conn, ghost
<1>2. ASSUME NEW d \in Conns
      PROVE  (StreamInv(d) /\ AnswerInv(d) /\ RefInv(d) /\ SerialInv(d))'
  <2>1. CASE d = c
    <3>1. StreamInv(d)'
      BY <2>1 DEF IInv, TypeOK, StreamInv, OnReadBad, Live, conn, ghost
    <3>2. AnswerInv(d)'
      BY <2>1 DEF IInv, TypeOK, StreamInv, AnswerInv, OnReadBad, Live, conn, ghost
    <3>3. RefInv(d)'
      BY <2>1 DEF IInv, TypeOK, StreamInv, AnswerInv, RefInv, OnReadBad, Live, conn, ghost
    <3>4. SerialInv(d)'
      BY <2>1 DEF IInv, TypeOK, StreamInv, AnswerInv, SerialInv, OnReadBad, Live, conn, ghost
    <3> QED BY <3>1, <3>2, <3>3, <3>4
  <2>2. CASE d # c
    BY <2>2 DEF IInv, TypeOK, StreamInv, AnswerInv, RefInv, SerialInv, OnReadBad, Live, conn, ghost
  <2> QED BY <2>1, <2>2
<1>3. ReuseNeedsPipelining'
  BY DEF IInv, TypeOK, ReuseNeedsPipelining, SerialInv, OnReadBad, Live, conn, ghost
<1> QED BY <1>1, <1>2, <1>3 DEF IInv

LEMMA OnMessageBeginKeeps ==
    ASSUME IInv, NEW c \in Conns, OnMessageBegin(c)
    PROVE  IInv'
<1> USE ConnAssumption DEF Msgs
<1>1. TypeOK'
  BY DEF IInv, TypeOK, StreamInv, AnswerInv, RefInv, OnMessageBegin, Live, BeginMessage, conn, ghost
<1>2. ASSUME NEW d \in Conns
      PROVE  (StreamInv(d) /\ AnswerInv(d) /\ RefInv(d) /\ SerialInv(d))'
  <2>1. CASE d = c
    <3>1. StreamInv(d)'
      BY <2>1 DEF IInv, TypeOK, StreamInv, OnMessageBegin, Live, BeginMessage, conn, ghost
    <3>2. AnswerInv(d)'
      BY <2>1 DEF IInv, TypeOK, StreamInv, AnswerInv, OnMessageBegin, Live, BeginMessage, conn, ghost
    <3>3. RefInv(d)'
      BY <2>1 DEF IInv, TypeOK, StreamInv, AnswerInv, RefInv, OnMessageBegin, Live, BeginMessage, conn, ghost
    <3>4. SerialInv(d)'
      BY <2>1 DEF IInv, TypeOK, StreamInv, AnswerInv, SerialInv, OnMessageBegin, Live, BeginMessage, conn, ghost
    <3> QED BY <3>1, <3>2, <3>3, <3>4
  <2>2. CASE d # c
    BY <2>2, SMTT(30) DEF IInv, TypeOK, StreamInv, AnswerInv, RefInv, SerialInv, OnMessageBegin, Live, BeginMessage, conn, ghost
  <2> QED BY <2>1, <2>2
<1>3. ReuseNeedsPipelining'
  BY DEF IInv, TypeOK, ReuseNeedsPipelining, SerialInv, OnMessageBegin, Live, BeginMessage, conn, ghost
<1> QED BY <1>1, <1>2, <1>3 DEF IInv

LEMMA OnHeadersCompleteKeeps ==
    ASSUME IInv, NEW c \in Conns, NEW ka \in BOOLEAN, OnHeadersComplete(c, ka)
    PROVE  IInv'
<1> USE ConnAssumption DEF Msgs
<1>1. TypeOK'
  BY DEF IInv, TypeOK, StreamInv, AnswerInv, RefInv, OnHeadersComplete, Live, conn, ghost
<1>2. ASSUME NEW d \in Conns
      PROVE  (StreamInv(d) /\ AnswerInv(d) /\ RefInv(d) /\ SerialInv(d))'
  <2>1. CASE d = c
    <3>1. StreamInv(d)'
      BY <2>1 DEF IInv, TypeOK, StreamInv, OnHeadersComplete, Live, conn, ghost
    <3>2. AnswerInv(d)'
      BY <2>1 DEF IInv, TypeOK, StreamInv, AnswerInv, OnHeadersComplete, Live, conn, ghost
    <3>3. RefInv(d)'
      BY <2>1 DEF IInv, TypeOK, StreamInv, AnswerInv, RefInv, OnHeadersComplete, Live, conn, ghost
    <3>4. SerialInv(d)'
      BY <2>1 DEF IInv, TypeOK, StreamInv, AnswerInv, SerialInv, OnHeadersComplete, Live, conn, ghost
    <3> QED BY <3>1, <3>2, <3>3, <3>4
  <2>2. CASE d # c
    BY <2>2 DEF IInv, TypeOK, StreamInv, AnswerInv, RefInv, SerialInv, OnHeadersComplete, Live, conn, ghost
  <2> QED BY <2>1, <2>2
<1>3. ReuseNeedsPipelining'
  BY DEF IInv, TypeOK, ReuseNeedsPipelining, SerialInv, OnHeadersComplete, Live, conn, ghost
<1> QED BY <1>1, <1>2, <1>3 DEF IInv

LEMMA OnMessageCompleteKeeps ==
    ASSUME IInv, NEW c \in Conns, OnMessageComplete(c)
    PROVE  IInv'
<1> USE ConnAssumption DEF Msgs
<1>1. TypeOK'
  BY DEF IInv, TypeOK, StreamInv, AnswerInv, RefInv, OnMessageComplete, Live, MessageComplete, ResponseSend, DecRef, conn, ghost
<1>2. ASSUME NEW d \in Conns
      PROVE  (StreamInv(d) /\ AnswerInv(d) /\ RefInv(d) /\ SerialInv(d))'
  <2>1. CASE d = c
    <3>1. StreamInv(d)'
      BY <2>1 DEF IInv, TypeOK, StreamInv, OnMessageComplete, Live, MessageComplete, ResponseSend, DecRef, conn, ghost
    <3>2. AnswerInv(d)'
      BY <2>1 DEF IInv, TypeOK, StreamInv, AnswerInv, OnMessageComplete, Live, MessageComplete, ResponseSend, DecRef, conn, ghost
    <3>3. RefInv(d)'
      BY <2>1 DEF IInv, TypeOK, StreamInv, AnswerInv, RefInv, OnMessageComplete, Live, MessageComplete, ResponseSend, DecRef, conn, ghost
    <3>4. SerialInv(d)'
      BY <2>1 DEF IInv, TypeOK, StreamInv, AnswerInv, SerialInv, OnMessageComplete, Live, MessageComplete, ResponseSend, DecRef, conn, ghost
    <3> QED BY <3>1, <3>2, <3>3, <3>4
  <2>2. CASE d # c
    BY <2>2, SMTT(30) DEF IInv, TypeOK, StreamInv, AnswerInv, RefInv, SerialInv, OnMessageComplete, Live, MessageComplete, ResponseSend, DecRef, conn, ghost
  <2> QED BY <2>1, <2>2
<1>3. ReuseNeedsPipelining'
  BY DEF IInv, TypeOK, ReuseNeedsPipelining, SerialInv, OnMessageComplete, Live, MessageComplete, ResponseSend, DecRef, conn, ghost
<1> QED BY <1>1, <1>2, <1>3 DEF IInv

LEMMA OnBodilessCompleteKeeps ==
    ASSUME IInv, NEW c \in Conns, NEW ka \in BOOLEAN, OnBodilessComplete(c, ka)
    PROVE  IInv'
<1> USE ConnAssumption DEF Msgs
<1>1. TypeOK'
  BY SMTT(30) DEF IInv, TypeOK, StreamInv, AnswerInv, RefInv, OnBodilessComplete, Live, MessageComplete, ResponseSend, DecRef, conn, ghost
<1>2. ASSUME NEW d \in Conns
      PROVE  (StreamInv(d) /\ AnswerInv(d) /\ RefInv(d) /\ SerialInv(d))'
  <2>1. CASE d = c
    <3>1. StreamInv(d)'
      BY <2>1 DEF IInv, TypeOK, StreamInv, OnBodilessComplete, Live, MessageComplete, ResponseSend, DecRef, conn, ghost
    <3>2. AnswerInv(d)'
      BY <2>1 DEF IInv, TypeOK, StreamInv, AnswerInv, OnBodilessComplete, Live, MessageComplete, ResponseSend, DecRef, conn, ghost
    <3>3. RefInv(d)'
      BY <2>1 DEF IInv, TypeOK, StreamInv, AnswerInv, RefInv, OnBodilessComplete, Live, MessageComplete, ResponseSend, DecRef, conn, ghost
    <3>4. SerialInv(d)'
      BY <2>1 DEF IInv, TypeOK, StreamInv, AnswerInv, SerialInv, OnBodilessComplete, Live, MessageComplete, ResponseSend, DecRef, conn, ghost
    <3> QED BY <3>1, <3>2, <3>3, <3>4
  <2>2. CASE d # c
    BY <2>2, SMTT(30) DEF IInv, TypeOK, StreamInv, AnswerInv, RefInv, SerialInv, OnBodilessComplete, Live, MessageComplete, ResponseSend, DecRef, conn, ghost
  <2> QED BY <2>1, <2>2
<1>3. ReuseNeedsPipelining'
  BY DEF IInv, TypeOK, ReuseNeedsPipelining, SerialInv, OnBodilessComplete, Live, MessageComplete, ResponseSend, DecRef, conn, ghost
<1> QED BY <1>1, <1>2, <1>3 DEF IInv

LEMMA DispatchCrashKeeps ==
    ASSUME IInv, NEW c \in Conns, DispatchCrash(c)
    PROVE  IInv'
<1> USE ConnAssumption DEF Msgs
<1>1. TypeOK'
  BY DEF IInv, TypeOK, StreamInv, AnswerInv, RefInv, DispatchCrash, Live, conn, ghost
<1>2. ASSUME NEW d \in Conns
      PROVE  (StreamInv(d) /\ AnswerInv(d) /\ RefInv(d) /\ SerialInv(d))'
  <2>1. CASE d = c
    <3>1. StreamInv(d)'
      BY <2>1 DEF IInv, TypeOK, StreamInv, DispatchCrash, Live, conn, ghost
    <3>2. AnswerInv(d)'
      BY <2>1 DEF IInv, TypeOK, StreamInv, AnswerInv, DispatchCrash, Live, conn, ghost
    <3>3. RefInv(d)'
      BY <2>1 DEF IInv, TypeOK, StreamInv, AnswerInv, RefInv, DispatchCrash, Live, conn, ghost
    <3>4. SerialInv(d)'
      BY <2>1 DEF IInv, TypeOK, StreamInv, AnswerInv, SerialInv, DispatchCrash, Live, conn, ghost
    <3> QED BY <3>1, <3>2, <3>3, <3>4
  <2>2. CASE d # c
    BY <2>2 DEF IInv, TypeOK, StreamInv, AnswerInv, RefInv, SerialInv, DispatchCrash, Live, conn, ghost
  <2> QED BY <2>1, <2>2
<1>3. ReuseNeedsPipelining'
  BY DEF IInv, TypeOK, ReuseNeedsPipelining, SerialInv, DispatchCrash, Live, conn, ghost
<1> QED BY <1>1, <1>2, <1>3 DEF IInv

LEMMA OnWriteKeeps ==
    ASSUME IInv, NEW c \in Conns, OnWrite(c)
    PROVE  IInv'
<1> USE ConnAssumption DEF Msgs
<1>1. TypeOK'
  <2>1. resp' \in [Conns -> [Msgs -> {"none", "sent", "written", "cancelled"}]]
    <3>1. writeReq[c] \in Msgs
      BY DEF IInv, TypeOK, OnWrite, Settle
    <3>2. resp' = [resp EXCEPT ![c][writeReq[c]] = "written"]
      BY DEF OnWrite, Settle
    <3>3. resp \in [Conns -> [Msgs -> {"none", "sent", "written", "cancelled"}]]
      BY DEF IInv, TypeOK
    <3> QED BY <3>1, <3>2, <3>3, NestedUpdate
  <2>2. /\ stream' \in [Conns -> {"none", "open", "closing", "freed"}]
        /\ closes' \in [Conns -> Nat]
        /\ closedBy' \in [Conns -> {"nobody", "client", "server"}]
    <3>1. CASE keepAlive[c]
      BY <3>1 DEF IInv, TypeOK, OnWrite
    <3>2. CASE ~ keepAlive[c]
      <4>1. UvClose(c, "server")
        BY <3>2 DEF OnWrite
      <4>2. closes[c] + 1 \in Nat
        BY DEF IInv, TypeOK
      <4> QED BY <4>1, <4>2 DEF IInv, TypeOK, UvClose
    <3> QED BY <3>1, <3>2
  <2>3. writeReq' \in [Conns -> 0 .. MaxMsgs]
    BY DEF IInv, TypeOK, OnWrite, Settle
  <2> QED BY <2>1, <2>2, <2>3 DEF IInv, TypeOK, OnWrite, Settle
<1>2. ASSUME NEW d \in Conns
      PROVE  (StreamInv(d) /\ AnswerInv(d) /\ RefInv(d) /\ SerialInv(d))'
  <2>1. CASE d = c
    <3>1. StreamInv(d)'
      BY <2>1 DEF IInv, TypeOK, StreamInv, OnWrite, Live, Settle, UvClose, conn, ghost
    <3>2. AnswerInv(d)'
      BY <2>1 DEF IInv, TypeOK, StreamInv, AnswerInv, OnWrite, Live, Settle, UvClose, conn, ghost
    <3>3. RefInv(d)'
      BY <2>1 DEF IInv, TypeOK, StreamInv, AnswerInv, RefInv, OnWrite, Live, Settle, UvClose, conn, ghost
    <3>4. SerialInv(d)'
      BY <2>1 DEF IInv, TypeOK, StreamInv, AnswerInv, SerialInv, OnWrite, Live, Settle, UvClose, conn, ghost
    <3> QED BY <3>1, <3>2, <3>3, <3>4
  <2>2. CASE d # c
    BY <2>2, SMTT(30) DEF IInv, TypeOK, StreamInv, AnswerInv, RefInv, SerialInv, OnWrite, Live, Settle, UvClose, conn, ghost
  <2> QED BY <2>1, <2>2
<1>3. ReuseNeedsPipelining'
  BY DEF IInv, TypeOK, ReuseNeedsPipelining, SerialInv, OnWrite, Live, Settle, UvClose, conn, ghost
<1> QED BY <1>1, <1>2, <1>3 DEF IInv

LEMMA OnWriteCancelledKeeps ==
    ASSUME IInv, NEW c \in Conns, OnWriteCancelled(c)
    PROVE  IInv'
<1> USE ConnAssumption DEF Msgs
<1>1. TypeOK'
  BY SMTT(30) DEF IInv, TypeOK, StreamInv, AnswerInv, RefInv, OnWriteCancelled, Settle, conn, ghost
<1>2. ASSUME NEW d \in Conns
      PROVE  (StreamInv(d) /\ AnswerInv(d) /\ RefInv(d) /\ SerialInv(d))'
  <2>1. CASE d = c
    <3>1. StreamInv(d)'
      BY <2>1 DEF IInv, TypeOK, StreamInv, OnWriteCancelled, Settle, conn, ghost
    <3>2. AnswerInv(d)'
      BY <2>1 DEF IInv, TypeOK, StreamInv, AnswerInv, OnWriteCancelled, Settle, conn, ghost
    <3>3. RefInv(d)'
      BY <2>1 DEF IInv, TypeOK, StreamInv, AnswerInv, RefInv, OnWriteCancelled, Settle, conn, ghost
    <3>4. SerialInv(d)'
      BY <2>1 DEF IInv, TypeOK, StreamInv, AnswerInv, SerialInv, OnWriteCancelled, Settle, conn, ghost
    <3> QED BY <3>1, <3>2, <3>3, <3>4
  <2>2. CASE d # c
    BY <2>2, SMTT(30) DEF IInv, TypeOK, StreamInv, AnswerInv, RefInv, SerialInv, OnWriteCancelled, Settle, conn, ghost
  <2> QED BY <2>1, <2>2
<1>3. ReuseNeedsPipelining'
  BY DEF IInv, TypeOK, ReuseNeedsPipelining, SerialInv, OnWriteCancelled, Settle, conn, ghost
<1> QED BY <1>1, <1>2, <1>3 DEF IInv

LEMMA OnCloseKeeps ==
    ASSUME IInv, NEW c \in Conns, OnClose(c)
    PROVE  IInv'
<1> USE ConnAssumption DEF Msgs
<1>1. TypeOK'
  <2>1. refs' \in [Conns -> [Msgs -> Nat]]
    <3>1. CASE request[c] = 0
      BY <3>1 DEF IInv, TypeOK, OnClose
    <3>2. CASE request[c] # 0
      <4>1. request[c] \in Msgs
        BY <3>2 DEF IInv, TypeOK
      <4>2. stream[c] = "closing"
        BY DEF OnClose, CloseDue
      <4>3. refs[c][request[c]] - 1 \in Nat
        BY <3>2, <4>2 DEF IInv, RefInv
      <4>4. refs' = [refs EXCEPT ![c][request[c]] = refs[c][request[c]] - 1]
        BY <3>2 DEF OnClose, DecRef
      <4>5. refs \in [Conns -> [Msgs -> Nat]]
        BY DEF IInv, TypeOK
      <4> QED BY <4>1, <4>3, <4>4, <4>5, NestedUpdate
    <3> QED BY <3>1, <3>2
  <2>2. stream' \in [Conns -> {"none", "open", "closing", "freed"}]
    BY DEF IInv, TypeOK, OnClose, CloseDue
  <2> QED BY <2>1, <2>2 DEF IInv, TypeOK, OnClose, CloseDue, ghost
<1>2. ASSUME NEW d \in Conns
      PROVE  (StreamInv(d) /\ AnswerInv(d) /\ RefInv(d) /\ SerialInv(d))'
  <2>1. CASE d = c
    <3>1. StreamInv(d)'
      BY <2>1 DEF IInv, TypeOK, StreamInv, OnClose, CloseDue, DecRef, conn, ghost
    <3>2. AnswerInv(d)'
      BY <2>1 DEF IInv, TypeOK, StreamInv, AnswerInv, OnClose, CloseDue, DecRef, conn, ghost
    <3>3. RefInv(d)'
      BY <2>1 DEF IInv, TypeOK, StreamInv, AnswerInv, RefInv, OnClose, CloseDue, DecRef, conn, ghost
    <3>4. SerialInv(d)'
      BY <2>1 DEF IInv, TypeOK, StreamInv, AnswerInv, SerialInv, OnClose, CloseDue, DecRef, conn, ghost
    <3> QED BY <3>1, <3>2, <3>3, <3>4
  <2>2. CASE d # c
    BY <2>2, SMTT(30) DEF IInv, TypeOK, StreamInv, AnswerInv, RefInv, SerialInv, OnClose, CloseDue, DecRef, conn, ghost
  <2> QED BY <2>1, <2>2
<1>3. ReuseNeedsPipelining'
  BY DEF IInv, TypeOK, ReuseNeedsPipelining, SerialInv, OnClose, CloseDue, DecRef, conn, ghost
<1> QED BY <1>1, <1>2, <1>3 DEF IInv

----------------------------------------------------------------------------
LEMMA InitEstablishes == Init => IInv
  BY ConnAssumption DEF Msgs, Init, IInv, TypeOK, StreamInv, AnswerInv, RefInv,
     SerialInv, ReuseNeedsPipelining

LEMMA StopKeeps ==
    ASSUME IInv, Shutdown \/ UNCHANGED vars
    PROVE  IInv'
<1>1. CASE Shutdown
  BY <1>1 DEF IInv, TypeOK, StreamInv, AnswerInv, RefInv, SerialInv,
     ReuseNeedsPipelining, Shutdown, conn, ghost
<1>2. CASE UNCHANGED vars
  BY <1>2 DEF IInv, TypeOK, StreamInv, AnswerInv, RefInv, SerialInv,
     ReuseNeedsPipelining, vars, conn, ghost
<1> QED BY <1>1, <1>2

LEMMA NextKeeps == IInv /\ [Next]_vars => IInv'
<1> SUFFICES ASSUME IInv, [Next]_vars PROVE IInv'
  OBVIOUS
<1>1. CASE Shutdown \/ UNCHANGED vars
  BY <1>1, StopKeeps
<1>2. ASSUME NEW c \in Conns, Client(c)
      PROVE  IInv'
  BY <1>2, OnConnKeeps, OnReadEofKeeps, OnReadBadKeeps, OnMessageBeginKeeps,
     OnHeadersCompleteKeeps, OnMessageCompleteKeeps, OnBodilessCompleteKeeps,
     DispatchCrashKeeps
     DEF Client
<1>3. ASSUME NEW c \in Conns, Loop(c)
      PROVE  IInv'
  BY <1>3, OnWriteKeeps, OnWriteCancelledKeeps, OnCloseKeeps DEF Loop
<1> QED BY <1>1, <1>2, <1>3 DEF Next

LEMMA SpecKeeps == Spec => []IInv
  BY InitEstablishes, NextKeeps, PTL DEF Spec

\* Every variable keeps its type; no reference count goes below zero.
THEOREM TypeCorrect == Spec => []TypeOK
<1>1. IInv => TypeOK
  BY DEF IInv
<1> QED BY <1>1, SpecKeeps, PTL

\* uv_close is called once on a stream that was accepted and is then closed.
THEOREM ClosedOnce == Spec => []CloseOnce
<1>1. IInv => CloseOnce
  BY DEF IInv, StreamInv, CloseOnce
<1> QED BY <1>1, SpecKeeps, PTL

\* conn->request never dangles.
THEOREM RequestsAlive == Spec => []RequestAlive
<1>1. IInv => RequestAlive
  BY DEF IInv, RefInv, RequestAlive
<1> QED BY <1>1, SpecKeeps, PTL

\* guava_conn_free reclaims the last Request, if it was answered.
THEOREM RequestsReclaimed == Spec => []LastRequestReclaimed
<1>1. IInv => LastRequestReclaimed
  BY DEF IInv, RefInv, LastRequestReclaimed
<1> QED BY <1>1, SpecKeeps, PTL

\* Until the first undefined step every answer in flight has its write
\* request and a connection that was not freed.
THEOREM ResponsesOwned == Spec => []ResponseOwned
<1>1. IInv => ResponseOwned
  BY ConnAssumption DEF Msgs, IInv, TypeOK, StreamInv, AnswerInv, ResponseOwned
<1> QED BY <1>1, SpecKeeps, PTL

\* The write request is reused in flight only if some client pipelined.
THEOREM ReuseOnlyByPipelining == Spec => []ReuseNeedsPipelining
<1>1. IInv => ReuseNeedsPipelining
  BY DEF IInv
<1> QED BY <1>1, SpecKeeps, PTL

\* The server closes the connection of a client that waits for each answer
\* only after it wrote all of them, the last without promising keep-alive.
THEOREM ClosedAfterLastAnswer == Spec => []ClosesAfterLastAnswer
<1>1. IInv => ClosesAfterLastAnswer
  <2> SUFFICES ASSUME IInv, NEW c \in Conns, closedBy[c] = "server", ~ overlap[c]
               PROVE  /\ \A m \in 1 .. request[c] : resp[c][m] = "written"
                      /\ ~ promised[c]
    BY DEF ClosesAfterLastAnswer
  <2>1. 1 .. request[c] \subseteq Msgs
    BY ConnAssumption DEF IInv, TypeOK, Msgs
  <2> QED BY <2>1 DEF IInv, TypeOK, SerialInv
<1> QED BY <1>1, SpecKeeps, PTL

(* With clients that wait, the callbacks implement HttpServing. *)

\* Nobody pipelines.
NoOverlap == \A c \in Conns : ~ overlap[c]

LEMMA NextKeepsNoOverlap ==
    ASSUME ~ Pipelining, TypeOK, NoOverlap, [Next]_vars
    PROVE  NoOverlap'
<1>1. CASE Shutdown \/ UNCHANGED vars
  BY <1>1 DEF NoOverlap, Shutdown, vars, ghost
<1>2. ASSUME NEW c \in Conns, Client(c)
      PROVE  NoOverlap'
  <2>1. CASE OnMessageBegin(c)
    BY <2>1 DEF TypeOK, NoOverlap, OnMessageBegin, BeginMessage
  <2>2. CASE ~ OnMessageBegin(c)
    <3>1. overlap' = overlap
      BY <1>2, <2>2 DEF Client, OnConn, OnReadEof, OnReadBad, OnHeadersComplete,
         OnBodilessComplete, OnMessageComplete, MessageComplete, DispatchCrash, ghost
    <3> QED BY <3>1 DEF NoOverlap
  <2> QED BY <2>1, <2>2
<1>3. ASSUME NEW c \in Conns, Loop(c)
      PROVE  NoOverlap'
  BY <1>3 DEF NoOverlap, Loop, OnWrite, OnWriteCancelled, Settle, OnClose, CloseDue, ghost
<1> QED BY <1>1, <1>2, <1>3 DEF Next

\* A step that touches only connection c updates the abstract state at c.
LEMMA PhasesAt ==
    ASSUME NEW c \in Conns, NEW p, PhaseOf(c)' = p,
           \A d \in Conns \ {c} : /\ stream'[d] = stream[d]
                                  /\ writeReq'[d] = writeReq[d]
                                  /\ parser'[d] = parser[d]
    PROVE  Phases' = [Phases EXCEPT ![c] = p]
<1>1. \A d \in Conns \ {c} : PhaseOf(d)' = PhaseOf(d)
  BY DEF PhaseOf
<1> QED BY <1>1 DEF Phases

LEMMA PhasesSame ==
    ASSUME NEW c \in Conns, PhaseOf(c)' = PhaseOf(c),
           \A d \in Conns \ {c} : /\ stream'[d] = stream[d]
                                  /\ writeReq'[d] = writeReq[d]
                                  /\ parser'[d] = parser[d]
    PROVE  Phases' = Phases
<1>1. \A d \in Conns \ {c} : PhaseOf(d)' = PhaseOf(d)
  BY DEF PhaseOf
<1> QED BY <1>1 DEF Phases

LEMMA InitServes == Init => Serving!Init
<1> SUFFICES ASSUME Init PROVE Serving!Init
  OBVIOUS
<1>1. Phases = [c \in Conns |-> "away"]
  BY DEF Init, Phases, PhaseOf
<1>2. Answers = [c \in Conns |-> {}]
  BY DEF Init, Answers
<1>3. Deaf = [c \in Conns |-> FALSE]
  BY DEF Init, Deaf
<1> QED BY <1>1, <1>2, <1>3 DEF Init, Serving!Init

----------------------------------------------------------------------------
(* Each callback, seen through the mapping. *)

LEMMA OnConnServes ==
    ASSUME IInv, NEW c \in Conns, OnConn(c)
    PROVE  Serving!Connect(c)
<1>1. Phases[c] = "away"
  BY DEF Phases, PhaseOf, OnConn
<1>2. Phases' = [Phases EXCEPT ![c] = "waiting"]
  <2>1. PhaseOf(c)' = "waiting"
    BY DEF PhaseOf, OnConn, IInv, TypeOK, StreamInv
  <2> QED BY <2>1, PhasesAt DEF OnConn, IInv, TypeOK
<1>3. Deaf' = Deaf /\ Answers' = Answers
  BY DEF Deaf, Answers, OnConn
<1> QED BY <1>1, <1>2, <1>3 DEF OnConn, ghost, Serving!Connect, Serving!Move

LEMMA OnReadEofServes ==
    ASSUME IInv, NEW c \in Conns, OnReadEof(c)
    PROVE  Serving!Leave(c)
<1>1. Phases[c] \in {"waiting", "taking", "answering"}
  BY DEF Phases, PhaseOf, OnReadEof, Live
<1>2. Phases' = [Phases EXCEPT ![c] = "gone"]
  <2>1. PhaseOf(c)' = "gone"
    BY DEF PhaseOf, OnReadEof, UvClose, IInv, TypeOK
  <2> QED BY <2>1, PhasesAt DEF OnReadEof, UvClose, IInv, TypeOK
<1>3. Deaf' = Deaf /\ Answers' = Answers
  BY DEF Deaf, Answers, OnReadEof
<1> QED BY <1>1, <1>2, <1>3 DEF OnReadEof, Live, Serving!Leave, Serving!Move

LEMMA OnReadBadServes ==
    ASSUME IInv, NEW c \in Conns, OnReadBad(c)
    PROVE  Serving!Misunderstand(c)
<1>1. Phases[c] \in {"waiting", "taking", "answering"}
  BY DEF Phases, PhaseOf, OnReadBad, Live
<1>2. Phases' = [Phases EXCEPT ![c] = IF @ = "answering" THEN @ ELSE "waiting"]
  <2>1. PhaseOf(c)' = IF PhaseOf(c) = "answering" THEN "answering" ELSE "waiting"
    BY DEF PhaseOf, OnReadBad, Live, IInv, TypeOK
  <2>2. Phases[c] = PhaseOf(c)
    BY DEF Phases
  <2> QED BY <2>1, <2>2, PhasesAt DEF OnReadBad, IInv, TypeOK
<1>3. Deaf' = [Deaf EXCEPT ![c] = TRUE]
  BY DEF Deaf, OnReadBad, IInv, TypeOK
<1>4. Answers' = Answers
  BY DEF Answers, OnReadBad
<1> QED BY <1>1, <1>2, <1>3, <1>4 DEF OnReadBad, Live, ghost, Serving!Misunderstand

LEMMA OnMessageBeginServes ==
    ASSUME ~ Pipelining, IInv, NEW c \in Conns, OnMessageBegin(c)
    PROVE  Serving!Take(c)
<1>1. Phases[c] = "waiting" /\ ~ Deaf[c]
  BY DEF Phases, PhaseOf, Deaf, OnMessageBegin, BeginMessage, Live
<1>2. Phases' = [Phases EXCEPT ![c] = "taking"]
  <2>1. PhaseOf(c)' = "taking"
    BY DEF PhaseOf, OnMessageBegin, BeginMessage, Live, IInv, TypeOK
  <2> QED BY <2>1, PhasesAt DEF OnMessageBegin, BeginMessage, IInv, TypeOK
<1>3. Deaf' = Deaf
  BY DEF Deaf, OnMessageBegin, BeginMessage, IInv, TypeOK
<1>4. Answers' = Answers
  BY DEF Answers, OnMessageBegin, BeginMessage
<1> QED BY <1>1, <1>2, <1>3, <1>4
        DEF OnMessageBegin, BeginMessage, Live, Serving!Take, Serving!Move

LEMMA OnHeadersCompleteServes ==
    ASSUME IInv, NoOverlap, NEW c \in Conns, NEW ka \in BOOLEAN, OnHeadersComplete(c, ka)
    PROVE  UNCHANGED Serving!vars
<1>1. PhaseOf(c)' = PhaseOf(c)
  BY DEF PhaseOf, OnHeadersComplete, Live, IInv, TypeOK
<1>2. Phases' = Phases
  BY <1>1, PhasesSame DEF OnHeadersComplete, IInv, TypeOK
<1>3. Deaf' = Deaf
  BY DEF Deaf, OnHeadersComplete, IInv, TypeOK
<1>4. Answers' = Answers
  BY DEF Answers, OnHeadersComplete
<1> QED BY <1>2, <1>3, <1>4 DEF OnHeadersComplete, ghost, Serving!vars

\* The part the two ways of completing a message share.
LEMMA MessageCompleteServes ==
    ASSUME IInv, NoOverlap, NEW c \in Conns, NEW ka \in BOOLEAN, Live(c),
           parser[c] \in {"headers", "body"}, MessageComplete(c, ka)
    PROVE  Serving!StartAnswer(c, ka)
<1> USE ConnAssumption DEF Msgs
<1>1. writeReq[c] = 0 /\ request[c] \in Msgs /\ resp[c][request[c]] = "none"
  BY DEF IInv, TypeOK, AnswerInv, SerialInv, NoOverlap
<1>2. Phases[c] = "taking" /\ ~ Deaf[c]
  BY <1>1 DEF Phases, PhaseOf, Deaf, Live
<1>3. Phases' = [Phases EXCEPT ![c] = "answering"]
  <2>1. PhaseOf(c)' = "answering"
    BY <1>1 DEF PhaseOf, MessageComplete, ResponseSend, Live, IInv, TypeOK
  <2> QED BY <2>1, PhasesAt DEF MessageComplete, ResponseSend, IInv, TypeOK
<1>4. Deaf' = Deaf
  BY DEF Deaf, MessageComplete, IInv, TypeOK
<1>5. Answers' = Answers
  <2>1. \A d \in Conns : \A m \in Msgs : resp'[d][m] = "written" <=> resp[d][m] = "written"
    BY <1>1 DEF MessageComplete, ResponseSend, IInv, TypeOK
  <2> QED BY <2>1 DEF Answers
<1>6. process = "up" /\ process' = "up"
  BY <1>1 DEF Live, MessageComplete, ResponseSend
<1> QED BY <1>2, <1>3, <1>4, <1>5, <1>6
        DEF MessageComplete, ResponseSend, Serving!StartAnswer, Serving!Move

LEMMA OnWriteServes ==
    ASSUME IInv, NoOverlap, NEW c \in Conns, OnWrite(c)
    PROVE  Serving!FinishAnswer(c)
<1> USE ConnAssumption DEF Msgs
<1>1. /\ writeReq[c] = request[c] /\ request[c] \in Msgs
      /\ promised[c] <=> keepAlive[c]
      /\ parser[c] \notin {"headers", "body"}
  BY DEF IInv, TypeOK, SerialInv, NoOverlap, OnWrite, Settle
<1>2. Phases[c] = "answering"
  BY DEF Phases, PhaseOf, OnWrite, Live, Settle
<1>3. Phases' = [Phases EXCEPT ![c] = IF promised[c] THEN "waiting" ELSE "gone"]
  <2>1. CASE keepAlive[c]
    <3>1. PhaseOf(c)' = "waiting"
      BY <1>1, <2>1 DEF PhaseOf, OnWrite, Live, Settle, IInv, TypeOK
    <3> QED BY <1>1, <2>1, <3>1, PhasesAt DEF OnWrite, Settle, IInv, TypeOK
  <2>2. CASE ~ keepAlive[c]
    <3>1. PhaseOf(c)' = "gone"
      BY <2>2 DEF PhaseOf, OnWrite, UvClose, IInv, TypeOK
    <3> QED BY <1>1, <2>2, <3>1, PhasesAt DEF OnWrite, Settle, UvClose, IInv, TypeOK
  <2> QED BY <2>1, <2>2
<1>4. Deaf' = Deaf
  BY DEF Deaf, OnWrite, Settle
<1>5. Answers' = [Answers EXCEPT ![c] = @ \cup {request[c]}]
  <2>1. \A m \in Msgs : resp'[c][m] = "written" <=> resp[c][m] = "written" \/ m = request[c]
    BY <1>1 DEF OnWrite, Settle, IInv, TypeOK
  <2>2. \A d \in Conns \ {c} : resp'[d] = resp[d]
    BY DEF OnWrite, Settle, IInv, TypeOK
  <2>3. Answers'[c] = Answers[c] \cup {request[c]}
    BY <1>1, <2>1 DEF Answers
  <2>4. \A d \in Conns \ {c} : Answers'[d] = Answers[d]
    BY <2>2 DEF Answers
  <2>5. Answers' = [d \in Conns |-> Answers'[d]] /\ Answers = [d \in Conns |-> Answers[d]]
    BY DEF Answers
  <2> QED BY <2>3, <2>4, <2>5
<1> QED BY <1>2, <1>3, <1>4, <1>5
        DEF OnWrite, Live, Settle, Serving!FinishAnswer, Serving!Move

LEMMA OnWriteCancelledServes ==
    ASSUME IInv, NEW c \in Conns, OnWriteCancelled(c)
    PROVE  UNCHANGED Serving!vars
<1> USE ConnAssumption DEF Msgs
<1>1. writeReq[c] \in Msgs /\ resp[c][writeReq[c]] = "sent"
  BY DEF IInv, TypeOK, AnswerInv, OnWriteCancelled, Settle
<1>2. Phases' = Phases
  <2>1. PhaseOf(c)' = PhaseOf(c)
    BY DEF PhaseOf, OnWriteCancelled
  <2> QED BY <2>1, PhasesSame DEF OnWriteCancelled, Settle, IInv, TypeOK
<1>3. Deaf' = Deaf
  BY DEF Deaf, OnWriteCancelled, Settle
<1>4. Answers' = Answers
  <2>1. \A d \in Conns : \A m \in Msgs : resp'[d][m] = "written" <=> resp[d][m] = "written"
    BY <1>1 DEF OnWriteCancelled, Settle, IInv, TypeOK
  <2> QED BY <2>1 DEF Answers
<1> QED BY <1>2, <1>3, <1>4 DEF OnWriteCancelled, Settle, Serving!vars

LEMMA OnCloseServes ==
    ASSUME IInv, NEW c \in Conns, OnClose(c)
    PROVE  UNCHANGED Serving!vars
<1>1. Phases' = Phases
  <2>1. PhaseOf(c)' = PhaseOf(c)
    BY DEF PhaseOf, OnClose, CloseDue, IInv, TypeOK
  <2> QED BY <2>1, PhasesSame DEF OnClose, CloseDue, IInv, TypeOK
<1>2. Deaf' = Deaf /\ Answers' = Answers
  BY DEF Deaf, Answers, OnClose, CloseDue
<1> QED BY <1>1, <1>2 DEF OnClose, CloseDue, ghost, Serving!vars

\* However the process ends, the connections are as they were.
LEMMA StopServes ==
    ASSUME process = "up", process' \in {"exited", "crashed"}, UNCHANGED <<conn, ghost>>
    PROVE  Serving!Stop
<1>1. Phases' = Phases /\ Deaf' = Deaf /\ Answers' = Answers
  BY DEF conn, Phases, PhaseOf, Deaf, Answers
<1> QED BY <1>1 DEF conn, ghost, Serving!Stop

LEMMA NextServes ==
    ASSUME ~ Pipelining, IInv, NoOverlap, [Next]_vars
    PROVE  [Serving!Next]_(Serving!vars)
<1>1. CASE UNCHANGED vars
  BY <1>1 DEF vars, conn, ghost, Serving!vars, Phases, PhaseOf, Deaf, Answers
<1>2. CASE Shutdown
  BY <1>2, StopServes DEF Shutdown, Serving!Next
<1>3. ASSUME NEW c \in Conns, Client(c)
      PROVE  [Serving!Next]_(Serving!vars)
  <2>1. CASE OnConn(c)
    BY <2>1, OnConnServes DEF Serving!Next
  <2>2. CASE OnReadEof(c)
    BY <2>2, OnReadEofServes DEF Serving!Next
  <2>3. CASE OnReadBad(c)
    BY <2>3, OnReadBadServes DEF Serving!Next
  <2>4. CASE OnMessageBegin(c)
    BY <2>4, OnMessageBeginServes DEF Serving!Next
  <2>5. ASSUME NEW ka \in BOOLEAN, OnHeadersComplete(c, ka)
        PROVE  UNCHANGED Serving!vars
    BY <2>5, OnHeadersCompleteServes
  <2>6. ASSUME NEW ka \in BOOLEAN, OnBodilessComplete(c, ka)
        PROVE  Serving!Next
    <3>1. Serving!StartAnswer(c, ka)
      BY <2>6, MessageCompleteServes DEF OnBodilessComplete
    <3> QED BY <3>1 DEF Serving!Next
  <2>7. CASE OnMessageComplete(c)
    <3>1. keepAlive[c] \in BOOLEAN
      BY DEF IInv, TypeOK
    <3>2. Serving!StartAnswer(c, keepAlive[c])
      BY <2>7, <3>1, MessageCompleteServes DEF OnMessageComplete
    <3> QED BY <3>1, <3>2 DEF Serving!Next
  <2>8. CASE DispatchCrash(c)
    BY <2>8, StopServes DEF DispatchCrash, Live, Serving!Next
  <2> QED BY <1>3, <2>1, <2>2, <2>3, <2>4, <2>5, <2>6, <2>7, <2>8 DEF Client
<1>4. ASSUME NEW c \in Conns, Loop(c)
      PROVE  [Serving!Next]_(Serving!vars)
  <2>1. CASE OnWrite(c)
    BY <2>1, OnWriteServes DEF Serving!Next
  <2>2. CASE OnWriteCancelled(c)
    BY <2>2, OnWriteCancelledServes
  <2>3. CASE OnClose(c)
    BY <2>3, OnCloseServes
  <2> QED BY <1>4, <2>1, <2>2, <2>3 DEF Loop
<1> QED BY <1>1, <1>2, <1>3, <1>4 DEF Next

\* guava serves clients that wait for each answer the way HttpServing says:
\* one request at a time, each answered once, in order, closing after the
\* answer that did not promise to stay.
THEOREM ServesSerially ==
    ASSUME ~ Pipelining
    PROVE  Spec => ImplementsServing
<1>1. Init => NoOverlap
  BY DEF Init, NoOverlap
<1>2. IInv /\ NoOverlap /\ [Next]_vars => NoOverlap'
  BY NextKeepsNoOverlap DEF IInv
<1>3. IInv /\ NoOverlap /\ [Next]_vars => [Serving!Next]_(Serving!vars)
  BY NextServes
<1> QED BY <1>1, <1>2, <1>3, InitServes, SpecKeeps, PTL DEF Spec, ImplementsServing, Serving!Spec
============================================================================
