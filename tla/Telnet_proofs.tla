---------------------------- MODULE Telnet_proofs ----------------------------
(***************************************************************************)
(* Proofs about Telnet, for every ring, every number of sessions and every *)
(* behaviour of the netconns: the types; the sender never takes a byte     *)
(* older than the one it is at, though it shares counter and ring with a   *)
(* task that preempts it and may overrun it; a session gets the bytes in   *)
(* the order they were printed, none twice, unless the ring was overrun; a *)
(* netconn is given back only when nothing is under way on it.             *)
(***************************************************************************)
EXTENDS Telnet, NatLemmas, TLAPS

Numbers == /\ i \in Nat /\ counter \in Nat /\ printed \in Nat /\ taken \in Nat
           /\ senderPc \in {"test", "loop", "write", "wait", "reset"}

\* The sender's local index against the counter: it is behind the counter while a
\* byte is under way, since nobody but the sender ever takes from the counter.
IndexInCount == /\ senderPc = "test" => i = 0
                /\ senderPc = "loop" => i <= counter
                /\ senderPc \in {"write", "wait"} => i < counter
                /\ taken <= printed

\* It never counts on more bytes than were printed.
CountedWerePrinted ==
  taken + (IF senderPc = "reset" THEN 0 ELSE counter - i) <= printed

CInv == Numbers /\ IndexInCount /\ CountedWerePrinted

LEMMA PrintInv == CInv /\ (\E n \in 1..Size : PrintTelNet(n)) => CInv'
<1> SUFFICES ASSUME CInv, NEW n \in 1..Size, PrintTelNet(n) PROVE CInv'
  OBVIOUS
<1>1. /\ n \in Nat /\ counter' = counter + n /\ printed' = printed + n
      /\ UNCHANGED <<senderPc, i, taken>>
  BY TelnetAssumption DEF PrintTelNet, senderVars
<1> QED BY <1>1 DEF CInv, Numbers, IndexInCount, CountedWerePrinted

\* The server, TCP and the calls of the API touch neither ring nor sender.
LEMMA OthersInv ==
  ASSUME CInv, UNCHANGED <<ringVars, senderVars>>
  PROVE  CInv'
BY DEF CInv, Numbers, IndexInCount, CountedWerePrinted, ringVars, senderVars

LEMMA SenderInv == CInv /\ SenderAct => CInv'
<1> SUFFICES ASSUME CInv, SenderAct PROVE CInv'
  OBVIOUS
<1>1. CASE SenderTest
  BY <1>1 DEF SenderTest, SenderRuns, ringVars, CInv, Numbers, IndexInCount, CountedWerePrinted
<1>2. CASE SenderLoop
  BY <1>2 DEF SenderLoop, SenderRuns, ringVars, CInv, Numbers, IndexInCount, CountedWerePrinted
<1>3. CASE SenderWrite
  <2>1. senderPc = "write" /\ senderPc' = "wait" /\ UNCHANGED <<i, ringVars>>
    BY <1>3 DEF SenderWrite, SenderRuns
  <2> QED BY <2>1 DEF ringVars, CInv, Numbers, IndexInCount, CountedWerePrinted
<1>4. CASE SenderReturns
  BY <1>4, OthersInv DEF SenderReturns
<1>5. CASE SenderNext
  BY <1>5 DEF SenderNext, SenderRuns, CInv, Numbers, IndexInCount, CountedWerePrinted
<1>6. CASE SenderReset
  BY <1>6 DEF SenderReset, SenderRuns, CInv, Numbers, IndexInCount, CountedWerePrinted
<1> QED BY <1>1, <1>2, <1>3, <1>4, <1>5, <1>6 DEF SenderAct

LEMMA ServerInv == CInv /\ (ServerAccept \/ ServerAct) => CInv'
<1> SUFFICES ASSUME CInv, ServerAccept \/ ServerAct PROVE UNCHANGED <<ringVars, senderVars>>
  BY OthersInv
<1> QED BY DEF ServerAccept, ServerAct, ServerReturns, ServerRecv, ServerListen,
               ServerRecved, ServerClose, ServerDelete, ServerDeleted

LEMMA TcpInv == CInv /\ (TcpArrives \/ \E c \in Conn : TcpFinishes(c) \/ TcpReset(c)) => CInv'
<1> SUFFICES ASSUME CInv, TcpArrives \/ \E c \in Conn : TcpFinishes(c) \/ TcpReset(c)
             PROVE  UNCHANGED <<ringVars, senderVars>>
  BY OthersInv
<1> QED BY DEF TcpArrives, TcpFinishes, TcpReset

LEMMA CountNext == CInv /\ [Next]_vars => CInv'
<1> SUFFICES ASSUME CInv, [Next]_vars PROVE CInv'
  OBVIOUS
<1>1. CASE UNCHANGED vars
  BY <1>1, OthersInv DEF vars
<1> QED BY <1>1, PrintInv, SenderInv, ServerInv, TcpInv DEF Next

THEOREM CountInvariance == Spec => []CInv
<1>1. Init => CInv
  BY DEF Init, CInv, Numbers, IndexInCount, CountedWerePrinted
<1> QED BY <1>1, CountNext, PTL DEF Spec

-------------------------------------------------------------------------------
\* FreedIsQuiet.  What the argument needs of the types:
Errs == {"none", "unset", "OK", "error"}
States == {"absent", "NONE", "WRITE", "CLOSE"}
Msgs == [by : Task \union {Nobody}, slot : Slots \union {NoSlot}]

NetTypes ==
  /\ state \in [Conn -> States]
  /\ pcb \in [Conn -> BOOLEAN] /\ freed \in [Conn -> BOOLEAN]
  /\ current_msg \in [Conn -> Msgs]
  /\ call \in [Task -> [conn : Conn \union {0}, err : Errs]]

\* A netconn has a current_msg exactly while its state says so, and a TCP connection
\* then; only the server closes.
Pending ==
  \A c \in Conn :
    /\ state[c] \in {"absent", "NONE"} => current_msg[c] = NoMsg
    /\ state[c] \in {"WRITE", "CLOSE"} => pcb[c] /\ current_msg[c].by \in Task
    /\ state[c] = "CLOSE" => current_msg[c].by = "server"
    /\ state[c] = "absent" => ~pcb[c]

\* As long as no call returned early, the task of a current_msg waits for it.
Calling ==
  \A c \in Conn, t \in Task :
    current_msg[c].by = t => call[t] = [conn |-> c, err |-> "unset"]

FreedGone == \A c \in Conn : freed[c] => state[c] = "NONE" /\ ~pcb[c]

\* netconn_delete has done its work, or the netconn is closing for it.
Deleting ==
  serverPc = "deleted" =>
    /\ call["server"].err = "OK" => state[conn] = "NONE" /\ ~pcb[conn]
    /\ call["server"].err = "unset" => state[conn] = "CLOSE" /\ call["server"].conn = conn

Locals == /\ conn \in Conn \union {NULL} /\ (serverPc # "accept" => conn \in Conn)
          /\ arg \in Conn \union {NULL} /\ newconnUse \in Conn \union {NULL}
          /\ rd_index \in Slots

Core == /\ NetTypes /\ Pending /\ FreedGone
        /\ fault = "none" => Calling /\ Deleting

FInv == Core /\ Locals

LEMMA Constants ==
  /\ Task = {"server", "sender"} /\ Nobody \notin Task /\ 0 \notin Conn
  /\ NoMsg \in Msgs /\ NoMsg.by = Nobody /\ NoSlot \notin Slots
  /\ Size \in Nat \ {0}
  BY TelnetAssumption, NobodyAssumption, ConnAssumption DEF Msgs, NoMsg, Slots, NoSlot

\* A message carried out at once.
LEMMA AckKeeps ==
  ASSUME FInv, fault = "none", NEW t \in Task, NEW c \in Conn, NEW err \in Errs,
         ~Waiting(t), Ack(t, c, err), UNCHANGED <<state, pcb, current_msg, freed>>
  PROVE  NetTypes' /\ Pending' /\ Calling' /\ FreedGone'
<1>1. call' = [call EXCEPT ![t] = [conn |-> c, err |-> err]]
  BY DEF Ack
<1>2. NetTypes'
  BY <1>1 DEF FInv, Core, NetTypes
<1>3. Pending' /\ FreedGone'
  BY DEF FInv, Core, Pending, FreedGone
<1>4. ASSUME NEW d \in Conn, NEW u \in Task, current_msg'[d].by = u
      PROVE  call'[u] = [conn |-> d, err |-> "unset"]
  <2>1. call[u] = [conn |-> d, err |-> "unset"]
    BY <1>4 DEF FInv, Core, Calling
  <2>2. u # t
    BY <2>1, Constants DEF Waiting
  <2> QED BY <2>1, <2>2, <1>1 DEF FInv, Core, NetTypes
<1> QED BY <1>2, <1>3, <1>4 DEF Calling

\* A message that has to wait.
LEMMA LaterKeeps ==
  ASSUME FInv, fault = "none", NEW t \in Task, NEW c \in Conn,
         NEW s \in {"WRITE", "CLOSE"}, NEW slot \in Slots \union {NoSlot},
         ~Waiting(t), s = "CLOSE" => t = "server",
         state[c] = "NONE", pcb[c], Later(t, c, s, slot), UNCHANGED freed
  PROVE  NetTypes' /\ Pending' /\ Calling' /\ FreedGone'
<1>1. /\ call' = [call EXCEPT ![t] = [conn |-> c, err |-> "unset"]]
      /\ state' = [state EXCEPT ![c] = s]
      /\ current_msg' = [current_msg EXCEPT ![c] = [by |-> t, slot |-> slot]]
      /\ UNCHANGED pcb
  BY DEF Later
<1>2. NetTypes'
  BY <1>1 DEF FInv, Core, NetTypes, Errs, States, Msgs
<1>3. Pending'
  BY <1>1 DEF FInv, Core, NetTypes, Pending
<1>4. FreedGone'
  BY <1>1 DEF FInv, Core, NetTypes, FreedGone
<1>5. ASSUME NEW d \in Conn, NEW u \in Task, current_msg'[d].by = u
      PROVE  call'[u] = [conn |-> d, err |-> "unset"]
  <2>1. CASE d = c
    BY <2>1, <1>1, <1>5 DEF FInv, Core, NetTypes
  <2>2. CASE d # c
    <3>1. call[u] = [conn |-> d, err |-> "unset"]
      BY <2>2, <1>1, <1>5 DEF FInv, Core, NetTypes, Calling
    <3>2. u # t
      BY <3>1, Constants DEF Waiting
    <3> QED BY <3>1, <3>2, <1>1 DEF FInv, Core, NetTypes
  <2> QED BY <2>1, <2>2
<1> QED BY <1>2, <1>3, <1>4, <1>5 DEF Calling

\* The server closes: its netconn has no current_msg of a close, since the server
\* would wait for it.
LEMMA CloseKeeps ==
  ASSUME FInv, fault = "none", NEW c \in Conn, ~Waiting("server"),
         pcb[c], state[c] = "NONE", CloseInternal("server", c), UNCHANGED freed
  PROVE  /\ NetTypes' /\ Pending' /\ Calling' /\ FreedGone'
         /\ call'["server"].err = "OK" => state'[c] = "NONE" /\ ~pcb'[c]
         /\ call'["server"].err = "unset" => state'[c] = "CLOSE" /\ call'["server"].conn = c
         /\ call'["server"].err \in {"OK", "unset"}
<1>0. "server" \in Task /\ NoSlot \in Slots \union {NoSlot}
  BY Constants
<1>1. CASE Later("server", c, "CLOSE", NoSlot)
  <2>1. NetTypes' /\ Pending' /\ Calling' /\ FreedGone'
    BY <1>0, <1>1, LaterKeeps
  <2>2. /\ call'["server"] = [conn |-> c, err |-> "unset"] /\ state'[c] = "CLOSE"
    BY <1>0, <1>1 DEF Later, FInv, Core, NetTypes
  <2> QED BY <2>1, <2>2
<1>2. CASE /\ pcb' = [pcb EXCEPT ![c] = FALSE]
           /\ Ack("server", c, "OK")
           /\ UNCHANGED <<state, pending_err, current_msg>>
  <2>1. call' = [call EXCEPT !["server"] = [conn |-> c, err |-> "OK"]]
    BY <1>2 DEF Ack
  <2>2. NetTypes'
    BY <2>1, <1>0, <1>2 DEF FInv, Core, NetTypes, Errs
  <2>3. Pending' /\ FreedGone'
    BY <1>2 DEF FInv, Core, NetTypes, Pending, FreedGone
  <2>4. ASSUME NEW d \in Conn, NEW u \in Task, current_msg'[d].by = u
        PROVE  call'[u] = [conn |-> d, err |-> "unset"]
    <3>1. call[u] = [conn |-> d, err |-> "unset"]
      BY <1>2, <2>4 DEF FInv, Core, Calling
    <3>2. u # "server"
      BY <3>1, Constants DEF Waiting
    <3> QED BY <3>1, <3>2, <2>1 DEF FInv, Core, NetTypes
  <2>5. call'["server"].err = "OK" /\ state'[c] = "NONE" /\ ~pcb'[c]
    BY <2>1, <1>0, <1>2 DEF FInv, Core, NetTypes
  <2> QED BY <2>2, <2>3, <2>4, <2>5 DEF Calling
<1> QED BY <1>1, <1>2 DEF CloseInternal

\* A callback of TCP finishes what waited, or the connection is reset.
LEMMA FinishedKeeps ==
  ASSUME FInv, fault = "none", NEW c \in Conn, Finished(c), UNCHANGED <<serverPc, conn>>
  PROVE  NetTypes' /\ Pending' /\ Calling' /\ FreedGone' /\ Deleting'
<1> DEFINE t == current_msg[c].by
<1>1. t \in Task /\ call[t] = [conn |-> c, err |-> "unset"] /\ pcb[c]
  BY DEF FInv, Core, Pending, Calling, Finished
<1>2. /\ call' = [call EXCEPT ![t] = [conn |-> c, err |-> "OK"]]
      /\ state' = [state EXCEPT ![c] = "NONE"]
      /\ pcb' = [pcb EXCEPT ![c] = state[c] = "WRITE"]
      /\ current_msg' = [current_msg EXCEPT ![c] = NoMsg]
      /\ UNCHANGED freed
  <2>1. [call[t] EXCEPT !.err = "OK"] = [conn |-> c, err |-> "OK"]
    BY <1>1
  <2>2. call' = [call EXCEPT ![t] = [call[t] EXCEPT !.err = "OK"]]
    BY DEF Finished
  <2> HIDE DEF t
  <2> QED BY <2>1, <2>2 DEF Finished
<1> HIDE DEF t
<1>3. NetTypes'
  BY <1>1, <1>2, Constants DEF FInv, Core, NetTypes, Errs, States
<1>4. Pending'
  BY <1>2, Constants DEF FInv, Core, NetTypes, Pending
<1>5. FreedGone'
  BY <1>2 DEF FInv, Core, NetTypes, FreedGone, Finished
<1>6. ASSUME NEW d \in Conn, NEW u \in Task, current_msg'[d].by = u
      PROVE  call'[u] = [conn |-> d, err |-> "unset"]
  <2>1. d # c
    BY <1>2, <1>6, Constants DEF FInv, Core, NetTypes
  <2>2. call[u] = [conn |-> d, err |-> "unset"]
    BY <2>1, <1>2, <1>6 DEF FInv, Core, NetTypes, Calling
  <2>3. u # t
    BY <2>1, <2>2, <1>1
  <2> QED BY <2>2, <2>3, <1>2 DEF FInv, Core, NetTypes
<1>7. Deleting'
  <2> SUFFICES ASSUME serverPc = "deleted"
               PROVE  /\ call'["server"].err = "OK" => state'[conn] = "NONE" /\ ~pcb'[conn]
                      /\ call'["server"].err = "unset" =>
                           state'[conn] = "CLOSE" /\ call'["server"].conn = conn
    BY DEF Deleting
  <2>0. conn \in Conn /\ "server" \in Task
    BY Constants DEF FInv, Locals
  <2>1. CASE t = "server"
    <3>1. c = conn /\ state[c] = "CLOSE" /\ call'["server"].err = "OK"
      BY <2>0, <2>1, <1>1, <1>2 DEF FInv, Core, NetTypes, Deleting
    <3> QED BY <3>1, <1>2, <2>0 DEF FInv, Core, NetTypes
  <2>2. CASE t # "server"
    <3>1. call'["server"] = call["server"]
      BY <2>0, <2>2, <1>1, <1>2 DEF FInv, Core, NetTypes
    <3>2. state[c] \in {"WRITE", "CLOSE"} /\ state[c] # "CLOSE"
      BY <2>2 DEF Finished, FInv, Core, Pending, t
    <3> QED BY <3>1, <3>2, <2>0, <1>2 DEF FInv, Core, NetTypes, Deleting
  <2> QED BY <2>1, <2>2
<1> QED BY <1>3, <1>4, <1>5, <1>6, <1>7 DEF Calling

LEMMA ResetKeeps ==
  ASSUME FInv, fault = "none", NEW c \in Conn, Reset(c), UNCHANGED <<serverPc, conn>>
  PROVE  NetTypes' /\ Pending' /\ Calling' /\ FreedGone' /\ Deleting'
<1> DEFINE t == current_msg[c].by
<1>1. /\ state' = [state EXCEPT ![c] = "NONE"]
      /\ pcb' = [pcb EXCEPT ![c] = FALSE]
      /\ current_msg' = [current_msg EXCEPT ![c] = NoMsg]
      /\ pcb[c] /\ UNCHANGED freed
  BY DEF Reset
<1>2. Pending' /\ FreedGone'
  BY <1>1, Constants DEF FInv, Core, NetTypes, Pending, FreedGone
<1>3. CASE state[c] = "NONE"
  <2>1. UNCHANGED call
    BY <1>3 DEF Reset
  <2>2. NetTypes'
    BY <1>1, <2>1, Constants DEF FInv, Core, NetTypes, States
  <2>3. Calling'
    BY <1>1, <2>1, Constants DEF FInv, Core, NetTypes, Calling
  <2>4. Deleting'
    <3>1. c = conn => call["server"].err \notin {"OK", "unset"} \/ serverPc # "deleted"
      BY <1>3, <1>1 DEF FInv, Core, Deleting
    <3> QED BY <3>1, <2>1, <1>1 DEF FInv, Core, NetTypes, Deleting
  <2> QED BY <1>2, <2>2, <2>3, <2>4
<1>4. CASE state[c] # "NONE"
  <2>1. state[c] \in {"WRITE", "CLOSE"}
    BY <1>1, <1>4 DEF FInv, Core, NetTypes, Pending, States
  <2>2. t \in Task /\ call[t] = [conn |-> c, err |-> "unset"]
    BY <2>1 DEF FInv, Core, Pending, Calling
  <2>3. PICK e \in {"OK", "error"} : call' = [call EXCEPT ![t] = [conn |-> c, err |-> e]]
    BY <1>4, <2>2 DEF Reset, FInv, Core, NetTypes
  <2> HIDE DEF t
  <2>4. NetTypes'
    BY <1>1, <2>2, <2>3, Constants DEF FInv, Core, NetTypes, States, Errs
  <2>5. ASSUME NEW d \in Conn, NEW u \in Task, current_msg'[d].by = u
        PROVE  call'[u] = [conn |-> d, err |-> "unset"]
    <3>1. d # c
      BY <1>1, <2>5, Constants DEF FInv, Core, NetTypes
    <3>2. call[u] = [conn |-> d, err |-> "unset"]
      BY <3>1, <1>1, <2>5 DEF FInv, Core, NetTypes, Calling
    <3>3. u # t
      BY <3>1, <3>2, <2>2
    <3> QED BY <3>2, <3>3, <2>3 DEF FInv, Core, NetTypes
  <2>6. Deleting'
    <3> SUFFICES ASSUME serverPc = "deleted"
                 PROVE  /\ call'["server"].err = "OK" => state'[conn] = "NONE" /\ ~pcb'[conn]
                        /\ call'["server"].err = "unset" =>
                             state'[conn] = "CLOSE" /\ call'["server"].conn = conn
      BY DEF Deleting
    <3>0. conn \in Conn /\ "server" \in Task
      BY Constants DEF FInv, Locals
    <3>1. CASE t = "server"
      <4>1. c = conn /\ call'["server"].err # "unset"
        BY <3>0, <3>1, <2>2, <2>3 DEF FInv, Core, NetTypes, Deleting
      <4> QED BY <4>1, <1>1, <3>0 DEF FInv, Core, NetTypes
    <3>2. CASE t # "server"
      <4>1. call'["server"] = call["server"]
        BY <3>0, <3>2, <2>2, <2>3 DEF FInv, Core, NetTypes
      <4>2. state[c] # "CLOSE"
        BY <3>2 DEF FInv, Core, Pending, t
      <4> QED BY <4>1, <4>2, <3>0, <1>1 DEF FInv, Core, NetTypes, Deleting
    <3> QED BY <3>1, <3>2
  <2> QED BY <1>2, <2>4, <2>5, <2>6 DEF Calling
<1> QED BY <1>3, <1>4

\* A call returns: on its own token with nothing left pending, or early, which is the
\* fault that ends the behaviour.
LEMMA ReturnKeeps ==
  ASSUME FInv, fault = "none", NEW t \in Task, CallReturns(t), UNCHANGED <<serverPc, conn>>
  PROVE  NetTypes' /\ Pending' /\ FreedGone' /\ (fault' = "none" => Calling' /\ Deleting')
<1>1. /\ UNCHANGED <<state, pcb, current_msg, freed>>
      /\ Waiting(t)
      /\ call' = [call EXCEPT ![t] = IF t = "server" /\ serverPc = "deleted"
                                    THEN [@ EXCEPT !.conn = 0] ELSE NoCall]
      /\ fault' = IF Early(t) THEN "early return" ELSE fault
  BY DEF CallReturns, Returns, Signalled
<1>2. NetTypes'
  BY <1>1 DEF FInv, Core, NetTypes, NoCall, Errs
<1>3. Pending' /\ FreedGone'
  BY <1>1 DEF FInv, Core, Pending, FreedGone
<1>4. ASSUME fault' = "none" PROVE Calling' /\ Deleting'
  <2>1. ~Early(t)
    BY <1>1, <1>4
  <2>2. ASSUME NEW d \in Conn, current_msg[d].by = t PROVE FALSE
    <3>1. call[t] = [conn |-> d, err |-> "unset"]
      BY <2>2 DEF FInv, Core, Calling
    <3>2. call[t].conn = d
      BY <3>1
    <3> QED BY <2>1, <2>2, <3>2 DEF Early
  <2>3. Calling'
    BY <2>2, <1>1 DEF FInv, Core, NetTypes, Calling
  <2>4. Deleting'
    <3>0. "server" \in Task
      BY Constants
    <3>1. CASE t = "server" /\ serverPc = "deleted"
      <4>1. conn \in Conn /\ call'["server"].err = call["server"].err
        BY <3>0, <3>1, <1>1 DEF FInv, Core, Locals, NetTypes
      <4>2. call["server"].err # "unset"
        BY <4>1, <3>1, <2>2 DEF FInv, Core, Deleting, Pending
      <4> QED BY <4>1, <4>2, <1>1 DEF FInv, Core, Deleting
    <3>2. CASE t # "server" \/ serverPc # "deleted"
      <4>1. serverPc = "deleted" => call'["server"] = call["server"]
        BY <3>0, <3>2, <1>1 DEF FInv, Core, NetTypes
      <4> QED BY <4>1, <1>1 DEF FInv, Core, Deleting
    <3> QED BY <3>1, <3>2
  <2> QED BY <2>3, <2>4
<1> QED BY <1>2, <1>3, <1>4

-------------------------------------------------------------------------------
\* A step that leaves the netconns alone, and the server at its place.
LEMMA QuietKeeps ==
  ASSUME FInv, fault = "none", UNCHANGED <<netVars, conn, serverPc>>
  PROVE  Core'
BY DEF FInv, Core, NetTypes, Pending, FreedGone, Calling, Deleting, netVars

LEMMA LocalsKeep ==
  ASSUME FInv, Next
  PROVE  Locals'
<1>1. CASE \E n \in 1..Size : PrintTelNet(n)
  BY <1>1 DEF PrintTelNet, FInv, Locals, serverVars, senderVars
<1>2. CASE ServerAccept
  BY <1>2 DEF ServerAccept, FInv, Locals, ringVars, senderVars
<1>3. CASE ServerAct
  BY <1>3 DEF ServerAct, ServerReturns, ServerRecv, ServerListen, ServerRecved, ServerClose,
              ServerDelete, ServerDeleted, ServerRuns, NULL,
              FInv, Locals, ringVars, senderVars, serverVars
<1>4. CASE SenderNext
  <2>1. (rd_index + 1) % Size \in Slots
    BY Constants DEF FInv, Locals, Slots
  <2> QED BY <1>4, <2>1 DEF SenderNext, FInv, Locals, serverVars, NULL
<1>5. CASE SenderAct /\ ~SenderNext
  BY <1>5 DEF SenderAct, SenderTest, SenderLoop, SenderWrite, SenderReturns, SenderReset,
              FInv, Locals, ringVars, senderVars, serverVars, NULL
<1>6. CASE TcpArrives \/ \E c \in Conn : TcpFinishes(c) \/ TcpReset(c)
  BY <1>6 DEF TcpArrives, TcpFinishes, TcpReset, FInv, Locals, ringVars, senderVars, serverVars
<1> QED BY <1>1, <1>2, <1>3, <1>4, <1>5, <1>6 DEF Next

LEMMA AcceptKeeps ==
  ASSUME FInv, fault = "none", ServerAccept
  PROVE  Core'
<1>1. PICK c \in Conn : Accepted(c)
  BY DEF ServerAccept
<1>2. serverPc' = "recv" /\ fault' = "none"
  BY DEF ServerAccept
<1>3. /\ state' = [state EXCEPT ![c] = "NONE"] /\ pcb' = [pcb EXCEPT ![c] = TRUE]
      /\ state[c] = "absent" /\ UNCHANGED <<current_msg, freed, call>>
  BY <1>1 DEF Accepted
<1>4. NetTypes' /\ Pending'
  BY <1>3 DEF FInv, Core, NetTypes, Pending, States
<1>5. FreedGone'
  BY <1>3 DEF FInv, Core, NetTypes, FreedGone
<1>6. Calling' /\ Deleting'
  BY <1>2, <1>3 DEF FInv, Core, Calling, Deleting
<1> QED BY <1>4, <1>5, <1>6 DEF Core

LEMMA RecvedKeeps ==
  ASSUME FInv, fault = "none", ServerRecved
  PROVE  Core'
<1>1. ~Waiting("server") /\ serverPc' \in {"recv", "close"} /\ fault' = "none"
  BY DEF ServerRecved, ServerRuns
<1>2. "server" \in Task /\ conn \in Conn /\ {"OK", "error"} \subseteq Errs
  BY Constants DEF ServerRecved, ServerRuns, FInv, Locals, Errs
<1>3. Deleting'
  BY <1>1 DEF Deleting
<1>4. CASE UNCHANGED netVars
  BY <1>3, <1>4 DEF FInv, Core, NetTypes, Pending, FreedGone, Calling, netVars
<1>0. PICK c \in Conn : c = conn
  BY <1>2
<1>5. CASE WriteWaits("server", conn, NoSlot)
  <2>1. /\ state[c] = "NONE" /\ pcb[c] /\ Later("server", c, "WRITE", NoSlot)
        /\ UNCHANGED freed
    BY <1>0, <1>5 DEF WriteWaits, CanWrite
  <2> QED BY <1>1, <1>2, <1>3, <2>1, LaterKeeps DEF Core
<1>6. ASSUME NEW e \in {"OK", "error"}, Ack("server", conn, e),
             UNCHANGED <<state, pcb, current_msg, freed>>
      PROVE  Core'
  <2>1. e \in Errs
    BY <1>2
  <2>2. Ack("server", c, e)
    BY <1>0, <1>6
  <2> QED BY <1>1, <1>2, <1>3, <1>6, <2>1, <2>2, AckKeeps DEF Core
<1>7. CASE WriteRefused("server", conn)
  BY <1>6, <1>7 DEF WriteRefused
<1>8. CASE WriteDone("server", conn)
  BY <1>6, <1>8 DEF WriteDone
<1>9. CASE DoShutRd("server", conn) /\ UNCHANGED freed
  BY <1>6, <1>9 DEF DoShutRd
<1> QED BY <1>4, <1>5, <1>7, <1>8, <1>9 DEF ServerRecved

LEMMA CloseDeleteKeeps ==
  ASSUME FInv, fault = "none", ServerClose \/ ServerDelete
  PROVE  Core'
<1>1. /\ ~Waiting("server") /\ serverPc' \in {"delete", "deleted"} /\ fault' = "none"
      /\ conn \in Conn /\ UNCHANGED <<conn, freed>> /\ "server" \in Task
  BY Constants DEF ServerClose, ServerDelete, ServerRuns, FInv, Locals
<1>2. "OK" \in Errs /\ "error" \in Errs
  BY DEF Errs
<1>0. PICK c \in Conn : c = conn
  BY <1>1
<1>3. ASSUME NEW e \in {"OK", "error"}, Ack("server", conn, e),
             UNCHANGED <<state, pcb, current_msg>>,
             e = "OK" => state[conn] = "NONE" /\ ~pcb[conn]
      PROVE  Core'
  <2>0. Ack("server", c, e) /\ e \in Errs
    BY <1>0, <1>2, <1>3
  <2>1. NetTypes' /\ Pending' /\ Calling' /\ FreedGone'
    BY <1>1, <1>3, <2>0, AckKeeps
  <2>2. call'["server"].err = e
    BY <1>1, <1>3 DEF Ack, FInv, Core, NetTypes
  <2>3. Deleting'
    BY <1>1, <1>3, <2>2 DEF Deleting
  <2> QED BY <2>1, <2>3 DEF Core
<1>4. ASSUME pcb[conn], state[conn] # "WRITE", CloseInternal("server", conn)
      PROVE  Core'
  <2>1. state[c] # "CLOSE"
    <3> SUFFICES ASSUME state[c] = "CLOSE" PROVE FALSE
      OBVIOUS
    <3>1. call["server"] = [conn |-> c, err |-> "unset"]
      BY <1>1 DEF FInv, Core, Pending, Calling
    <3>2. call["server"].conn = c /\ c # 0
      BY <3>1, Constants
    <3> QED BY <1>1, <3>2 DEF Waiting
  <2>2. state[c] = "NONE" /\ pcb[c] /\ CloseInternal("server", c)
    BY <1>0, <1>4, <2>1 DEF FInv, Core, NetTypes, States, Pending
  <2>3. /\ NetTypes' /\ Pending' /\ Calling' /\ FreedGone'
        /\ call'["server"].err = "OK" => state'[c] = "NONE" /\ ~pcb'[c]
        /\ call'["server"].err = "unset" => state'[c] = "CLOSE" /\ call'["server"].conn = c
    BY <1>1, <2>2, CloseKeeps
  <2>4. Deleting'
    BY <1>0, <1>1, <2>3 DEF Deleting
  <2> QED BY <2>3, <2>4 DEF Core
<1>5. CASE ServerClose
  BY <1>3, <1>4, <1>5 DEF ServerClose, DoClose
<1>6. CASE ServerDelete
  BY <1>3, <1>4, <1>6 DEF ServerDelete, DoDelconn
<1> QED BY <1>5, <1>6

LEMMA DeletedKeeps ==
  ASSUME FInv, fault = "none", ServerDeleted
  PROVE  Core'
<1>1. /\ freed' = [freed EXCEPT ![conn] = call["server"].err = "OK"]
      /\ call' = [call EXCEPT !["server"] = NoCall]
      /\ serverPc = "deleted" /\ serverPc' = "accept" /\ ~Waiting("server")
      /\ UNCHANGED <<state, pcb, current_msg, fault>>
  BY DEF ServerDeleted, ServerRuns
<1>2. conn \in Conn /\ "server" \in Task
  BY <1>1, Constants DEF FInv, Locals
<1>3. NetTypes' /\ Pending'
  BY <1>1, <1>2 DEF FInv, Core, NetTypes, Pending, NoCall, Errs
<1>4. FreedGone'
  BY <1>1, <1>2 DEF FInv, Core, NetTypes, FreedGone, Deleting
<1>5. ASSUME NEW d \in Conn, NEW u \in Task, current_msg'[d].by = u
      PROVE  call'[u] = [conn |-> d, err |-> "unset"]
  <2>1. call[u] = [conn |-> d, err |-> "unset"]
    BY <1>1, <1>5 DEF FInv, Core, Calling
  <2>2. u # "server"
    BY <2>1, <1>1, Constants DEF Waiting
  <2> QED BY <2>1, <2>2, <1>1 DEF FInv, Core, NetTypes
<1>6. Deleting'
  BY <1>1 DEF Deleting
<1> QED BY <1>3, <1>4, <1>5, <1>6 DEF Core, Calling

LEMMA ListenKeeps ==
  ASSUME FInv, fault = "none", ServerRecv \/ ServerListen
  PROVE  Core'
<1>1. /\ ~Waiting("server") /\ serverPc' \in {"listen", "close", "recved"}
      /\ fault' = "none" /\ conn \in Conn /\ "server" \in Task /\ "OK" \in Errs
      /\ UNCHANGED <<state, pcb, current_msg, freed>>
  BY Constants DEF ServerRecv, ServerListen, ServerRuns, DoRecv, netVars, FInv, Locals, Errs
<1>2. Deleting'
  BY <1>1 DEF Deleting
<1>3. CASE UNCHANGED call
  BY <1>1, <1>2, <1>3 DEF FInv, Core, NetTypes, Pending, FreedGone, Calling
<1>4. CASE Ack("server", conn, "OK")
  <2>1. PICK c \in Conn : c = conn
    BY <1>1
  <2>2. Ack("server", c, "OK")
    BY <1>4, <2>1
  <2> QED BY <1>1, <1>2, <2>2, AckKeeps DEF Core
<1> QED BY <1>3, <1>4 DEF ServerRecv, ServerListen, DoRecv, netVars

\* The sender writes to a netconn that is not being deleted: that one refuses.
LEMMA WriteKeeps ==
  ASSUME FInv, fault = "none", SenderWrite
  PROVE  Core'
<1>1. /\ ~Waiting("sender") /\ UNCHANGED <<serverPc, conn>>
      /\ {"sender", "server"} \subseteq Task
  BY Constants DEF SenderWrite, SenderRuns, serverVars
<1>2. CASE UNCHANGED netVars /\ fault' # "none"
  BY <1>2 DEF FInv, Core, NetTypes, Pending, FreedGone, netVars
<1>3. CASE UNCHANGED <<netVars, fault>>
  BY <1>1, <1>3, QuietKeeps
<1>4. CASE /\ arg # NULL /\ UNCHANGED fault
           /\ WriteRefused("sender", arg) \/ WriteDone("sender", arg)
  <2>1. PICK e \in {"OK", "error"} : Ack("sender", arg, e)
    BY <1>4 DEF WriteRefused, WriteDone
  <2>2. arg \in Conn /\ e \in Errs /\ UNCHANGED <<state, pcb, current_msg, freed>>
    BY <1>4 DEF WriteRefused, WriteDone, FInv, Locals, Errs
  <2>3. NetTypes' /\ Pending' /\ Calling' /\ FreedGone'
    <3>1. PICK c \in Conn : c = arg
      BY <2>2
    <3>2. Ack("sender", c, e)
      BY <2>1, <3>1
    <3> QED BY <1>1, <2>2, <3>2, AckKeeps
  <2>4. call'["server"] = call["server"]
    BY <1>1, <2>1 DEF Ack, FInv, Core, NetTypes
  <2> QED BY <1>1, <2>2, <2>3, <2>4 DEF FInv, Core, Deleting
<1>5. CASE arg # NULL /\ UNCHANGED fault /\ WriteWaits("sender", arg, rd_index)
  <2>1. arg \in Conn /\ rd_index \in Slots
    BY <1>5 DEF FInv, Locals
  <2>2. /\ state[arg] = "NONE" /\ pcb[arg] /\ Later("sender", arg, "WRITE", rd_index)
        /\ UNCHANGED freed
    BY <1>5 DEF WriteWaits, CanWrite
  <2>3. NetTypes' /\ Pending' /\ Calling' /\ FreedGone'
    <3>1. PICK c \in Conn : c = arg
      BY <2>1
    <3>2. PICK slot \in Slots : slot = rd_index
      BY <2>1
    <3>3. state[c] = "NONE" /\ pcb[c] /\ Later("sender", c, "WRITE", slot)
      BY <2>2, <3>1, <3>2
    <3> QED BY <1>1, <2>2, <3>3, LaterKeeps
  <2>4. call'["server"] = call["server"] /\ UNCHANGED pcb
    BY <1>1, <2>2 DEF Later, FInv, Core, NetTypes
  <2>5. ASSUME serverPc = "deleted" PROVE state'[conn] = state[conn] \/ conn = arg
    BY <2>2 DEF Later, FInv, Core, NetTypes
  <2>6. Deleting'
    <3> SUFFICES ASSUME serverPc = "deleted"
                 PROVE  /\ call'["server"].err = "OK" => state'[conn] = "NONE" /\ ~pcb'[conn]
                        /\ call'["server"].err = "unset" =>
                             state'[conn] = "CLOSE" /\ call'["server"].conn = conn
      BY <1>1 DEF Deleting
    <3> QED BY <2>2, <2>4, <2>5 DEF FInv, Core, Deleting
  <2> QED BY <2>3, <2>6 DEF Core
<1> QED BY <1>2, <1>3, <1>4, <1>5 DEF SenderWrite

LEMMA SessionNext == FInv /\ [Next]_vars => FInv'
<1> SUFFICES ASSUME FInv, [Next]_vars PROVE FInv'
  OBVIOUS
<1>1. CASE UNCHANGED vars
  BY <1>1 DEF vars, netVars, ringVars, serverVars, senderVars,
              FInv, Core, Locals, NetTypes, Pending, FreedGone, Calling, Deleting
<1>2. CASE Next
  <2>1. Locals' /\ fault = "none"
    BY <1>2, LocalsKeep DEF Next
  <2>2. CASE (\E n \in 1..Size : PrintTelNet(n)) \/ TcpArrives
    <3>1. UNCHANGED <<state, pcb, current_msg, freed, call, serverPc, conn, fault>>
      BY <2>2 DEF PrintTelNet, TcpArrives, Arrives, netVars, serverVars
    <3> QED BY <2>1, <3>1 DEF FInv, Core, NetTypes, Pending, FreedGone, Calling, Deleting
  <2>3. CASE ServerAccept
    BY <2>1, <2>3, AcceptKeeps DEF FInv
  <2>4. CASE ServerAct
    <3>1. CASE ServerReturns
      <4>1. CallReturns("server") /\ "server" \in Task /\ UNCHANGED <<serverPc, conn>>
        BY <3>1, Constants DEF ServerReturns, serverVars
      <4> QED BY <2>1, <4>1, ReturnKeeps DEF FInv, Core
    <3> QED BY <2>1, <2>4, <3>1, ListenKeeps, RecvedKeeps, CloseDeleteKeeps, DeletedKeeps
            DEF ServerAct, FInv
  <2>5. CASE SenderAct
    <3>1. CASE SenderReturns
      <4>1. CallReturns("sender") /\ "sender" \in Task /\ UNCHANGED <<serverPc, conn>>
        BY <3>1, Constants DEF SenderReturns, serverVars
      <4> QED BY <2>1, <4>1, ReturnKeeps DEF FInv, Core
    <3>2. CASE SenderTest \/ SenderLoop \/ SenderNext \/ SenderReset
      <4>1. UNCHANGED <<netVars, conn, serverPc>>
        BY <3>2 DEF SenderTest, SenderLoop, SenderNext, SenderReset, serverVars
      <4> QED BY <2>1, <4>1, QuietKeeps DEF FInv
    <3> QED BY <2>1, <2>5, <3>1, <3>2, WriteKeeps DEF SenderAct, FInv
  <2>6. ASSUME NEW c \in Conn, TcpFinishes(c) \/ TcpReset(c) PROVE FInv'
    <3>1. UNCHANGED <<serverPc, conn>> /\ (Finished(c) \/ Reset(c))
      BY <2>6 DEF TcpFinishes, TcpReset, serverVars
    <3> QED BY <2>1, <3>1, FinishedKeeps, ResetKeeps DEF FInv, Core
  <2> QED BY <1>2, <2>2, <2>3, <2>4, <2>5, <2>6 DEF Next
<1> QED BY <1>1, <1>2

THEOREM SessionInvariance == Spec => []FInv
<1>1. Init => FInv
  <2> SUFFICES ASSUME Init PROVE FInv
    OBVIOUS
  <2>1. /\ state = [c \in Conn |-> "absent"] /\ pcb = [c \in Conn |-> FALSE]
        /\ current_msg = [c \in Conn |-> NoMsg] /\ freed = [c \in Conn |-> FALSE]
        /\ call = [t \in Task |-> NoCall]
    BY DEF Init, NetInit
  <2>2. NetTypes /\ Pending /\ FreedGone
    BY <2>1, Constants DEF NetTypes, Pending, FreedGone, States, Errs, NoCall
  <2>3. Calling /\ Deleting
    BY <2>1, Constants DEF Init, Calling, Deleting
  <2>4. Locals
    BY Constants DEF Init, Locals, Slots
  <2> QED BY <2>2, <2>3, <2>4 DEF FInv, Core
<1> QED BY <1>1, SessionNext, PTL DEF Spec

\* A netconn is given back to its pool only when its TCP connection is gone and no
\* message is under way on it, whatever the sender did to the server's calls before
\* (as long as no call returned on the other task's token).
THEOREM FreedNetconnIsQuiet == Spec => []FreedIsQuiet
<1>1. FInv => FreedIsQuiet
  BY DEF FInv, Core, FreedGone, Pending, FreedIsQuiet
<1> QED BY <1>1, SessionInvariance, PTL

-------------------------------------------------------------------------------
\* OutputInOrder.  Byte number k is in the ring at the place that its number says, and
\* all that is printed and not yet taken is there unless the ring was overrun.
Place(k) == (k - 1) % Size

RingInv ==
  /\ buferTerminal \in [Slots -> 0..printed] /\ lapped \in BOOLEAN
  /\ wr_index = printed % Size /\ rd_index = taken % Size
  /\ ~lapped => /\ printed <= taken + Size
                /\ \A k \in Nat : taken < k /\ k <= printed => buferTerminal[Place(k)] = k

\* A byte is under way on a netconn only between netconn_write and its return, and it
\* is the one the sender has at hand; the bytes given to TCP come before it.
LineUpTo(n) == \A a \in 1..Len(line) : line[a] <= n

InFlight ==
  fault = "none" =>
    \A c \in Conn : current_msg[c].slot # NoSlot =>
      /\ current_msg[c].by = "sender" /\ current_msg[c].slot = rd_index
      /\ senderPc = "wait"
      /\ ~lapped => LineUpTo(taken)

LineInv ==
  /\ line \in Seq(Nat)
  /\ InFlight
  /\ ~lapped => LineUpTo(IF senderPc = "wait" THEN taken + 1 ELSE taken)
  /\ OutputInOrder

LEMMA PlaceInRing == ASSUME NEW k \in Int PROVE Place(k) \in Slots
BY Constants DEF Place, Slots

\* Where printTelNet puts the m-th of its bytes, and what else it leaves in the ring.
LEMMA Ring ==
  ASSUME CInv, RingInv, NEW n \in 1..Size, NEW k \in Nat, 0 < k,
         printed + n - Size < k, k <= printed + n
  PROVE  RingAfter(n)[Place(k)] = IF printed < k THEN k ELSE buferTerminal[Place(k)]
<1> DEFINE K(s) == {m \in 1..n : (wr_index + m - 1) % Size = s}
<1>a. Size \in Nat \ {0} /\ n \in Nat /\ n >= 1 /\ n <= Size /\ printed \in Nat
  BY Constants DEF CInv, Numbers
<1>b. Place(k) \in Slots
  BY PlaceInRing
<1>1. ASSUME NEW m \in 1..n
      PROVE  (wr_index + m - 1) % Size = (printed + m - 1) % Size
  <2> DEFINE b == m - 1
  <2>1. b \in Int
    OBVIOUS
  <2>2. wr_index + m - 1 = (printed % Size) + b /\ printed + m - 1 = printed + b
    <3>1. wr_index = printed % Size /\ wr_index \in Int
      BY <1>a DEF RingInv
    <3> QED BY <3>1, <1>a
  <2> HIDE DEF b
  <2>3. ((printed % Size) + b) % Size = (printed + b) % Size
    <3>1. PICK a \in Int : a = printed
      BY <1>a
    <3>2. ((a % Size) + b) % Size = (a + b) % Size
      BY <2>1, <1>a, ModPlus
    <3> QED BY <3>1, <3>2
  <2> QED BY <2>2, <2>3
<1>2. ASSUME NEW m \in 1..n, printed + m # k
      PROVE  m \notin K(Place(k))
  <2> DEFINE x == printed + m - 1
             y == k - 1
  <2>1. x \in Int /\ y \in Int /\ ((x < y /\ y < x + Size) \/ (y < x /\ x < y + Size))
    BY <1>a, <1>2
  <2>2. (wr_index + m - 1) % Size = x % Size /\ Place(k) = y % Size
    BY <1>1 DEF Place
  <2> HIDE DEF x, y
  <2>3. x % Size # y % Size
    BY <2>1, <1>a, ModDiffer
  <2> QED BY <2>2, <2>3
<1>3. RingAfter(n)[Place(k)] = IF K(Place(k)) = {} THEN buferTerminal[Place(k)]
                               ELSE printed + CHOOSE m \in K(Place(k)) : \A l \in K(Place(k)) : l <= m
  BY <1>b DEF RingAfter
<1>4. CASE k <= printed
  <2>1. \A m \in 1..n : m \notin K(Place(k))
    BY <1>2, <1>4, <1>a
  <2>2. K(Place(k)) = {}
    BY <2>1
  <2> QED BY <2>2, <1>3, <1>4, <1>a
<1>5. CASE printed < k
  <2> DEFINE j == k - printed
  <2>1. j \in 1..n /\ j \in Nat /\ printed + j = k
    BY <1>5, <1>a
  <2>2. j \in K(Place(k))
    <3>1. (wr_index + j - 1) % Size = (printed + j - 1) % Size
      BY <1>1, <2>1
    <3>2. printed + j - 1 = k - 1
      BY <2>1, <1>a
    <3> HIDE DEF j
    <3> QED BY <2>1, <3>1, <3>2 DEF Place
  <2>3. \A m \in K(Place(k)) : m = j
    BY <1>2, <1>a
  <2> DEFINE S == K(Place(k))
  <2>4. S = {j}
    <3> HIDE DEF K
    <3> QED BY <2>2, <2>3
  <2>5. RingAfter(n)[Place(k)] = IF S = {} THEN buferTerminal[Place(k)]
                                 ELSE printed + CHOOSE m \in S : \A l \in S : l <= m
    BY <1>3
  <2> HIDE DEF S, j
  <2>6. (CHOOSE m \in S : \A l \in S : l <= m) = j
    BY <2>1, <2>4
  <2> QED BY <2>1, <2>4, <2>5, <2>6, <1>5
<1> QED BY <1>4, <1>5, <1>a

LEMMA PrintRing ==
  ASSUME CInv, RingInv, NEW n \in 1..Size, PrintTelNet(n)
  PROVE  RingInv'
<1>a. Size \in Nat \ {0} /\ n \in Nat /\ printed \in Nat /\ taken \in Nat
  BY Constants DEF CInv, Numbers
<1>b. /\ buferTerminal' = RingAfter(n) /\ wr_index' = (wr_index + n) % Size
      /\ printed' = printed + n /\ UNCHANGED <<rd_index, taken>>
      /\ lapped' = (lapped \/ printed + n - taken > Size)
  BY DEF PrintTelNet
<1>1. buferTerminal' \in [Slots -> 0..printed']
  <2>1. ASSUME NEW s \in Slots PROVE RingAfter(n)[s] \in 0..(printed + n)
    <3> DEFINE K == {m \in 1..n : (wr_index + m - 1) % Size = s}
    <3>1. RingAfter(n)[s] = IF K = {} THEN buferTerminal[s]
                            ELSE printed + CHOOSE m \in K : \A l \in K : l <= m
      BY DEF RingAfter
    <3>2. K \in SUBSET (0..n)
      BY <1>a
    <3>3. CASE K # {}
      <4> HIDE DEF K
      <4>1. Max(K) \in K
        BY <3>2, <3>3, <1>a, MaxExists
      <4>2. \A m \in K : m \in 0..n
        BY <3>2
      <4>3. (CHOOSE m \in K : \A l \in K : l <= m) \in K
        <5>1. \A y \in K : Max(K) >= y
          BY <3>2, <3>3, <1>a, MaxExists
        <5>2. \A y \in K : y <= Max(K)
          BY <5>1, <4>1, <4>2
        <5> QED BY <5>2, <4>1
      <4> QED BY <3>1, <3>3, <4>2, <4>3, <1>a
    <3>4. CASE K = {}
      <4>1. buferTerminal[s] \in 0..printed
        BY DEF RingInv
      <4> HIDE DEF K
      <4> QED BY <3>1, <3>4, <4>1, <1>a
    <3> QED BY <3>3, <3>4
  <2>2. RingAfter(n) = [s \in Slots |-> RingAfter(n)[s]]
    BY DEF RingAfter
  <2> HIDE DEF RingAfter
  <2> QED BY <2>1, <2>2, <1>b
<1>0. ~lapped' => ~lapped /\ ~(printed + n - taken > Size)
  BY <1>b, Zenon
<1>2. wr_index' = printed' % Size
  <2>1. PICK a \in Int : a = printed
    BY <1>a
  <2>2. PICK b \in Int : b = n
    BY <1>a
  <2>4. ((a % Size) + b) % Size = (a + b) % Size
    BY <1>a, ModPlus
  <2>3. wr_index = a % Size
    BY <2>1 DEF RingInv
  <2> QED BY <2>1, <2>2, <2>3, <2>4, <1>b
<1>3. ASSUME ~lapped', NEW k \in Nat, taken' < k, k <= printed'
      PROVE  buferTerminal'[Place(k)] = k
  <2>1. ~lapped /\ printed + n <= taken + Size
    BY <1>0, <1>3, <1>a
  <2>2. 0 < k /\ printed + n - Size < k /\ k <= printed + n
    BY <1>3, <1>a, <1>b, <2>1
  <2>3. RingAfter(n)[Place(k)] = IF printed < k THEN k ELSE buferTerminal[Place(k)]
    BY <2>2, Ring
  <2>4. k <= printed => buferTerminal[Place(k)] = k
    BY <1>3, <1>b, <2>1 DEF RingInv
  <2> QED BY <2>3, <2>4, <1>a, <1>b
<1>4. ~lapped' => printed' <= taken' + Size
  BY <1>0, <1>a, <1>b
<1>5. lapped' \in BOOLEAN /\ rd_index' = taken' % Size
  BY <1>b DEF RingInv
<1> QED BY <1>1, <1>2, <1>3, <1>4, <1>5, <1>b DEF RingInv, Place

\* The sender is done with a byte.
LEMMA TakeRing ==
  ASSUME CInv, RingInv, SenderNext
  PROVE  RingInv'
<1>a. Size \in Nat \ {0} /\ printed \in Nat /\ taken \in Nat
  BY Constants DEF CInv, Numbers
<1>b. /\ rd_index' = (rd_index + 1) % Size /\ taken' = taken + 1
      /\ UNCHANGED <<buferTerminal, wr_index, printed, lapped>>
  BY DEF SenderNext
<1>1. rd_index' = taken' % Size
  <2>1. PICK a \in Int : a = taken
    BY <1>a
  <2>2. PICK b \in Int : b = 1
    OBVIOUS
  <2>4. ((a % Size) + b) % Size = (a + b) % Size
    BY <1>a, ModPlus
  <2>3. rd_index = a % Size
    BY <2>1 DEF RingInv
  <2> QED BY <2>1, <2>2, <2>3, <2>4, <1>b
<1>2. ~lapped => /\ printed <= taken' + Size
                 /\ \A k \in Nat : taken' < k /\ k <= printed => buferTerminal[Place(k)] = k
  BY <1>a, <1>b DEF RingInv
<1> QED BY <1>1, <1>2, <1>b DEF RingInv, Place

LEMMA RingNext == CInv /\ RingInv /\ [Next]_vars => RingInv'
<1> SUFFICES ASSUME CInv, RingInv, [Next]_vars PROVE RingInv'
  OBVIOUS
<1>1. CASE UNCHANGED <<buferTerminal, wr_index, rd_index, printed, taken, lapped>>
  BY <1>1 DEF RingInv, Place
<1>2. CASE \E n \in 1..Size : PrintTelNet(n)
  BY <1>2, PrintRing
<1>3. CASE ServerAccept \/ ServerAct
  <2>1. UNCHANGED ringVars
    BY <1>3 DEF ServerAccept, ServerAct, ServerReturns, ServerRecv, ServerListen,
                ServerRecved, ServerClose, ServerDelete, ServerDeleted
  <2> QED BY <1>1, <2>1 DEF ringVars
<1>4. CASE SenderAct /\ ~SenderNext
  BY <1>1, <1>4 DEF SenderAct, SenderTest, SenderLoop, SenderWrite, SenderReturns, SenderReset,
                    ringVars
<1>5. CASE SenderNext
  BY <1>5, TakeRing
<1>6. CASE TcpArrives \/ \E c \in Conn : TcpFinishes(c) \/ TcpReset(c)
  BY <1>1, <1>6 DEF TcpArrives, TcpFinishes, TcpReset, ringVars
<1>7. CASE UNCHANGED vars
  BY <1>1, <1>7 DEF vars, ringVars
<1> QED BY <1>2, <1>3, <1>4, <1>5, <1>6, <1>7 DEF Next

\* The byte the sender has at hand is the next one.
LEMMA AtHand ==
  ASSUME CInv, RingInv, senderPc \in {"write", "wait"}
  PROVE  /\ rd_index \in Slots /\ buferTerminal[rd_index] \in Nat
         /\ ~lapped => buferTerminal[rd_index] = taken + 1
<1> DEFINE k == taken + 1
<1>1. k \in Nat /\ taken < k /\ k <= printed /\ taken = k - 1
  BY DEF CInv, Numbers, IndexInCount, CountedWerePrinted
<1> HIDE DEF k
<1>2. rd_index = Place(k)
  BY <1>1 DEF RingInv, Place
<1>3. Place(k) \in Slots
  BY <1>1, PlaceInRing
<1>4. ~lapped => buferTerminal[Place(k)] = k
  BY <1>1 DEF RingInv
<1> QED BY <1>2, <1>3, <1>4 DEF k, RingInv

\* One more byte behind smaller ones.
LEMMA LineGrows ==
  ASSUME line \in Seq(Nat), NEW n \in Nat, NEW x \in Nat, line' = Append(line, x),
         OutputInOrder, UNCHANGED lapped, ~lapped => x = n + 1 /\ LineUpTo(n)
  PROVE  line' \in Seq(Nat) /\ OutputInOrder' /\ (~lapped => LineUpTo(n + 1)')
<1>1. /\ Len(line') = Len(line) + 1 /\ Len(line) \in Nat /\ line' \in Seq(Nat)
      /\ \A a \in 1..Len(line) : line'[a] = line[a] /\ line[a] \in Nat
      /\ line'[Len(line) + 1] = x
  OBVIOUS
<1>2. ASSUME ~lapped, NEW a \in 1..Len(line')
      PROVE  line'[a] <= n + 1 /\ (a # Len(line') => line'[a] <= n)
  <2>1. CASE a = Len(line')
    BY <1>1, <1>2, <2>1
  <2>2. CASE a # Len(line')
    <3>1. a \in 1..Len(line)
      BY <1>1, <2>2
    <3>2. line'[a] = line[a] /\ line[a] \in Nat /\ line[a] <= n
      BY <3>1, <1>1, <1>2 DEF LineUpTo
    <3> QED BY <3>2
  <2> QED BY <2>1, <2>2
<1>3. ASSUME ~lapped, NEW a \in 1..Len(line'), NEW b \in 1..Len(line'), a < b
      PROVE  line'[a] < line'[b]
  <2>1. a \in 1..Len(line)
    BY <1>1, <1>3
  <2>2. CASE b = Len(line')
    BY <1>1, <1>2, <1>3, <2>1, <2>2
  <2>3. CASE b # Len(line')
    <3>1. b \in 1..Len(line)
      BY <1>1, <2>3
    <3> QED BY <1>1, <1>3, <2>1, <3>1 DEF OutputInOrder
  <2> QED BY <2>2, <2>3
<1> QED BY <1>1, <1>2, <1>3 DEF OutputInOrder, LineUpTo

\* A step that gives nothing to TCP, takes nothing and starts nothing.
LEMMA QuietLine ==
  ASSUME LineInv, fault = "none", UNCHANGED <<line, senderPc, taken, rd_index>>,
         lapped => lapped',
         \A c \in Conn : current_msg'[c].slot # NoSlot => current_msg'[c] = current_msg[c]
  PROVE  LineInv'
<1>1. InFlight'
  BY DEF LineInv, InFlight, LineUpTo
<1> QED BY <1>1 DEF LineInv, OutputInOrder, LineUpTo

\* While no byte is under way, none of a netconn's messages is the sender's.
LEMMA NothingInFlight ==
  ASSUME FInv, LineInv, fault = "none",
         senderPc # "wait" \/ (senderPc = "wait" /\ ~Waiting("sender")),
         NEW c \in Conn
  PROVE  current_msg[c].slot = NoSlot
<1>1. CASE senderPc # "wait"
  BY <1>1 DEF LineInv, InFlight
<1>2. CASE ~Waiting("sender") /\ current_msg[c].slot # NoSlot
  <2>1. current_msg[c].by = "sender"
    BY <1>2 DEF LineInv, InFlight
  <2>2. call["sender"] = [conn |-> c, err |-> "unset"]
    BY <2>1, Constants DEF FInv, Core, Calling
  <2>3. call["sender"].conn = c /\ c # 0
    BY <2>2, Constants
  <2> QED BY <1>2, <2>3 DEF Waiting
<1> QED BY <1>1, <1>2

LEMMA WriteLine ==
  ASSUME CInv, FInv, RingInv, LineInv, fault = "none", SenderWrite
  PROVE  LineInv'
<1>a. /\ senderPc = "write" /\ senderPc' = "wait"
      /\ UNCHANGED <<rd_index, taken, lapped>>
  BY DEF SenderWrite, SenderRuns, ringVars
<1>b. \A c \in Conn : current_msg[c].slot = NoSlot
  BY <1>a, NothingInFlight
<1>c. taken \in Nat /\ line \in Seq(Nat) /\ OutputInOrder /\ (~lapped => LineUpTo(taken))
  BY <1>a DEF CInv, Numbers, LineInv
<1>d. LineUpTo(taken) => LineUpTo(taken + 1)
  <2>1. \A a \in 1..Len(line) : line[a] \in Nat
    BY <1>c
  <2> QED BY <1>c, <2>1 DEF LineUpTo
<1>1. CASE UNCHANGED <<line, current_msg>>
  <2>1. InFlight'
    BY <1>1, <1>b DEF InFlight
  <2> QED BY <1>1, <1>a, <1>c, <1>d, <2>1 DEF LineInv, OutputInOrder, LineUpTo
<1>2. CASE arg \in Conn /\ WriteWaits("sender", arg, rd_index) /\ UNCHANGED line
  <2>1. current_msg' = [current_msg EXCEPT ![arg] = [by |-> "sender", slot |-> rd_index]]
    BY <1>2 DEF WriteWaits, Later
  <2>2. \A c \in Conn : current_msg'[c].slot # NoSlot =>
                          current_msg'[c] = [by |-> "sender", slot |-> rd_index]
    BY <1>2, <1>b, <2>1 DEF FInv, Core, NetTypes
  <2>3. InFlight'
    BY <1>2, <1>a, <1>c, <2>2 DEF InFlight, LineUpTo
  <2> QED BY <1>2, <1>a, <1>c, <1>d, <2>3 DEF LineInv, OutputInOrder, LineUpTo
<1>3. CASE WriteDone("sender", arg) /\ line' = Append(line, buferTerminal[rd_index])
  <2>1. current_msg' = current_msg
    BY <1>3 DEF WriteDone
  <2>2. PICK x \in Nat : x = buferTerminal[rd_index] /\ (~lapped => x = taken + 1)
    BY <1>a, AtHand
  <2>3. line' \in Seq(Nat) /\ OutputInOrder' /\ (~lapped => LineUpTo(taken + 1)')
    <3>1. line' = Append(line, x)
      BY <1>3, <2>2
    <3>2. PICK n \in Nat : n = taken
      BY <1>c
    <3>3. line' \in Seq(Nat) /\ OutputInOrder' /\ (~lapped => LineUpTo(n + 1)')
      BY <1>a, <1>c, <2>2, <3>1, <3>2, LineGrows
    <3> QED BY <3>2, <3>3, <1>a DEF LineUpTo
  <2>4. InFlight'
    BY <1>b, <2>1 DEF InFlight
  <2> QED BY <1>a, <2>3, <2>4 DEF LineInv, LineUpTo
<1>4. arg \in Conn \/ arg = NULL
  BY DEF FInv, Locals
<1> QED BY <1>1, <1>2, <1>3, <1>4 DEF SenderWrite, WriteRefused, netVars

LEMMA TakenLine ==
  ASSUME CInv, FInv, LineInv, fault = "none", SenderNext
  PROVE  LineInv'
<1>1. /\ senderPc = "wait" /\ ~Waiting("sender") /\ senderPc' = "loop" /\ taken' = taken + 1
      /\ UNCHANGED <<current_msg, lapped, line>>
  BY DEF SenderNext, SenderRuns, netVars
<1>2. \A c \in Conn : current_msg[c].slot = NoSlot
  BY <1>1, NothingInFlight
<1>3. InFlight'
  BY <1>1, <1>2 DEF InFlight
<1> QED BY <1>1, <1>3 DEF LineInv, OutputInOrder, LineUpTo

\* The netconn's message is finished: its byte is given to TCP, and there is no other.
LEMMA FinishedLine ==
  ASSUME CInv, FInv, RingInv, LineInv, fault = "none", NEW c \in Conn, TcpFinishes(c)
  PROVE  LineInv'
<1>a. /\ current_msg' = [current_msg EXCEPT ![c] = NoMsg]
      /\ UNCHANGED <<senderPc, taken, lapped, rd_index, fault>>
  BY DEF TcpFinishes, Finished, senderVars, ringVars
<1>b. \A d \in Conn : current_msg'[d].slot # NoSlot => d # c /\ current_msg'[d] = current_msg[d]
  BY <1>a DEF FInv, Core, NetTypes, NoMsg
<1>1. CASE current_msg[c].slot = NoSlot
  <2>1. UNCHANGED line
    BY <1>1 DEF TcpFinishes
  <2> QED BY <1>a, <1>b, <2>1, QuietLine
<1>2. CASE current_msg[c].slot # NoSlot
  <2>1. /\ current_msg[c].by = "sender" /\ current_msg[c].slot = rd_index
        /\ senderPc = "wait" /\ (~lapped => LineUpTo(taken))
    BY <1>2 DEF LineInv, InFlight
  <2>2. ASSUME NEW d \in Conn, current_msg'[d].slot # NoSlot PROVE FALSE
    <3>1. d # c /\ current_msg[d].slot # NoSlot
      BY <1>b, <2>2
    <3>2. current_msg[d].by = "sender"
      BY <3>1 DEF LineInv, InFlight
    <3>3. call["sender"] = [conn |-> d, err |-> "unset"]
          /\ call["sender"] = [conn |-> c, err |-> "unset"]
      BY <2>1, <3>2, Constants DEF FInv, Core, Calling
    <3>4. call["sender"].conn = d /\ call["sender"].conn = c
      BY <3>3
    <3> QED BY <3>1, <3>4
  <2>3. InFlight'
    BY <2>2 DEF InFlight
  <2>4. PICK x \in Nat : x = buferTerminal[rd_index] /\ (~lapped => x = taken + 1)
    BY <2>1, AtHand
  <2>5. line' = Append(line, x)
    BY <1>2, <2>1, <2>4 DEF TcpFinishes
  <2>6. PICK n \in Nat : n = taken
    BY DEF CInv, Numbers
  <2>7. line' \in Seq(Nat) /\ OutputInOrder' /\ (~lapped => LineUpTo(n + 1)')
    <3>1. line \in Seq(Nat) /\ OutputInOrder
      BY DEF LineInv
    <3> QED BY <3>1, <1>a, <2>1, <2>4, <2>5, <2>6, LineGrows
  <2> QED BY <1>a, <2>1, <2>3, <2>6, <2>7 DEF LineInv, LineUpTo
<1> QED BY <1>1, <1>2

LEMMA LineNext ==
  ASSUME CInv, FInv, RingInv, LineInv, [Next]_vars
  PROVE  LineInv'
<1>1. CASE UNCHANGED vars
  BY <1>1 DEF vars, netVars, ringVars, senderVars, LineInv, InFlight, OutputInOrder, LineUpTo
<1>a. CASE Next
  <2>0. fault = "none"
    BY <1>a DEF Next
  <2>1. CASE \E n \in 1..Size : PrintTelNet(n)
    <3>1. /\ UNCHANGED <<line, senderPc, taken, rd_index, current_msg>>
          /\ \E n \in 1..Size : lapped' = (lapped \/ printed + n - taken > Size)
      BY <2>1 DEF PrintTelNet, senderVars, netVars
    <3>2. lapped => lapped'
      BY <3>1, Zenon
    <3> QED BY <2>0, <3>1, <3>2, QuietLine
  <2>2. CASE ServerAccept \/ ServerReturns \/ ServerRecv \/ ServerListen \/ ServerDeleted \/ TcpArrives
    <3>1. UNCHANGED <<line, senderPc, taken, rd_index, lapped, current_msg>>
      BY <2>2 DEF ServerAccept, Accepted, ServerReturns, CallReturns, Returns, ServerRecv,
                  ServerListen, DoRecv, ServerDeleted, TcpArrives, Arrives,
                  ringVars, senderVars, netVars
    <3> QED BY <2>0, <3>1, QuietLine
  <2>3. CASE ServerRecved \/ ServerClose \/ ServerDelete
    <3>1. UNCHANGED <<line, senderPc, taken, rd_index, lapped>>
      BY <2>3 DEF ServerRecved, ServerClose, ServerDelete, ringVars, senderVars
    <3>2. \/ UNCHANGED current_msg
          \/ current_msg' = [current_msg EXCEPT ![conn] = [by |-> "server", slot |-> NoSlot]]
      BY <2>3 DEF ServerRecved, ServerClose, ServerDelete, WriteRefused, WriteDone, WriteWaits,
                  DoShutRd, DoClose, DoDelconn, CloseInternal, Later, netVars
    <3>3. \A c \in Conn : current_msg'[c].slot # NoSlot => current_msg'[c] = current_msg[c]
      BY <3>2 DEF FInv, Core, NetTypes
    <3> QED BY <2>0, <3>1, <3>3, QuietLine
  <2>4. CASE SenderReturns
    <3>1. UNCHANGED <<line, senderPc, taken, rd_index, lapped, current_msg>>
      BY <2>4 DEF SenderReturns, CallReturns, Returns, ringVars, senderVars
    <3> QED BY <2>0, <3>1, QuietLine
  <2>5. CASE SenderTest \/ SenderLoop \/ SenderReset
    <3>1. /\ senderPc # "wait" /\ senderPc' # "wait"
          /\ UNCHANGED <<line, taken, lapped, current_msg>>
      BY <2>5 DEF SenderTest, SenderLoop, SenderReset, SenderRuns, ringVars, netVars
    <3>2. \A c \in Conn : current_msg[c].slot = NoSlot
      BY <2>0, <3>1, NothingInFlight
    <3>3. InFlight'
      BY <3>1, <3>2 DEF InFlight
    <3> QED BY <3>1, <3>3 DEF LineInv, OutputInOrder, LineUpTo
  <2>6. CASE SenderWrite
    BY <2>0, <2>6, WriteLine
  <2>7. CASE SenderNext
    BY <2>0, <2>7, TakenLine
  <2>8. ASSUME NEW c \in Conn, TcpFinishes(c) PROVE LineInv'
    BY <2>0, <2>8, FinishedLine
  <2>9. ASSUME NEW c \in Conn, TcpReset(c) PROVE LineInv'
    <3>1. /\ UNCHANGED <<line, senderPc, taken, rd_index, lapped>>
          /\ current_msg' = [current_msg EXCEPT ![c] = NoMsg]
      BY <2>9 DEF TcpReset, Reset, ringVars, senderVars
    <3>2. \A d \in Conn : current_msg'[d].slot # NoSlot => current_msg'[d] = current_msg[d]
      BY <3>1 DEF FInv, Core, NetTypes, NoMsg
    <3> QED BY <2>0, <3>1, <3>2, QuietLine
  <2> QED BY <1>a, <2>1, <2>2, <2>3, <2>4, <2>5, <2>6, <2>7, <2>8, <2>9
          DEF Next, ServerAct, SenderAct
<1> QED BY <1>1, <1>a

LEMMA LineInit == Init => RingInv /\ LineInv
<1> SUFFICES ASSUME Init PROVE RingInv /\ LineInv
  OBVIOUS
<1>1. RingInv
  <2>1. 0 % Size = 0 /\ 0 \in 0..0
    BY Constants
  <2>2. buferTerminal \in [Slots -> 0..printed]
    BY <2>1 DEF Init
  <2>3. printed = 0 /\ taken = 0 /\ wr_index = 0 /\ rd_index = 0 /\ lapped = FALSE
    BY DEF Init
  <2>4. printed <= taken + Size /\ \A k \in Nat : ~(taken < k /\ k <= printed)
    BY <2>3, Constants
  <2>5. wr_index = printed % Size /\ rd_index = taken % Size
    BY <2>1, <2>3
  <2> QED BY <2>2, <2>3, <2>4, <2>5 DEF RingInv
<1>2. LineInv
  BY DEF Init, NetInit, LineInv, InFlight, LineUpTo, OutputInOrder, NoMsg
<1> QED BY <1>1, <1>2

\* Whatever the interleaving of printing, sending, sessions that end and connections
\* that are reset, TCP is given each byte at most once and in the order of printing,
\* as long as the console task does not overrun the ring.
THEOREM BytesInOrder == Spec => []OutputInOrder
<1>1. CInv /\ FInv /\ RingInv /\ LineInv /\ [Next]_vars => RingInv' /\ LineInv'
  BY RingNext, LineNext
<1>2. LineInv => OutputInOrder
  BY DEF LineInv
<1> QED BY <1>1, <1>2, LineInit, CountInvariance, SessionInvariance, PTL DEF Spec

-------------------------------------------------------------------------------
\* TakesNoOlderByte.  The ring holds bytes at their own places only, and at the place of
\* every byte printed that byte or a later one, overrun or not.
AgeInv ==
  /\ \A s \in Slots : buferTerminal[s] # 0 => Place(buferTerminal[s]) = s
  /\ \A k \in Nat : 0 < k /\ k <= printed => buferTerminal[Place(k)] >= k

\* printTelNet puts its m-th byte at the place of byte printed + m.
LEMMA WrittenAt ==
  ASSUME CInv, RingInv, NEW m \in Nat
  PROVE  (wr_index + m - 1) % Size = Place(printed + m)
<1> DEFINE b == m - 1
<1>a. Size \in Nat \ {0} /\ printed \in Nat /\ b \in Int
  BY Constants DEF CInv, Numbers
<1>1. wr_index = printed % Size /\ wr_index \in Int
  BY <1>a DEF RingInv
<1>2. wr_index + m - 1 = (printed % Size) + b /\ printed + m - 1 = printed + b
  BY <1>1, <1>a
<1> HIDE DEF b
<1>3. ((printed % Size) + b) % Size = (printed + b) % Size
  <2>1. PICK a \in Int : a = printed
    BY <1>a
  <2>2. ((a % Size) + b) % Size = (a + b) % Size
    BY <1>a, ModPlus
  <2> QED BY <2>1, <2>2
<1>4. Place(printed + m) = (printed + b) % Size
  <2>1. (printed + m) - 1 = printed + m - 1
    BY <1>a
  <2>2. Place(printed + m) = ((printed + m) - 1) % Size
    BY DEF Place
  <2> QED BY <1>2, <2>1, <2>2
<1> QED BY <1>2, <1>3, <1>4

\* What is at a place after n more bytes: what was there, if none of them belongs to it,
\* or the last of those that do.
LEMMA PlaceAfter ==
  ASSUME CInv, RingInv, NEW n \in 1..Size, NEW s \in Slots
  PROVE  \/ /\ RingAfter(n)[s] = buferTerminal[s]
            /\ \A m \in 1..n : Place(printed + m) # s
         \/ \E m \in 1..n : /\ RingAfter(n)[s] = printed + m
                            /\ Place(printed + m) = s
                            /\ \A l \in 1..n : Place(printed + l) = s => l <= m
<1> DEFINE K == {m \in 1..n : (wr_index + m - 1) % Size = s}
<1>a. Size \in Nat \ {0} /\ n \in Nat
  BY Constants
<1>1. RingAfter(n)[s] = IF K = {} THEN buferTerminal[s]
                        ELSE printed + CHOOSE m \in K : \A l \in K : l <= m
  BY DEF RingAfter
<1>2. \A m \in 1..n : m \in K <=> Place(printed + m) = s
  <2> SUFFICES ASSUME NEW m \in 1..n PROVE m \in K <=> Place(printed + m) = s
    OBVIOUS
  <2>1. m \in Nat
    BY <1>a
  <2>2. (wr_index + m - 1) % Size = Place(printed + m)
    BY <2>1, WrittenAt
  <2> QED BY <2>2
<1>3. K \in SUBSET (0..n) /\ K \in SUBSET (1..n)
  BY <1>a
<1> HIDE DEF K
<1>4. CASE K = {}
  BY <1>1, <1>2, <1>4
<1>5. CASE K # {}
  <2>1. Max(K) \in K /\ \A y \in K : Max(K) >= y
    BY <1>3, <1>5, <1>a, MaxExists
  <2>2. \A m \in K : m \in 0..n
    BY <1>3
  <2>3. \E m \in K : \A l \in K : l <= m
    BY <2>1, <2>2
  <2>4. PICK m \in K : m = CHOOSE x \in K : \A l \in K : l <= x
    BY <2>3
  <2>5. \A l \in K : l <= m
    BY <2>3, <2>4
  <2>6. m \in 1..n /\ RingAfter(n)[s] = printed + m
    BY <1>1, <1>3, <1>5, <2>4
  <2> QED BY <1>2, <2>5, <2>6
<1> QED BY <1>4, <1>5

LEMMA PrintAge ==
  ASSUME CInv, RingInv, AgeInv, NEW n \in 1..Size, PrintTelNet(n)
  PROVE  AgeInv'
<1>a. Size \in Nat \ {0} /\ n \in Nat /\ printed \in Nat
  BY Constants DEF CInv, Numbers
<1>b. buferTerminal' = RingAfter(n) /\ printed' = printed + n
  BY DEF PrintTelNet
<1>1. ASSUME NEW s \in Slots, RingAfter(n)[s] # 0 PROVE Place(RingAfter(n)[s]) = s
  BY <1>1, PlaceAfter DEF AgeInv
<1>2. ASSUME NEW k \in Nat, 0 < k, k <= printed + n PROVE RingAfter(n)[Place(k)] >= k
  <2>1. Place(k) \in Slots
    BY PlaceInRing
  <2>2. CASE k <= printed
    <3>1. buferTerminal[Place(k)] >= k
      BY <1>2, <2>2 DEF AgeInv
    <3>2. \A m \in 1..n : printed + m >= k
      BY <2>2, <1>a
    <3> QED BY <2>1, <3>1, <3>2, PlaceAfter
  <2>3. CASE printed < k
    <3>1. PICK j \in 1..n : printed + j = k
      <4>1. k - printed \in 1..n /\ printed + (k - printed) = k
        BY <1>2, <2>3, <1>a
      <4> QED BY <4>1
    <3>2. PICK m \in 1..n : RingAfter(n)[Place(k)] = printed + m /\ j <= m
      BY <2>1, <3>1, PlaceAfter
    <3>3. printed + m >= printed + j
      BY <3>2, <1>a
    <3> QED BY <3>1, <3>2, <3>3
  <2> QED BY <2>2, <2>3, <1>a
<1> HIDE DEF AgeInv
<1> QED BY <1>1, <1>2, <1>b DEF AgeInv, Place

LEMMA AgeNext == CInv /\ RingInv /\ AgeInv /\ [Next]_vars => AgeInv'
<1> SUFFICES ASSUME CInv, RingInv, AgeInv, [Next]_vars PROVE AgeInv'
  OBVIOUS
<1>1. CASE UNCHANGED <<buferTerminal, printed>>
  BY <1>1 DEF AgeInv, Place
<1>2. CASE \E n \in 1..Size : PrintTelNet(n)
  BY <1>2, PrintAge
<1>3. CASE ServerAccept \/ ServerAct
  <2>1. UNCHANGED ringVars
    BY <1>3 DEF ServerAccept, ServerAct, ServerReturns, ServerRecv, ServerListen,
                ServerRecved, ServerClose, ServerDelete, ServerDeleted
  <2> QED BY <1>1, <2>1 DEF ringVars
<1>4. CASE SenderAct
  BY <1>1, <1>4 DEF SenderAct, SenderTest, SenderLoop, SenderWrite, SenderReturns, SenderNext,
                    SenderReset, ringVars
<1>5. CASE TcpArrives \/ \E c \in Conn : TcpFinishes(c) \/ TcpReset(c)
  BY <1>1, <1>5 DEF TcpArrives, TcpFinishes, TcpReset, ringVars
<1>6. CASE UNCHANGED vars
  BY <1>1, <1>6 DEF vars, ringVars
<1> QED BY <1>2, <1>3, <1>4, <1>5, <1>6 DEF Next

LEMMA NotOlder == CInv /\ RingInv /\ AgeInv => TakesNoOlderByte
<1> SUFFICES ASSUME CInv, RingInv, AgeInv, senderPc \in {"write", "wait"}
             PROVE  buferTerminal[rd_index] > taken /\ (buferTerminal[rd_index] - 1) % Size = rd_index
  BY DEF TakesNoOlderByte
<1> DEFINE k == taken + 1
<1>1. k \in Nat /\ 0 < k /\ k <= printed /\ taken = k - 1 /\ taken \in Nat
  BY DEF CInv, Numbers, IndexInCount, CountedWerePrinted
<1> HIDE DEF k
<1>2. rd_index = Place(k)
  BY <1>1 DEF RingInv, Place
<1>3. rd_index \in Slots /\ buferTerminal[rd_index] \in Nat
  BY AtHand
<1>4. buferTerminal[rd_index] >= k
  BY <1>1, <1>2 DEF AgeInv
<1>5. buferTerminal[rd_index] > taken /\ buferTerminal[rd_index] # 0
  BY <1>1, <1>3, <1>4
<1>6. Place(buferTerminal[rd_index]) = rd_index
  BY <1>3, <1>5 DEF AgeInv
<1> QED BY <1>5, <1>6 DEF Place

\* Whatever preempts the sender, however sessions end meanwhile and however far the
\* console task overruns the ring: what it sends as its k-th byte is the k-th printed or
\* a later one of the same place.
THEOREM NoOlderByteIsTaken == Spec => []TakesNoOlderByte
<1>1. Init => RingInv /\ AgeInv
  <2> SUFFICES ASSUME Init PROVE RingInv /\ AgeInv
    OBVIOUS
  <2>1. RingInv
    BY LineInit
  <2>2. \A s \in Slots : buferTerminal[s] = 0
    BY DEF Init
  <2>3. printed = 0 /\ \A k \in Nat : ~(0 < k /\ k <= 0)
    BY DEF Init
  <2> QED BY <2>1, <2>2, <2>3 DEF AgeInv
<1>2. CInv /\ RingInv /\ AgeInv /\ [Next]_vars => RingInv' /\ AgeInv'
  BY RingNext, AgeNext
<1> QED BY <1>1, <1>2, NotOlder, CountInvariance, PTL DEF Spec

-------------------------------------------------------------------------------
\* The types.
BInv == /\ counter <= printed /\ printed <= MaxPrinted
        /\ senderPc = "reset" => i <= counter

LEMMA BoundNext == CInv /\ BInv /\ [Next]_vars => BInv'
<1> SUFFICES ASSUME CInv, BInv, [Next]_vars PROVE BInv'
  OBVIOUS
<1>1. CASE UNCHANGED <<counter, printed, senderPc, i>>
  BY <1>1 DEF BInv
<1>2. ASSUME NEW n \in 1..Size, PrintTelNet(n) PROVE BInv'
  <2>1. n \in Nat
    BY Constants
  <2> QED BY <1>2, <2>1 DEF PrintTelNet, senderVars, CInv, Numbers, BInv
<1>3. CASE ServerAccept \/ ServerAct
  <2>1. UNCHANGED <<ringVars, senderVars>>
    BY <1>3 DEF ServerAccept, ServerAct, ServerReturns, ServerRecv, ServerListen,
                ServerRecved, ServerClose, ServerDelete, ServerDeleted
  <2> QED BY <1>1, <2>1 DEF ringVars, senderVars
<1>4. CASE SenderAct
  <2>1. CASE SenderTest \/ SenderLoop
    BY <2>1 DEF SenderTest, SenderLoop, SenderRuns, ringVars, CInv, Numbers, IndexInCount, BInv
  <2>2. CASE SenderWrite
    BY <2>2 DEF SenderWrite, SenderRuns, ringVars, BInv
  <2>3. CASE SenderReturns
    BY <1>1, <2>3 DEF SenderReturns, ringVars, senderVars
  <2>4. CASE SenderNext
    BY <2>4 DEF SenderNext, BInv
  <2>5. CASE SenderReset
    BY <2>5 DEF SenderReset, CInv, Numbers, BInv
  <2> QED BY <1>4, <2>1, <2>2, <2>3, <2>4, <2>5 DEF SenderAct
<1>5. CASE TcpArrives \/ \E c \in Conn : TcpFinishes(c) \/ TcpReset(c)
  BY <1>1, <1>5 DEF TcpArrives, TcpFinishes, TcpReset, ringVars, senderVars
<1>6. CASE UNCHANGED vars
  BY <1>1, <1>6 DEF vars, ringVars, senderVars
<1> QED BY <1>2, <1>3, <1>4, <1>5, <1>6 DEF Next

\* The numbers are within the bound of the model.
LEMMA NumbersInBound ==
  ASSUME CInv, RingInv, BInv
  PROVE  /\ buferTerminal \in [Slots -> 0..MaxPrinted] /\ wr_index \in Slots
         /\ counter \in 0..MaxPrinted /\ i \in 0..MaxPrinted
<1>1. /\ counter \in Nat /\ printed \in Nat /\ i \in Nat /\ i <= counter
      /\ counter <= printed /\ printed <= MaxPrinted /\ MaxPrinted \in Nat
  BY TelnetAssumption DEF CInv, Numbers, IndexInCount, BInv
<1>2. \A s \in Slots : buferTerminal[s] \in 0..MaxPrinted
  BY <1>1 DEF RingInv
<1>3. wr_index \in Slots
  BY <1>1, Constants DEF RingInv, Slots
<1> QED BY <1>1, <1>2, <1>3 DEF RingInv

\* What of the netconns the proofs above could do without.
Input == {"short", "long", "fin", "rst"}
MoreTypes ==
  /\ pending_err \in [Conn -> BOOLEAN] /\ op_completed \in [Conn -> BOOLEAN]
  /\ recvmbox \in [Conn -> Seq(Input)]
  /\ serverPc \in {"accept", "recv", "listen", "recved", "close", "delete", "deleted"}
  /\ inbuf \in {"none", "short", "long", "fin"}
  /\ fault \in {"none", "early return", "freed netconn"}

LEMMA MoreTypesNext == FInv /\ MoreTypes /\ [Next]_vars => MoreTypes'
<1> SUFFICES ASSUME FInv, MoreTypes, [Next]_vars PROVE MoreTypes'
  OBVIOUS
<1>1. fault' \in {"none", "early return", "freed netconn"}
  BY DEF MoreTypes, Next, PrintTelNet, ServerAccept, ServerAct, ServerReturns, CallReturns,
         ServerRecv, ServerListen, ServerRecved, ServerClose, ServerDelete, ServerDeleted,
         SenderAct, SenderTest, SenderLoop, SenderWrite, SenderReturns, SenderNext, SenderReset,
         TcpArrives, TcpFinishes, TcpReset, vars
<1>2. recvmbox' \in [Conn -> Seq(Input)] /\ inbuf' \in {"none", "short", "long", "fin"}
  <2>0. recvmbox \in [Conn -> Seq(Input)]
    BY DEF MoreTypes
  <2>1. CASE UNCHANGED <<recvmbox, inbuf>> \/ (UNCHANGED recvmbox /\ inbuf' = "none")
    BY <2>1 DEF MoreTypes
  <2>2. CASE ServerListen
    <3>1. /\ conn \in Conn /\ recvmbox[conn] # <<>>
          /\ recvmbox' = [recvmbox EXCEPT ![conn] = Tail(@)]
      BY <2>2 DEF ServerListen, ServerRuns, FInv, Locals
    <3>2. recvmbox[conn] \in Seq(Input)
      BY <2>0, <3>1
    <3>3. Head(recvmbox[conn]) \in Input /\ Tail(recvmbox[conn]) \in Seq(Input)
      BY <3>1, <3>2
    <3>4. inbuf' = inbuf \/ (inbuf' = Head(recvmbox[conn]) /\ inbuf' # "rst")
      BY <2>2 DEF ServerListen
    <3> QED BY <2>0, <3>1, <3>3, <3>4 DEF MoreTypes, Input
  <2>3. ASSUME NEW c \in Conn, NEW m \in Input, UNCHANGED inbuf,
               recvmbox' = [recvmbox EXCEPT ![c] = Append(@, m)]
        PROVE  recvmbox' \in [Conn -> Seq(Input)] /\ inbuf' \in {"none", "short", "long", "fin"}
    <3>1. Append(recvmbox[c], m) \in Seq(Input)
      BY <2>0
    <3> QED BY <2>0, <2>3, <3>1 DEF MoreTypes
  <2>4. CASE TcpArrives
    <3>1. PICK c \in Conn, m \in {"short", "long", "fin"} : Arrives(c, m)
      BY <2>4 DEF TcpArrives
    <3>2. m \in Input /\ UNCHANGED inbuf /\ recvmbox' = [recvmbox EXCEPT ![c] = Append(@, m)]
      BY <2>4, <3>1 DEF TcpArrives, Arrives, serverVars, Input
    <3> QED BY <2>3, <3>2
  <2>5. ASSUME NEW c \in Conn, TcpReset(c)
        PROVE  recvmbox' \in [Conn -> Seq(Input)] /\ inbuf' \in {"none", "short", "long", "fin"}
    <3>1. "rst" \in Input /\ UNCHANGED inbuf /\ recvmbox' = [recvmbox EXCEPT ![c] = Append(@, "rst")]
      BY <2>5 DEF TcpReset, Reset, serverVars, Input
    <3> QED BY <2>3, <3>1
  <2>6. CASE UNCHANGED vars
    BY <2>1, <2>6 DEF vars, netVars, serverVars
  <2>7. CASE \/ ServerAccept \/ SenderAct \/ (ServerAct /\ ~ServerListen)
             \/ (\E n \in 1..Size : PrintTelNet(n)) \/ (\E c \in Conn : TcpFinishes(c))
    <3>1. UNCHANGED <<recvmbox, inbuf>> \/ (UNCHANGED recvmbox /\ inbuf' = "none")
      BY <2>7 DEF PrintTelNet, ServerAccept, Accepted, ServerAct, ServerReturns, CallReturns,
         Returns, ServerRecv, ServerRecved, ServerClose, ServerDelete, ServerDeleted,
         SenderAct, SenderTest, SenderLoop, SenderWrite, SenderReturns, SenderNext, SenderReset,
         TcpFinishes, Finished, WriteRefused, WriteDone, WriteWaits, netVars, serverVars
    <3> QED BY <2>1, <3>1
  <2> QED BY <2>2, <2>4, <2>5, <2>6, <2>7 DEF Next
<1>3. serverPc' \in {"accept", "recv", "listen", "recved", "close", "delete", "deleted"}
  BY DEF MoreTypes, Next, PrintTelNet, ServerAccept, ServerAct, ServerReturns,
         ServerRecv, ServerListen, ServerRecved, ServerClose, ServerDelete, ServerDeleted,
         SenderAct, SenderTest, SenderLoop, SenderWrite, SenderReturns, SenderNext, SenderReset,
         TcpArrives, TcpFinishes, TcpReset, vars, serverVars
<1>4. op_completed' \in [Conn -> BOOLEAN]
  <2>1. \/ UNCHANGED op_completed
        \/ \E c : op_completed' = [op_completed EXCEPT ![c] = TRUE]
        \/ \E c : op_completed' = [op_completed EXCEPT ![c] = FALSE]
    BY DEF Next, PrintTelNet, ServerAccept, Accepted, ServerAct, ServerReturns, CallReturns,
         Returns, ServerRecv, ServerListen, ServerRecved, ServerClose, ServerDelete, ServerDeleted,
         SenderAct, SenderTest, SenderLoop, SenderWrite, SenderReturns, SenderNext, SenderReset,
         TcpArrives, Arrives, TcpFinishes, Finished, TcpReset, Reset,
         WriteRefused, WriteDone, WriteWaits, DoRecv, DoShutRd, DoClose, DoDelconn,
         CloseInternal, Later, Ack, vars, netVars
  <2> QED BY <2>1 DEF MoreTypes
<1>5. pending_err' \in [Conn -> BOOLEAN]
  <2>1. \/ UNCHANGED pending_err
        \/ \E c : pending_err' = [pending_err EXCEPT ![c] = TRUE]
        \/ \E c : pending_err' = [pending_err EXCEPT ![c] = FALSE]
    BY DEF Next, PrintTelNet, ServerAccept, Accepted, ServerAct, ServerReturns, CallReturns,
         Returns, ServerRecv, ServerListen, ServerRecved, ServerClose, ServerDelete, ServerDeleted,
         SenderAct, SenderTest, SenderLoop, SenderWrite, SenderReturns, SenderNext, SenderReset,
         TcpArrives, Arrives, TcpFinishes, Finished, TcpReset, Reset,
         WriteRefused, WriteDone, WriteWaits, DoRecv, DoShutRd, DoClose, DoDelconn,
         CloseInternal, Later, vars, netVars
  <2> QED BY <2>1 DEF MoreTypes
<1> QED BY <1>1, <1>2, <1>3, <1>4, <1>5 DEF MoreTypes

\* Netconns, tasks, ring and counters stay in their ranges in every behaviour of the
\* peers and every order of server, sender and console task.
THEOREM TypeCorrect == Spec => []TypeOK
<1>1. Init => BInv /\ MoreTypes
  BY TelnetAssumption DEF Init, NetInit, BInv, MoreTypes
<1>2. /\ CInv /\ FInv /\ RingInv /\ BInv /\ MoreTypes /\ [Next]_vars
      => RingInv' /\ BInv' /\ MoreTypes'
  BY RingNext, BoundNext, MoreTypesNext
<1>3. CInv /\ FInv /\ RingInv /\ BInv /\ MoreTypes => TypeOK
  BY NumbersInBound DEF CInv, Numbers, FInv, Core, NetTypes, Locals, MoreTypes, TypeOK, NetTypeOK,
                        States, Errs, Msgs, Input
<1>4. Init => RingInv
  BY LineInit
<1> QED BY <1>1, <1>2, <1>3, <1>4, CountInvariance, SessionInvariance, PTL DEF Spec
=============================================================================
