------------------------------- MODULE Netconn -------------------------------
(***************************************************************************)
(* The part of lwIP's sequential API that two tasks of this firmware call  *)
(* on one connection: lwip/api/api_lib.c posts a message to the tcpip      *)
(* thread and waits on the semaphore op_completed of the NETCONN, not of   *)
(* the task; lwip/api/api_msg.c carries the message out and signals.       *)
(*                                                                         *)
(* The tcpip thread has the highest priority of the tasks here, so a       *)
(* message is carried out in the step that posts it.  What is signalled    *)
(* and who then runs is left to the module that uses this one.             *)
(***************************************************************************)
EXTENDS Integers, Sequences

CONSTANTS
  Conn,          \* the connections, in the order they are accepted
  Task           \* the tasks that call the API

ASSUME ConnAssumption == Conn \subseteq Nat \ {0}

Nobody == "nobody"
NoSlot == -1
ASSUME NobodyAssumption == Nobody \notin Task

VARIABLES
  state,         \* conn->state, "absent" before the connection exists
  pcb,           \* conn->pcb.tcp # NULL
  pending_err,   \* conn->pending_err # ERR_OK
  recvmbox,      \* conn->recvmbox
  current_msg,   \* who waits for conn->current_msg, and the byte it writes
  op_completed,  \* the binary semaphore conn->op_completed
  freed,         \* memp_free was called on the netconn
  call           \* per task: the API call it is in, and the err of its message

netVars == <<state, pcb, pending_err, recvmbox, current_msg, op_completed, freed, call>>

NoMsg == [by |-> Nobody, slot |-> NoSlot]
NoCall == [conn |-> 0, err |-> "none"]

NetTypeOK(Slot) ==
  /\ state \in [Conn -> {"absent", "NONE", "WRITE", "CLOSE"}]
  /\ pcb \in [Conn -> BOOLEAN] /\ pending_err \in [Conn -> BOOLEAN]
  /\ freed \in [Conn -> BOOLEAN] /\ op_completed \in [Conn -> BOOLEAN]
  /\ recvmbox \in [Conn -> Seq({"short", "long", "fin", "rst"})]
  /\ current_msg \in [Conn -> [by : Task \union {Nobody}, slot : Slot \union {NoSlot}]]
  /\ call \in [Task -> [conn : Conn \union {0}, err : {"none", "unset", "OK", "error"}]]

NetInit ==
  /\ state = [c \in Conn |-> "absent"]
  /\ pcb = [c \in Conn |-> FALSE] /\ pending_err = [c \in Conn |-> FALSE]
  /\ recvmbox = [c \in Conn |-> <<>>]
  /\ current_msg = [c \in Conn |-> NoMsg]
  /\ op_completed = [c \in Conn |-> FALSE] /\ freed = [c \in Conn |-> FALSE]
  /\ call = [t \in Task |-> NoCall]

\* netconn_accept returns c.
Accepted(c) ==
  /\ state[c] = "absent"
  /\ state' = [state EXCEPT ![c] = "NONE"]
  /\ pcb' = [pcb EXCEPT ![c] = TRUE]
  /\ UNCHANGED <<pending_err, recvmbox, current_msg, op_completed, freed, call>>

-------------------------------------------------------------------------------
\* TCPIP_APIMSG_ACK, and the same at the end of a function: err goes into the
\* message of t and the semaphore of c is signalled.
Ack(t, c, err) ==
  /\ call' = [call EXCEPT ![t] = [conn |-> c, err |-> err]]
  /\ op_completed' = [op_completed EXCEPT ![c] = TRUE]

\* The message becomes conn->current_msg and is finished later.
Later(t, c, s, slot) ==
  /\ state' = [state EXCEPT ![c] = s]
  /\ current_msg' = [current_msg EXCEPT ![c] = [by |-> t, slot |-> slot]]
  /\ call' = [call EXCEPT ![t] = [conn |-> c, err |-> "unset"]]
  /\ UNCHANGED <<pcb, pending_err, op_completed>>

\* lwip_netconn_do_write: refused, waiting for buffer space, or done; the byte is
\* then at the disposal of TCP.
WriteRefused(t, c) ==
  /\ pending_err[c] \/ state[c] # "NONE" \/ ~pcb[c]
  /\ pending_err' = [pending_err EXCEPT ![c] = FALSE]
  /\ Ack(t, c, "error")
  /\ UNCHANGED <<state, pcb, current_msg, recvmbox, freed>>

CanWrite(c) == ~pending_err[c] /\ state[c] = "NONE" /\ pcb[c]

WriteDone(t, c) ==
  /\ CanWrite(c)
  /\ Ack(t, c, "OK")
  /\ UNCHANGED <<state, pcb, pending_err, current_msg, recvmbox, freed>>

WriteWaits(t, c, slot) ==
  /\ CanWrite(c)
  /\ Later(t, c, "WRITE", slot)
  /\ UNCHANGED <<recvmbox, freed>>

\* lwip_netconn_do_recv
DoRecv(t, c) ==
  /\ Ack(t, c, "OK")
  /\ UNCHANGED <<state, pcb, pending_err, current_msg>>

\* lwip_netconn_do_close_internal for both directions: tcp_close finds the memory
\* for a FIN or is tried again later.
CloseInternal(t, c) ==
  \/ /\ pcb' = [pcb EXCEPT ![c] = FALSE]
     /\ Ack(t, c, "OK")
     /\ UNCHANGED <<state, pending_err, current_msg>>
  \/ Later(t, c, "CLOSE", NoSlot)

\* lwip_netconn_do_close with NETCONN_SHUT_RD, which never has to wait.
DoShutRd(t, c) ==
  /\ Ack(t, c, IF pcb[c] /\ state[c] # "WRITE" THEN "OK" ELSE "error")
  /\ UNCHANGED <<state, pcb, pending_err, current_msg>>

\* lwip_netconn_do_close with NETCONN_SHUT_RDWR
DoClose(t, c) ==
  \/ /\ ~pcb[c] \/ state[c] = "WRITE"
     /\ Ack(t, c, "error")
     /\ UNCHANGED <<state, pcb, pending_err, current_msg>>
  \/ /\ pcb[c] /\ state[c] # "WRITE"
     /\ CloseInternal(t, c)

\* lwip_netconn_do_delconn
DoDelconnAnyState(t, c) ==
  \/ /\ ~pcb[c]
     /\ Ack(t, c, "OK")
     /\ UNCHANGED <<state, pcb, pending_err, current_msg>>
  \/ /\ pcb[c]
     /\ CloseInternal(t, c)
DoDelconn(t, c) ==
  \/ /\ state[c] # "NONE"
     /\ Ack(t, c, "error")
     /\ UNCHANGED <<state, pcb, pending_err, current_msg>>
  \/ /\ state[c] = "NONE" /\ ~pcb[c]
     /\ Ack(t, c, "OK")
     /\ UNCHANGED <<state, pcb, pending_err, current_msg>>
  \/ /\ state[c] = "NONE" /\ pcb[c]
     /\ CloseInternal(t, c)

-------------------------------------------------------------------------------
\* sent_tcp and poll_tcp finish what had to wait.
FinishedNoSignal(c) ==
  /\ state[c] \in {"WRITE", "CLOSE"}
  /\ state' = [state EXCEPT ![c] = "NONE"]
  /\ pcb' = [pcb EXCEPT ![c] = state[c] = "WRITE"]
  /\ call' = [call EXCEPT ![current_msg[c].by].err = "OK"]
  /\ current_msg' = [current_msg EXCEPT ![c] = NoMsg]
  /\ UNCHANGED <<pending_err, recvmbox, freed, op_completed>>
Finished(c) ==
  /\ state[c] \in {"WRITE", "CLOSE"}
  /\ state' = [state EXCEPT ![c] = "NONE"]
  /\ pcb' = [pcb EXCEPT ![c] = state[c] = "WRITE"]
  /\ call' = [call EXCEPT ![current_msg[c].by].err = "OK"]
  /\ current_msg' = [current_msg EXCEPT ![c] = NoMsg]
  /\ op_completed' = [op_completed EXCEPT ![c] = TRUE]
  /\ UNCHANGED <<pending_err, recvmbox, freed>>

\* recv_tcp: data or the end of the stream arrive.
Arrives(c, m) ==
  /\ pcb[c]
  /\ recvmbox' = [recvmbox EXCEPT ![c] = Append(@, m)]
  /\ UNCHANGED <<state, pcb, pending_err, current_msg, op_completed, freed, call>>

\* err_tcp: the peer resets the connection, or TCP gives it up.
Reset(c) ==
  /\ pcb[c]
  /\ pcb' = [pcb EXCEPT ![c] = FALSE]
  /\ pending_err' = [pending_err EXCEPT ![c] = TRUE]
  /\ state' = [state EXCEPT ![c] = "NONE"]
  /\ current_msg' = [current_msg EXCEPT ![c] = NoMsg]
  /\ recvmbox' = [recvmbox EXCEPT ![c] = Append(@, "rst")]
  /\ \/ /\ state[c] = "NONE"
        /\ UNCHANGED <<call, op_completed>>
     \/ /\ state[c] # "NONE"
        /\ call' = [call EXCEPT ![current_msg[c].by].err =
                      IF state[c] = "CLOSE" THEN "OK" ELSE "error"]
        /\ op_completed' = [op_completed EXCEPT ![c] = TRUE]
  /\ UNCHANGED freed

-------------------------------------------------------------------------------
\* t is between the posting of its message and the return of the call.
Waiting(t) == call[t].conn # 0

\* sys_arch_sem_wait finds the semaphore signalled.
Signalled(t) == Waiting(t) /\ op_completed[call[t].conn]

\* It is not t's own message that was carried out.
Early(t) == current_msg[call[t].conn].by = t

\* The call returns; a caller that has a use for it finds err in the message.
Returns(t, used) ==
  /\ Signalled(t)
  /\ op_completed' = [op_completed EXCEPT ![call[t].conn] = FALSE]
  /\ call' = [call EXCEPT ![t] = IF used THEN [@ EXCEPT !.conn = 0] ELSE NoCall]
  /\ UNCHANGED <<state, pcb, pending_err, recvmbox, current_msg, freed>>
=============================================================================
