-------------------------------- MODULE Telnet --------------------------------
(***************************************************************************)
(* The telnet console of src/theardTelnetServer.c.  theard_Telnet_Server   *)
(* serves one session at a time and publishes it in newconnUse; the        *)
(* console task prints into the ring buferTerminal; task_idle_SendDataTel- *)
(* Net writes the ring, byte by byte, to the connection it finds in        *)
(* newconnUse.  Server and sender call the API on the same netconn.        *)
(*                                                                         *)
(* The sender has priority 1, the server and the console task 2, the       *)
(* tcpip thread 4.  So the server runs from one blocking call to the next  *)
(* in one step, the sender makes a step only while the server is blocked,  *)
(* and can be preempted between any two accesses to what it shares.        *)
(*                                                                         *)
(* A printed byte is its number in the order of printing.                  *)
(***************************************************************************)
EXTENDS Netconn, TLC

CONSTANTS
  Size,          \* TELNET_BUFFER_SIZE
  MaxPrinted,    \* bound: bytes printed in a behaviour
  MaxInput,      \* bound: buffers the peers send
  Resets         \* whether connections may be reset

ASSUME TelnetAssumption ==
  /\ Size \in Nat \ {0} /\ MaxPrinted \in Nat /\ MaxInput \in Nat
  /\ Resets \in BOOLEAN
  /\ Task = {"server", "sender"}

NULL == 0

VARIABLES
  newconnUse,    \* the session being served
  buferTerminal, wr_index, rd_index, counter,     \* the ring
  serverPc, inbuf,       \* the server: where it is, what netconn_recv gave it
  conn,                  \* newconn of the server
  senderPc, i, arg,      \* the sender: where it is, i, the connection it read
  fault,                 \* what made the behaviour undefined
  printed, taken, inputs, lapped, line    \* history: bytes printed, bytes the
                         \* sender took, buffers received, whether a byte was
                         \* overwritten before it was taken, what TCP was given

ringVars == <<buferTerminal, wr_index, rd_index, counter, printed, taken, lapped>>
serverVars == <<serverPc, inbuf, conn>>
senderVars == <<senderPc, i, arg>>
vars == <<netVars, newconnUse, ringVars, serverVars, senderVars, fault, inputs, line>>

Slots == 0..(Size - 1)

TypeOK ==
  /\ NetTypeOK(Slots)
  /\ newconnUse \in Conn \union {NULL}
  /\ buferTerminal \in [Slots -> 0..MaxPrinted]
  /\ wr_index \in Slots /\ rd_index \in Slots /\ counter \in 0..MaxPrinted
  /\ serverPc \in {"accept", "recv", "listen", "recved", "close", "delete", "deleted"}
  /\ inbuf \in {"none", "short", "long", "fin"} /\ conn \in Conn \union {NULL}
  /\ senderPc \in {"test", "loop", "write", "wait", "reset"}
  /\ i \in 0..MaxPrinted /\ arg \in Conn \union {NULL}
  /\ fault \in {"none", "early return", "freed netconn"}

Init ==
  /\ NetInit
  /\ newconnUse = NULL
  /\ buferTerminal = [s \in Slots |-> 0]
  /\ wr_index = 0 /\ rd_index = 0 /\ counter = 0
  /\ serverPc = "accept" /\ inbuf = "none" /\ conn = NULL
  /\ senderPc = "test" /\ i = 0 /\ arg = NULL
  /\ fault = "none"
  /\ printed = 0 /\ taken = 0 /\ inputs = 0 /\ lapped = FALSE /\ line = <<>>

-------------------------------------------------------------------------------
\* printTelNet of a string of n bytes, by the console task.
RingAfter(n) == [s \in Slots |->
  LET k == {m \in 1..n : (wr_index + m - 1) % Size = s}
  IN  IF k = {} THEN buferTerminal[s] ELSE printed + CHOOSE m \in k : \A l \in k : l <= m]

PrintTelNet(n) ==
  /\ newconnUse # NULL
  /\ printed + n <= MaxPrinted
  /\ buferTerminal' = RingAfter(n)
  /\ wr_index' = (wr_index + n) % Size
  /\ counter' = counter + n
  /\ printed' = printed + n
  /\ lapped' = (lapped \/ printed + n - taken > Size)
  /\ UNCHANGED <<netVars, newconnUse, rd_index, taken, serverVars, senderVars,
                 inputs, line, fault>>

-------------------------------------------------------------------------------
\* A call of the API returns.  When the token was somebody else's, the message on
\* the stack of the caller is left to the tcpip thread and nothing is known of
\* what follows.  Only the result of netconn_delete matters.
CallReturns(t) ==
  /\ Returns(t, t = "server" /\ serverPc = "deleted")
  /\ fault' = IF Early(t) THEN "early return" ELSE fault

\* theard_Telnet_Server
ServerRuns(pc) == serverPc = pc /\ ~Waiting("server")

ServerReturns ==
  /\ CallReturns("server")
  /\ UNCHANGED <<newconnUse, ringVars, serverVars, senderVars, inputs, line>>

ServerAccept ==
  /\ ServerRuns("accept")
  /\ \E c \in Conn :
       /\ \A d \in Conn : state[d] = "absent" => c <= d
       /\ Accepted(c)
       /\ newconnUse' = c /\ conn' = c
  /\ serverPc' = "recv"
  /\ UNCHANGED <<ringVars, senderVars, inbuf, fault, inputs, line>>

\* netconn_recv allocates a netbuf, for which there may be no memory, and waits.
ServerRecv ==
  /\ ServerRuns("recv")
  /\ serverPc' \in {"listen", "close"}
  /\ UNCHANGED <<netVars, inbuf, newconnUse, conn, ringVars, senderVars, fault, inputs, line>>

\* What it waited for: data or the end of the stream, of which the stack is told,
\* or an error.
ServerListen ==
  /\ ServerRuns("listen")
  /\ recvmbox[conn] # <<>>
  /\ recvmbox' = [recvmbox EXCEPT ![conn] = Tail(@)]
  /\ \/ /\ Head(recvmbox[conn]) # "rst"
        /\ inbuf' = Head(recvmbox[conn])
        /\ DoRecv("server", conn)
        /\ serverPc' = "recved"
     \/ /\ Head(recvmbox[conn]) = "rst"
        /\ serverPc' = "close"
        /\ UNCHANGED <<inbuf, state, pcb, pending_err, current_msg, op_completed, call>>
  /\ UNCHANGED <<freed, newconnUse, conn, ringVars, senderVars, fault, inputs, line>>

\* A short buffer goes to the console, a long one is answered with an option, the
\* end of the stream shuts the receiving side.
ServerRecved ==
  /\ ServerRuns("recved")
  /\ inbuf' = "none"
  /\ \/ /\ inbuf = "short"
        /\ serverPc' = "recv"
        /\ UNCHANGED netVars
     \/ /\ inbuf = "long"
        /\ serverPc' = "recv"
        /\ WriteRefused("server", conn) \/ WriteDone("server", conn)
              \/ WriteWaits("server", conn, NoSlot)
     \/ /\ inbuf = "fin"
        /\ serverPc' = "close"
        /\ IF pcb[conn] THEN DoShutRd("server", conn) /\ UNCHANGED <<recvmbox, freed>>
                        ELSE UNCHANGED netVars
  /\ UNCHANGED <<newconnUse, conn, ringVars, senderVars, fault, inputs, line>>

\* netconn_close, whatever it returns, and netconn_delete.
ServerClose ==
  /\ ServerRuns("close")
  /\ DoClose("server", conn)
  /\ serverPc' = "delete"
  /\ UNCHANGED <<recvmbox, freed, newconnUse, conn, inbuf, ringVars, senderVars,
                 fault, inputs, line>>

ServerDelete ==
  /\ ServerRuns("delete")
  /\ DoDelconn("server", conn)
  /\ serverPc' = "deleted"
  /\ UNCHANGED <<recvmbox, freed, newconnUse, conn, inbuf, ringVars, senderVars,
                 fault, inputs, line>>

ServerDeleted ==
  /\ ServerRuns("deleted")
  /\ freed' = [freed EXCEPT ![conn] = call["server"].err = "OK"]
  /\ newconnUse' = NULL
  /\ serverPc' = "accept" /\ conn' = NULL
  /\ call' = [call EXCEPT !["server"] = NoCall]
  /\ UNCHANGED <<state, pcb, pending_err, recvmbox, current_msg, op_completed,
                 inbuf, ringVars, senderVars, fault, inputs, line>>

ServerAct == ServerReturns \/ ServerRecv \/ ServerListen \/ ServerRecved \/ ServerClose
               \/ ServerDelete \/ ServerDeleted

\* The server is ready: nothing of a lower priority runs.  (Before it accepts the
\* next session it delays.)
ServerReady ==
  \/ Signalled("server")
  \/ ~Waiting("server") /\ serverPc \notin {"accept", "listen"}
  \/ ServerRuns("listen") /\ recvmbox[conn] # <<>>

-------------------------------------------------------------------------------
\* task_idle_SendDataTelNet
SenderRuns(pc) == senderPc = pc /\ ~Waiting("sender") /\ ~ServerReady

SenderTest ==
  /\ SenderRuns("test")
  /\ senderPc' = IF newconnUse # NULL THEN "loop" ELSE "reset"
  /\ i' = 0
  /\ UNCHANGED <<arg, netVars, newconnUse, ringVars, serverVars, fault, inputs, line>>

\* The test of the loop, and newconnUse read for the call of netconn_write.
SenderLoop ==
  /\ SenderRuns("loop")
  /\ \/ /\ i < counter
        /\ senderPc' = "write" /\ arg' = newconnUse
     \/ /\ i >= counter
        /\ senderPc' = "reset" /\ UNCHANGED arg
  /\ UNCHANGED <<i, netVars, newconnUse, ringVars, serverVars, fault, inputs, line>>

\* netconn_write of one byte of the ring, which is not copied.
SenderWrite ==
  /\ SenderRuns("write")
  /\ senderPc' = "wait"
  /\ \/ /\ arg = NULL
        /\ UNCHANGED <<netVars, line, fault>>
     \/ /\ arg # NULL /\ freed[arg]
        /\ fault' = "freed netconn"
        /\ UNCHANGED <<netVars, line>>
     \/ /\ arg # NULL /\ ~freed[arg]
        /\ UNCHANGED fault
        /\ \/ /\ WriteRefused("sender", arg) \/ WriteWaits("sender", arg, rd_index)
              /\ UNCHANGED line
           \/ /\ WriteDone("sender", arg)
              /\ line' = Append(line, buferTerminal[rd_index])
  /\ UNCHANGED <<i, arg, newconnUse, ringVars, serverVars, inputs>>

SenderReturns ==
  /\ ~ServerReady
  /\ CallReturns("sender")
  /\ UNCHANGED <<newconnUse, ringVars, serverVars, senderVars, inputs, line>>

\* The call is over, whatever it returned: on to the next byte.
SenderNextSameByte ==
  /\ SenderRuns("wait")
  /\ i' = i + 1
  /\ taken' = taken + 1
  /\ senderPc' = "loop" /\ arg' = NULL
  /\ UNCHANGED <<netVars, newconnUse, buferTerminal, wr_index, rd_index, counter, printed,
                 lapped, serverVars, fault, inputs, line>>
SenderNextNoWrap ==
  /\ SenderRuns("wait")
  /\ rd_index' = rd_index + 1
  /\ i' = i + 1
  /\ taken' = taken + 1
  /\ senderPc' = "loop" /\ arg' = NULL
  /\ UNCHANGED <<netVars, newconnUse, buferTerminal, wr_index, counter, printed, lapped,
                 serverVars, fault, inputs, line>>
SenderNext ==
  /\ SenderRuns("wait")
  /\ rd_index' = (rd_index + 1) % Size
  /\ i' = i + 1
  /\ taken' = taken + 1
  /\ senderPc' = "loop" /\ arg' = NULL
  /\ UNCHANGED <<netVars, newconnUse, buferTerminal, wr_index, counter, printed, lapped,
                 serverVars, fault, inputs, line>>

SenderResetForgotten ==
  /\ SenderRuns("reset")
  /\ senderPc' = "test" /\ i' = 0
  /\ UNCHANGED <<arg, netVars, newconnUse, ringVars, serverVars, fault, inputs, line>>
SenderReset ==
  /\ SenderRuns("reset")
  /\ counter' = 0
  /\ senderPc' = "test" /\ i' = 0
  /\ UNCHANGED <<arg, netVars, newconnUse, buferTerminal, wr_index, rd_index, printed,
                 taken, lapped, serverVars, fault, inputs, line>>

SenderAct == SenderTest \/ SenderLoop \/ SenderWrite \/ SenderReturns \/ SenderNext
               \/ SenderReset

-------------------------------------------------------------------------------
\* TCP: the peer's data, acknowledgements, its end of the stream and resets.
TcpArrives ==
  /\ \E c \in Conn, m \in {"short", "long", "fin"} :
       /\ \A k \in 1..Len(recvmbox[c]) : recvmbox[c][k] # "fin"
       /\ c = conn /\ serverPc \in {"recv", "listen", "recved"} /\ inbuf # "fin"
       /\ Arrives(c, m)
  /\ inputs < MaxInput /\ inputs' = inputs + 1
  /\ UNCHANGED <<newconnUse, ringVars, serverVars, senderVars, fault, line>>

TcpFinishes(c) ==
  /\ Finished(c)
  /\ line' = IF current_msg[c].slot = NoSlot THEN line
             ELSE Append(line, buferTerminal[current_msg[c].slot])
  /\ UNCHANGED <<newconnUse, ringVars, serverVars, senderVars, fault, inputs>>

TcpReset(c) ==
  /\ Resets
  /\ Reset(c)
  /\ UNCHANGED <<newconnUse, ringVars, serverVars, senderVars, fault, inputs, line>>

\* After a fault, and when the bounds are used up, nothing more is said.
Next ==
  \/ /\ fault = "none"
     /\ \/ \E n \in 1..Size : PrintTelNet(n)
        \/ ServerAccept \/ ServerAct
        \/ SenderAct
        \/ TcpArrives
        \/ \E c \in Conn : TcpFinishes(c) \/ TcpReset(c)

\* The tasks are scheduled, and TCP finishes what waits: poll_tcp tries again, and
\* gives a connection up in the end.
Fairness == /\ WF_vars(fault = "none" /\ ServerAct)
            /\ WF_vars(fault = "none" /\ SenderAct)
            /\ \A c \in Conn : WF_vars(fault = "none" /\ TcpFinishes(c))

Spec == Init /\ [][Next]_vars /\ Fairness

-------------------------------------------------------------------------------
\* Whatever the sender is preempted by between its accesses to counter, rd_index and
\* newconnUse, and however far the ring was overrun: what it sends as its k-th byte is
\* the k-th byte printed or a later one that took its place in the ring, never an
\* older one and never what was not printed.  (A byte that took the place of another
\* is then sent for both.)
TakesNoOlderByte ==
  senderPc \in {"write", "wait"} =>
    LET byte == buferTerminal[rd_index] IN
      byte > taken /\ (byte - 1) % Size = rd_index

\* As long as the ring was not overrun the connections are given what was printed
\* in the order it was printed, and no byte twice, across the sessions too.
OutputInOrder ==
  ~lapped => \A a, b \in 1..Len(line) : a < b => line[a] < line[b]

\* A netconn is freed only when the TCP connection is gone and no message of it is
\* under way (the assertions of netconn_free), though netconn_close may have been
\* refused because the sender was writing.
FreedIsQuiet ==
  \A c \in Conn : freed[c] => ~pcb[c] /\ current_msg[c] = NoMsg

\* However the calls of server and sender share the semaphore, the server gets out
\* of a session that it closes and waits for the next.
ServerComesBack == serverPc = "close" ~> (serverPc = "accept" \/ fault # "none")

\* api.h on op_completed: "sem that is used to synchronously execute functions in
\* the core context".  A call returns only when its function was executed.
CallsAreSynchronous == fault # "early return"

\* theardTelnetServer.c on newconnUse: a pointer to the session in use.  The sender
\* never calls the API on a netconn that was freed.
SessionIsInUse == fault # "freed netconn"
=============================================================================
