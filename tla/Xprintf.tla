-------------------------------- MODULE Xprintf --------------------------------
(***************************************************************************)
(* xprintf.c as two tasks of one priority use it: the console formats what *)
(* its commands print with xsprintf, the telnet server reports with        *)
(* xprintf.  Where a character goes is decided by one variable, outptr,    *)
(* that all tasks share; a slice of time may end between any two accesses  *)
(* to it.  A character is the task that put it and its place in the text.  *)
(***************************************************************************)
EXTENDS Integers, Sequences

CONSTANTS
  TextLen,    \* characters of what the console formats
  ReportLen,  \* characters of the server's report
  BufSize,    \* the buffer of the command, with room for the reports that get into it
  MaxCalls    \* calls of each task

VARIABLES
  outptr,   \* place in the buffer, or NULL
  buff,     \* the buffer of the command
  device,   \* what xfunc_out was given
  pc, put,  \* where a task stands, and how many characters it has put
  load,     \* outptr as xputc loaded it
  calls     \* calls made

vars == <<outptr, buff, device, pc, put, load, calls>>

MicroRL == "MicroRL"
TelnetServer == "TelnetServer"
Tasks == {MicroRL, TelnetServer}
NULL == 0
Zero == <<"zero", 0>>
Text(t) == [n \in 1..(IF t = MicroRL THEN TextLen ELSE ReportLen) |-> <<t, n>>]

Init == /\ outptr = NULL /\ buff = [n \in 1..BufSize |-> Zero] /\ device = <<>>
        /\ pc = [t \in Tasks |-> "idle"]
        /\ put = [t \in Tasks |-> 0] /\ load = [t \in Tasks |-> NULL]
        /\ calls = [t \in Tasks |-> 0]

Goto(t, p) == pc' = [pc EXCEPT ![t] = p]

-------------------------------------------------------------------------------
\* Entry of the call: xsprintf switches the destination for memory.
Call(t) == /\ pc[t] = "idle" /\ calls[t] < MaxCalls
           /\ calls' = [calls EXCEPT ![t] = @ + 1]
           /\ put' = [put EXCEPT ![t] = 0]
           /\ outptr' = IF t = MicroRL THEN 1 ELSE outptr
           /\ Goto(t, "text")
           /\ UNCHANGED <<buff, device, load>>

\* xputc loads outptr, then stores the character and the pointer.
Load(t) == /\ pc[t] = "text" /\ put[t] < Len(Text(t))
           /\ load' = [load EXCEPT ![t] = outptr]
           /\ Goto(t, "xputc")
           /\ UNCHANGED <<outptr, buff, device, put, calls>>
Store(t) == /\ pc[t] = "xputc"
            /\ LET c == Text(t)[put[t] + 1]
               IN IF load[t] = NULL
                  THEN device' = Append(device, c) /\ UNCHANGED <<outptr, buff>>
                  ELSE /\ buff' = [buff EXCEPT ![load[t]] = c]
                       /\ outptr' = load[t] + 1
                       /\ UNCHANGED device
            /\ put' = [put EXCEPT ![t] = @ + 1]
            /\ Goto(t, "text")
            /\ UNCHANGED <<load, calls>>

\* The end of the text: xsprintf writes the zero and switches back to the device.
Terminate == /\ pc[MicroRL] = "text" /\ put[MicroRL] = TextLen /\ outptr # NULL
             /\ buff' = [buff EXCEPT ![outptr] = Zero]
             /\ Goto(MicroRL, "release")
             /\ UNCHANGED <<outptr, device, put, load, calls>>
Release == /\ pc[MicroRL] = "release" /\ outptr' = NULL
           /\ Goto(MicroRL, "print")
           /\ UNCHANGED <<buff, device, put, load, calls>>
Shown == /\ pc[MicroRL] = "print" /\ Goto(MicroRL, "idle")
         /\ UNCHANGED <<outptr, buff, device, put, load, calls>>

Return == /\ pc[TelnetServer] = "text" /\ put[TelnetServer] = ReportLen
          /\ Goto(TelnetServer, "idle")
          /\ UNCHANGED <<outptr, buff, device, put, load, calls>>

Next == \/ \E t \in Tasks : Call(t) \/ Load(t) \/ Store(t)
        \/ Terminate \/ Release \/ Shown \/ Return

Spec == Init /\ [][Next]_vars

-------------------------------------------------------------------------------
\* What xsprintf has put to the memory is the formatted string and its end.
StringIsInMemory ==
  pc[MicroRL] = "print" => /\ SubSeq(buff, 1, TextLen) = Text(MicroRL)
                           /\ buff[TextLen + 1] = Zero
=============================================================================
