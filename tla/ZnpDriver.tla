----------------------------- MODULE ZnpDriver -----------------------------
(***************************************************************************)
(* The driver of a CC2530 that runs the Z-Stack network processor.  A      *)
(* request (SREQ) is sent and its response (SRSP) awaited by command alone;*)
(* the indications (AREQ) that arrive meanwhile are dispatched from inside *)
(* the wait, so that a callback may make a request of its own.  A request  *)
(* that timed out leaves its response behind, and the network processor    *)
(* also starts by itself: when its boot loader gives way to it, when power *)
(* comes back, when its watchdog bites.                                    *)
(***************************************************************************)
EXTENDS Integers, Sequences, FiniteSets, Functions

CONSTANTS MtCommands,       \* the requests an application makes, by subsystem and command
          StatusCommands,   \* those whose response carries a status the call looks at
          Subsystem,        \* [command -> its subsystem]
          MaxRequests,      \* bound on the requests made and the starts, together
          CallDepth,        \* bound on the waits and callbacks inside each other
          MaxIndications    \* bound on the indications in flight

ASSUME ZnpAssumption ==
  StatusCommands \subseteq MtCommands /\
  "AF_INCOMING_MSG" \notin MtCommands /\ "SYS_RESET" \notin MtCommands /\
  MaxRequests \in Nat \ {0} /\ CallDepth \in Nat \ {0} /\ MaxIndications \in Nat

VARIABLES calls,      \* the waits and callbacks in progress, the innermost last
          module,     \* the requests the network processor has not treated, in order
          uart,       \* the frames it sent and the driver has not read, in order
          issued,     \* the requests made and the starts are numbered in their order
          performed,  \* the requests carried out and the starts, each with its command
          claimed,    \* the calls that returned true, each with the answer it took
          overlapped  \* the requests whose command another one awaited or left unanswered

znpVars == <<calls, module, uart, issued, performed, claimed, overlapped>>
-----------------------------------------------------------------------------
ResetReq == "SYS_RESET"
Frame(kind, command, id, ok) == [kind |-> kind, command |-> command, id |-> id, ok |-> ok]
Done(command, id) == [command |-> command, id |-> id]
Claim(call, answer) == [command |-> call.command, id |-> call.id, by |-> answer.id]

\* Any of the three indications for which the application has a callback.
Indication == Frame("AREQ", "AF_INCOMING_MSG", 0, TRUE)
Callback == Frame("callback", "AF_INCOMING_MSG", 0, TRUE)

\* The application calls from its loop or from a callback, never from inside a wait.
Top == calls[Len(calls)]
MayCall == calls # <<>> => Top.kind = "callback"
Back == SubSeq(calls, 1, Len(calls) - 1)

InFlight == Range(module) \cup Range(uart)
Unanswered(command, input) ==
  \E f \in Range(module) \cup Range(input) : f.command = command
Awaited(command) ==
  {c.id : c \in {w \in Range(calls) : w.kind = "wait" /\ w.command = command}}

ZnpInit ==
  /\ calls = <<>> /\ module = <<>> /\ uart = <<>>
  /\ issued = 0 /\ performed = {} /\ claimed = {} /\ overlapped = {}

\* The frame is written and the wait for its answer begins, with the input unread.
Request(command, input) ==
  /\ Len(calls) < CallDepth /\ issued < MaxRequests
  /\ issued' = issued + 1
  /\ module' = Append(module, Frame("SREQ", command, issued', TRUE))
  /\ calls' = Append(calls, Frame("wait", command, issued', TRUE))
  /\ overlapped' = overlapped \cup Awaited(command) \cup
                   {n \in {issued'} : Unanswered(command, input) \/ Awaited(command) # {}}
  /\ uart' = input
  /\ UNCHANGED <<performed, claimed>>

\* Any operation from ping() to sendData() ends in one sreq(); one that refuses its
\* arguments does nothing.
Operation(command) == MayCall /\ Request(command, uart)
Reset == MayCall /\ Request(ResetReq, uart)

\* begin() drains the input, resets, and pings as its next operation.
ZnpBegin == calls = <<>> /\ Request(ResetReq, <<>>)

\* dispatchAreq(): an indication with a callback calls the application; other frames,
\* a response or a start that nobody waits for among them, are dropped.
Dispatched(frame, stack) ==
  IF frame.kind = "AREQ" /\ frame.command = "AF_INCOMING_MSG" /\ Len(stack) < CallDepth
  THEN Append(stack, Callback) ELSE stack

\* Mutant: the response is recognised by its subsystem only.
AnswersSubsystem(frame, command) ==
  IF command = ResetReq THEN frame.kind = "AREQ" /\ frame.command = command
  ELSE frame.kind = "SRSP" /\ Subsystem[frame.command] = Subsystem[command]

\* The frame a wait for this command returns on: reset() on any SYS_RESET_IND.
Answers(frame, command) ==
  /\ frame.kind = (IF command = ResetReq THEN "AREQ" ELSE "SRSP")
  /\ frame.command = command

\* A wait reads the next frame; a response of status 0, or one without a status,
\* makes the call return true.
ReadInWait ==
  /\ calls # <<>> /\ Top.kind = "wait" /\ uart # <<>>
  /\ uart' = Tail(uart)
  /\ LET frame == Head(uart)
         answered == Answers(frame, Top.command)
     IN /\ calls' = IF answered THEN Back ELSE Dispatched(frame, calls)
        /\ claimed' = IF answered /\ frame.ok
                       THEN claimed \cup {Claim(Top, frame)} ELSE claimed
  /\ UNCHANGED <<module, issued, performed, overlapped>>

\* The time of a wait is over: the call returns false, its response may still come.
GiveUp ==
  /\ calls # <<>> /\ Top.kind = "wait"
  /\ calls' = Back
  /\ UNCHANGED <<module, uart, issued, performed, claimed, overlapped>>

CallbackReturns ==
  /\ calls # <<>> /\ Top.kind = "callback"
  /\ calls' = Back
  /\ UNCHANGED <<module, uart, issued, performed, claimed, overlapped>>

\* poll() from the main loop: indications are dispatched, late responses dropped.
ZnpPoll ==
  /\ calls = <<>> /\ uart # <<>>
  /\ uart' = Tail(uart)
  /\ calls' = Dispatched(Head(uart), <<>>)
  /\ UNCHANGED <<module, issued, performed, claimed, overlapped>>

\* feed(): a frame whose checksum is wrong is dropped.
DropGarbled ==
  /\ uart # <<>>
  /\ uart' = Tail(uart)
  /\ UNCHANGED <<calls, module, issued, performed, claimed, overlapped>>
-----------------------------------------------------------------------------
(* The network processor treats requests in order.  It refuses some, and   *)
(* ignores those that reach its boot loader.                               *)
Treat(ok) ==
  /\ module # <<>>
  /\ module' = Tail(module)
  /\ LET r == Head(module)
         kind == IF r.command = ResetReq THEN "AREQ" ELSE "SRSP"
     IN /\ uart' = Append(uart, Frame(kind, r.command, r.id, ok))
        /\ performed' = IF ok THEN performed \cup {Done(r.command, r.id)} ELSE performed
        /\ r.command \notin StatusCommands => ok
  /\ UNCHANGED <<calls, issued, claimed, overlapped>>

Ignore ==
  /\ module # <<>>
  /\ module' = Tail(module)
  /\ UNCHANGED <<calls, uart, issued, performed, claimed, overlapped>>

\* It starts by itself: what it has not treated is lost, and it says SYS_RESET_IND.
ModuleStarts ==
  /\ issued < MaxRequests
  /\ issued' = issued + 1
  /\ module' = <<>>
  /\ uart' = Append(uart, Frame("AREQ", ResetReq, issued', TRUE))
  /\ performed' = performed \cup {Done(ResetReq, issued')}
  /\ UNCHANGED <<calls, claimed, overlapped>>

Indicate ==
  /\ Cardinality({i \in DOMAIN uart : uart[i] = Indication}) < MaxIndications
  /\ uart' = Append(uart, Indication)
  /\ UNCHANGED <<calls, module, issued, performed, claimed, overlapped>>

ZnpNext ==
  \/ \E command \in MtCommands : Operation(command)
  \/ Reset \/ ZnpBegin \/ ReadInWait \/ GiveUp \/ CallbackReturns \/ ZnpPoll \/ DropGarbled
  \/ \E ok \in BOOLEAN : Treat(ok)
  \/ Ignore \/ ModuleStarts \/ Indicate

ZnpSpec == ZnpInit /\ [][ZnpNext]_znpVars

-----------------------------------------------------------------------------
\* A call that returned true stands on an answer to its command that no other call
\* has taken, in whatever order late responses, nested calls, indications and starts of
\* the network processor came: as many calls of a command return true at most as
\* were carried out.  The answer is to its own request, or, for reset(), a start of the
\* network processor that came after the call, asked for or not, since reset() takes any
\* SYS_RESET_IND.  The one exception are calls that overlapped another answer to their
\* command: made from a callback inside the other's wait, or when an answer to an
\* earlier request, or an earlier start, was still to be read.  sreq() and reset() tell
\* these apart by nothing, and may take one for the other.
TrueMeansPerformed ==
  /\ \A c \in claimed :
       /\ Done(c.command, c.by) \in performed
       /\ c.by = c.id \/ c.id \in overlapped \/ (c.command = ResetReq /\ c.id < c.by)
  /\ \A c, d \in claimed : c.by = d.by => c = d

\* What makes it inductive: requests and starts are numbered; a number is on its way
\* once, and no more when a call has taken its answer; what comes for an awaited command
\* is what the wait may take; a positive answer is to what was carried out.
MtFrames == [kind : {"SREQ", "SRSP", "AREQ", "wait", "callback"},
             command : MtCommands \cup {ResetReq, "AF_INCOMING_MSG"},
             id : Nat, ok : BOOLEAN]

ZnpTypes ==
  /\ calls \in Seq(MtFrames) /\ module \in Seq(MtFrames) /\ uart \in Seq(MtFrames)
  /\ issued \in Nat
  /\ \A c \in Range(calls) : c.kind = "wait" => c.command \in MtCommands \cup {ResetReq}
  /\ \A f \in Range(module) : f.id # 0
  /\ \A f \in Range(uart) : f.id # 0 \/ f = Indication
  /\ \A f \in Range(calls) \cup InFlight : f.id <= issued
  /\ \A c \in claimed : c.by \in 1 .. issued

Once(q) == \A i, j \in 1 .. Len(q) : i # j /\ q[i].id # 0 => q[i].id # q[j].id

OnItsWayOnce ==
  /\ Once(module) /\ Once(uart)
  /\ \A f \in Range(module), g \in Range(uart) : f.id # g.id
  /\ \A c \in claimed, f \in InFlight : f.id # c.by

AwaitedIsOwn ==
  \A c \in Range(calls) : \A f \in InFlight :
    c.kind = "wait" /\ f.command = c.command =>
      f.id = c.id \/ c.id \in overlapped \/ (c.command = ResetReq /\ c.id < f.id)

PositiveIsPerformed ==
  \A f \in Range(uart) : f.id # 0 /\ f.ok => Done(f.command, f.id) \in performed

ZnpInv ==
  ZnpTypes /\ OnItsWayOnce /\ AwaitedIsOwn /\ PositiveIsPerformed /\ TrueMeansPerformed
=============================================================================
