--------------------------- MODULE RadioLinkProofs ---------------------------
(***************************************************************************)
(* Proofs about the radio driver, the UART and the co-processor, for any   *)
(* set of commands, any nesting of callbacks and any bounds.               *)
(***************************************************************************)
EXTENDS RadioLink, FiniteSetTheorems, SequenceTheorems, TLAPS

(***************************************************************************)
(* Types.                                                                  *)
(***************************************************************************)
Commands == Calls \cup {Ping, SetPromiscuous(TRUE), SetChannel(StartChannel)}
AnswerTypes == {"PONG", "TXSTAT", "MAC_INFO", "STATS", "ED_RESULT", "OK"}
WaitRecords == [kind : {"wait"}, cmd : Commands, id : Nat, left : Nat,
                begin : BOOLEAN, quiet : BOOLEAN]
Activations == WaitRecords \cup {Callback}
Answers == [type : AnswerTypes \cup {"RESET_IND"}, id : Nat, ok : BOOLEAN, cca : BOOLEAN]
Messages == Answers \cup {RxFrame}
Jobs == [kind : {c.kind : c \in Commands}, cmd : Commands, id : Nat, pass : Nat, tries : Nat,
         phase : {"run", "ack"}]
Scripts == {<<>>, <<SetChannel(StartChannel)>>,
            <<SetPromiscuous(TRUE), SetChannel(StartChannel)>>,
            <<Ping, SetPromiscuous(TRUE), SetChannel(StartChannel)>>}

IsWait(i) == stack[i].kind = "wait"

LinkTypeOK ==
  /\ stack \in Seq(Activations) /\ \A i \in DOMAIN stack : IsWait(i) => stack[i].id <= issued
  /\ \A i, j \in DOMAIN stack : j = i + 1 /\ ~IsWait(j) => IsWait(i)
  /\ stash \in Answers \cup {None} /\ toHost \in Seq(Messages)
  /\ job \in Jobs \cup {None} /\ (Busy => job.kind = job.cmd.kind /\ job.id <= issued)
  /\ Busy /\ job.phase = "ack" => job.kind \in Transmits
  /\ script \in Scripts /\ up \in BOOLEAN /\ hit \in BOOLEAN /\ unsure \in BOOLEAN
  /\ issued \in Nat /\ fifo \in Nat
  /\ expects \in Nat /\ (expects <= FrameUnits \/ expects <= 1) /\ (Busy => expects <= 1)
  /\ DOMAIN config = DOMAIN ResetConfig /\ config.cca \in BOOLEAN /\ config.filter \in BOOLEAN

(***************************************************************************)
(* A quiet wait is the only one, and all that is under way is its answer.  *)
(***************************************************************************)
Acknowledged(c) == c.kind \in Transmits /\ c.arg
Own(r, w) ==
  \/ r.type \in {"RX_FRAME", "RESET_IND"}
  \/ /\ r.id = w.id
     /\ Acknowledged(w.cmd) /\ r.ok /\ r.cca => w.id \in received
QuietAlone ==
  \A i \in DOMAIN stack :
    IsWait(i) /\ stack[i].quiet =>
      /\ \A j \in DOMAIN stack : j # i => ~IsWait(j)
      /\ \A k \in DOMAIN toHost : Own(toHost[k], stack[i])
      /\ stash = None \/ Own(stash, stack[i])
      /\ Busy => job.id = stack[i].id /\ job.cmd = stack[i].cmd

(***************************************************************************)
(* begin(): one wait at a time, and a ping that the module took up is      *)
(* answered.                                                               *)
(***************************************************************************)
BeginShape ==
  /\ \A i \in DOMAIN stack :
       IsWait(i) => /\ stack[i].begin <=> script # <<>>
                    /\ stack[i].begin => i = 1 /\ stack[i].cmd = Head(script)
  /\ ~up => stack = <<>> /\ script = <<>>
Pinging == script # <<>> /\ Head(script) = Ping
PingIsAnswered ==
  Pinging /\ ~hit /\ ~unsure =>
    \/ /\ \A i \in DOMAIN stack : ~IsWait(i)
       /\ expects <= 1
    \/ /\ stack # <<>> /\ IsWait(1)
       /\ \/ Busy /\ job.id = stack[1].id /\ job.cmd = Ping
          \/ \E k \in DOMAIN toHost : toHost[k].type = "PONG"
          \/ stack[1].left = 2 /\ ~Busy /\ expects = 0

(***************************************************************************)
(* Every answer under way is awaited, and when as many are under way as    *)
(* waits, the module is about to hold what the driver is about to believe. *)
(***************************************************************************)
Settings == {"OK", "ED_RESULT"}
Flying(t) ==
  {id \in 1 .. issued :
     \/ \E k \in DOMAIN toHost : toHost[k].type = t /\ toHost[k].id = id
     \/ stash # None /\ stash.type = t /\ stash.id = id
     \/ Busy /\ Response(job.cmd) = t /\ job.id = id}
Awaited(t) ==
  {id \in 1 .. issued :
     \E i \in DOMAIN stack : IsWait(i) /\ Response(stack[i].cmd) = t /\ stack[i].id = id}
Target == IF Busy THEN Applied(job.cmd) ELSE config
Waiting(i, m) == IsWait(i) /\ Remembers(stack[i].cmd) = m

IsAnswer(r) == r # None /\ r.type \in AnswerTypes
AnswersApart ==
  /\ \A k, l \in DOMAIN toHost :
       IsAnswer(toHost[k]) /\ IsAnswer(toHost[l]) /\ toHost[k].id = toHost[l].id => k = l
  /\ \A k \in DOMAIN toHost :
       IsAnswer(toHost[k]) =>
         /\ toHost[k].id \in 1 .. issued
         /\ IsAnswer(stash) => stash.id # toHost[k].id
         /\ Busy => job.id # toHost[k].id
  /\ IsAnswer(stash) => stash.id \in 1 .. issued /\ (Busy => job.id # stash.id)
  /\ Busy => job.id \in 1 .. issued
WaitsApart ==
  /\ \A i, j \in DOMAIN stack : IsWait(i) /\ IsWait(j) /\ stack[i].id = stack[j].id => i = j
  /\ \A i \in DOMAIN stack : IsWait(i) => stack[i].id \in 1 .. issued

Scanned ==
  Pinging /\ ~unsure =>
    /\ Flying("OK") = {} /\ ~cache.promisc /\ cache.address = ResetConfig.address
    /\ \A k \in DOMAIN toHost : toHost[k].type = "PONG" =>
         /\ Busy => job.kind # "ed"
         /\ \A l \in DOMAIN toHost : toHost[l].type = "ED_RESULT" => l < k
    /\ stash # None /\ stash.type = "PONG" =>
         /\ Busy => job.kind # "ed"
         /\ \A l \in DOMAIN toHost : toHost[l].type # "ED_RESULT"

InStep == \A t \in Settings : Cardinality(Flying(t)) = Cardinality(Awaited(t))
Agreement ==
  /\ \A i \in DOMAIN stack : Waiting(i, "channel") => Target.channel = stack[i].cmd.arg
  /\ (script = <<>> /\ \A i \in DOMAIN stack : ~Waiting(i, "channel"))
       => cache.channel = Target.channel
  /\ \A i \in DOMAIN stack : Waiting(i, "address") => Target.address = stack[i].cmd.arg
  /\ (\A i \in DOMAIN stack : ~Waiting(i, "address"))
       => cache.address \in {ResetConfig.address, Target.address}
  /\ cache.promisc => ~Target.filter
Balanced ==
  /\ \A t \in Settings : Cardinality(Flying(t)) <= Cardinality(Awaited(t))
  /\ InStep => Agreement
AnswersAreAwaited == up /\ ~unsure /\ ~Pinging => Balanced
CacheShape == DOMAIN cache = {"channel", "promisc", "address"}

-----------------------------------------------------------------------------
(***************************************************************************)
(* Messages and activations carry a tag that tells their shape.            *)
(***************************************************************************)
LEMMA Shapes ==
  /\ \A a \in Activations : a.kind = "wait" => a \in WaitRecords
  /\ \A m \in Messages : m.type # "RX_FRAME" => m \in Answers
  /\ \A m \in Messages : m.type \in AnswerTypes => m \in Answers
  /\ RxFrame \in Messages /\ RxFrame.type = "RX_FRAME"
  /\ Callback \in Activations /\ Callback.kind = "callback"
  /\ \A r \in Answers : r # None
  /\ \A j \in Jobs : j # None
<1>1. \A m \in Messages : m.type # "RX_FRAME" => m \in Answers
  BY DEF Messages, RxFrame
<1>2. \A r \in Answers : r # None
  BY DEF Answers, None
<1>3. \A a \in Activations : a.kind = "wait" => a \in WaitRecords
  BY DEF Activations, Callback
<1>4. \A j \in Jobs : j # None
  BY DEF Jobs, None
<1> QED
  BY <1>1, <1>2, <1>3, <1>4 DEF Messages, RxFrame, Activations, Callback, AnswerTypes

(***************************************************************************)
(* Every command has a kind, and an answer of its own type.                *)
(***************************************************************************)
LEMMA CommandTyped ==
  ASSUME NEW c \in Commands
  PROVE  /\ c.kind \in {"ping", "channel", "promisc", "address", "mac", "getmac",
                         "power", "pending", "pib", "stats", "ed", "tx", "txadv"}
         /\ Response(c) \in AnswerTypes
         /\ c.kind = "mac" => c.arg.filter \in BOOLEAN /\ c.arg.cca \in BOOLEAN
<1>1. c.kind \in {"ping", "channel", "promisc", "address", "mac", "getmac",
                  "power", "pending", "pib", "stats", "ed", "tx", "txadv"}
  BY CallsAssumption DEF Commands, Ping, SetPromiscuous, SetChannel
<1>2. c.kind = "mac" => c \in Calls
  BY DEF Commands, Ping, SetPromiscuous, SetChannel
<1>3. Response(c) \in AnswerTypes
  BY <1>1 DEF Response, AnswerTypes
<1> QED
  BY <1>1, <1>2, <1>3, ConfigAssumption

(***************************************************************************)
(* What a command changes in the module.                                   *)
(***************************************************************************)
LEMMA AppliedFields ==
  ASSUME NEW c \in Commands, DOMAIN config = DOMAIN ResetConfig, config.cca \in BOOLEAN,
         config.filter \in BOOLEAN
  PROVE  /\ DOMAIN Applied(c) = DOMAIN config
         /\ Applied(c).cca \in BOOLEAN
         /\ Applied(c).channel = IF c.kind \in {"channel", "ed"} THEN c.arg ELSE config.channel
         /\ Applied(c).address = IF c.kind = "address" THEN c.arg ELSE config.address
         /\ Applied(c).filter = IF c.kind = "promisc" THEN ~c.arg
                                ELSE IF c.kind = "mac" THEN c.arg.filter ELSE config.filter
         /\ Response(c) \notin Settings => Applied(c) = config
<1> USE ConfigAssumption, CommandTyped
<1>1. CASE c.kind = "channel" \/ c.kind = "ed"
  BY <1>1 DEF Applied, Response, Settings
<1>2. CASE c.kind = "promisc"
  BY <1>2 DEF Applied, Response, Settings
<1>3. CASE c.kind = "address"
  BY <1>3 DEF Applied, Response, Settings
<1>4. CASE c.kind = "mac"
  BY <1>4 DEF Applied, Response, Settings
<1>5. CASE c.kind \in {"power", "pending", "pib"}
  BY <1>5 DEF Applied, Response, Settings
<1>6. CASE c.kind \notin {"channel", "ed", "promisc", "address", "mac", "power", "pending", "pib"}
  BY <1>6 DEF Applied, Response, Settings
<1> QED
  BY <1>1, <1>2, <1>3, <1>4, <1>5, <1>6

(***************************************************************************)
(* The ends of a sequence.                                                 *)
(***************************************************************************)
LEMMA Appended ==
  ASSUME NEW S, NEW s \in Seq(S), NEW e \in S
  PROVE  /\ Append(s, e) \in Seq(S) /\ Append(s, e) # <<>>
         /\ DOMAIN s = 1 .. Len(s) /\ DOMAIN Append(s, e) = 1 .. Len(s) + 1
         /\ Len(Append(s, e)) = Len(s) + 1 /\ Len(s) \in Nat
         /\ \A i \in DOMAIN s : Append(s, e)[i] = s[i] /\ i <= Len(s)
         /\ Append(s, e)[Len(s) + 1] = e
BY AppendProperties, LenProperties

\* A nonempty sequence without its last element.
LEMMA WithoutLast ==
  ASSUME NEW S, NEW s \in Seq(S), s # <<>>
  PROVE  /\ Front(s) \in Seq(S) /\ Len(Front(s)) = Len(s) - 1 /\ Len(s) \in Nat \ {0}
         /\ DOMAIN s = 1 .. Len(s) /\ DOMAIN Front(s) = 1 .. Len(s) - 1
         /\ \A i \in DOMAIN Front(s) : i \in DOMAIN s /\ Front(s)[i] = s[i]
         /\ Last(s) = s[Len(s)] /\ Last(s) \in S
         /\ Front(s) = <<>> <=> Len(s) = 1
<1>1. Len(s) \in Nat \ {0} /\ DOMAIN s = 1 .. Len(s) /\ \A i \in 1 .. Len(s) : s[i] \in S
  BY EmptySeq, LenProperties, ElementOfSeq
<1>2. /\ Front(s) \in Seq(S) /\ Len(Front(s)) = Len(s) - 1
      /\ \A i \in 1 .. Len(s) - 1 : Front(s)[i] = s[i]
  <2>1. \A i \in 1 .. Len(s) - 1 : s[i] \in S
    BY <1>1
  <2> QED
    BY <1>1, <2>1, SubSeqProperties DEF Front
<1>3. DOMAIN Front(s) = 1 .. Len(s) - 1
  BY <1>2, LenProperties
<1>4. Front(s) = <<>> <=> Len(s) = 1
  BY <1>1, <1>2, EmptySeq
<1> QED
  BY <1>1, <1>2, <1>3, <1>4 DEF Last

\* A nonempty sequence without its first element.
LEMMA WithoutFirst ==
  ASSUME NEW S, NEW s \in Seq(S), s # <<>>
  PROVE  /\ Tail(s) \in Seq(S) /\ Head(s) = s[1] /\ Head(s) \in S
         /\ Len(s) \in Nat \ {0} /\ 1 \in DOMAIN s
         /\ DOMAIN s = 1 .. Len(s) /\ DOMAIN Tail(s) = 1 .. Len(s) - 1
         /\ \A i \in DOMAIN Tail(s) : i + 1 \in DOMAIN s /\ Tail(s)[i] = s[i + 1]
<1>1. Len(s) \in Nat \ {0} /\ DOMAIN s = 1 .. Len(s)
  BY EmptySeq, LenProperties
<1>2. Tail(s) \in Seq(S) /\ Head(s) \in S /\ Len(Tail(s)) = Len(s) - 1
      /\ \A i \in 1 .. Len(s) - 1 : Tail(s)[i] = s[i + 1]
  BY HeadTailProperties
<1>3. DOMAIN Tail(s) = 1 .. Len(s) - 1
  BY <1>2, LenProperties
<1> QED
  BY <1>1, <1>2, <1>3

-----------------------------------------------------------------------------
(***************************************************************************)
(* The steps of the firmware: it goes on with its command, and perhaps     *)
(* forwards a frame, or it ends the command and answers.                   *)
(***************************************************************************)
Continued ==
  /\ job' = job \/ (Busy /\ job' \in Jobs /\ job'.cmd = job.cmd /\ job'.id = job.id
                         /\ job'.kind = job.kind
                         /\ (job'.phase = "ack" => job.kind \in Transmits))
  /\ config' = config
  /\ toHost' = toHost \/ toHost' = Append(toHost, RxFrame)
Answered ==
  /\ Busy /\ job' = None /\ config' = Applied(job.cmd)
  /\ \E ok \in BOOLEAN :
       /\ toHost' = Append(toHost, Answer(ok))
       /\ Acknowledged(job.cmd) /\ ok /\ config.cca => job.id \in received'
FirmwareStep ==
  Execute \/ ChannelBusy \/ TxDone \/ AckArrives \/ AckTimeout \/ Inbound \/ Forward

\* A step of the firmware continues its command or answers it, and leaves the driver alone.
LEMMA FirmwareSteps ==
  ASSUME LinkTypeOK, FirmwareStep
  PROVE  /\ UNCHANGED <<stack, stash, cache, script, up, issued, unsure, hit, taken, expects>>
         /\ received \subseteq received' /\ fifo' \in Nat
         /\ Continued \/ Answered
<1>1. Busy => job \in Jobs /\ job.kind = job.cmd.kind /\ job.cmd \in Commands
  BY DEF LinkTypeOK, Busy, Jobs
<1>2. ASSUME Busy, job.kind \in Transmits PROVE Applied(job.cmd) = config
  BY <1>1, <1>2 DEF Transmits, Applied
<1>3. CASE Execute
  <2>1. Answered
    <3>1. job.kind \notin Transmits /\ Busy
      BY <1>3 DEF Execute
    <3>2. ~Acknowledged(job.cmd)
      BY <1>1, <3>1 DEF Acknowledged
    <3> QED
      BY <1>3, <3>1, <3>2 DEF Execute, Answered
  <2> QED
    BY <1>3, <2>1 DEF Execute, driver, counts, history, LinkTypeOK
<1>4. ASSUME Busy, job.kind \in Transmits, UNCHANGED config, NEW ok \in BOOLEAN, TxStat(ok),
             Acknowledged(job.cmd) /\ ok /\ config.cca => job.id \in received'
      PROVE  Answered
  BY <1>2, <1>4 DEF TxStat, Answered
<1>5. CASE ChannelBusy
  <2>1. /\ UNCHANGED <<stack, stash, cache, script, up, issued, unsure, hit, taken, expects>>
        /\ UNCHANGED <<received, fifo, config>> /\ Busy /\ job.kind \in Transmits
    BY <1>5 DEF ChannelBusy, driver, counts, history
  <2>2. CASE TxStat(FALSE)
    BY <1>4, <2>1, <2>2 DEF LinkTypeOK
  <2>3. CASE job' = [job EXCEPT !.tries = @ + 1] /\ UNCHANGED toHost
    <3>1. job' \in Jobs /\ job'.cmd = job.cmd /\ job'.id = job.id /\ job'.kind = job.kind
      BY <1>1, <2>1, <2>3 DEF Jobs
    <3> QED
      BY <2>1, <2>3, <3>1 DEF Continued, LinkTypeOK
  <2> QED
    BY <1>5, <2>2, <2>3 DEF ChannelBusy
<1>6. CASE TxDone
  <2>1. /\ UNCHANGED <<stack, stash, cache, script, up, issued, unsure, hit, taken, expects>>
        /\ UNCHANGED <<fifo, config>> /\ Busy /\ job.kind \in Transmits /\ received \subseteq received'
    BY <1>6 DEF TxDone, driver, counts
  <2>2. CASE ~(config.cca /\ job.cmd.arg) /\ TxStat(TRUE)
    BY <1>4, <2>1, <2>2 DEF LinkTypeOK, Acknowledged
  <2>3. CASE job' = [job EXCEPT !.phase = "ack"] /\ UNCHANGED toHost
    <3>1. job' \in Jobs /\ job'.cmd = job.cmd /\ job'.id = job.id /\ job'.kind = job.kind
      BY <1>1, <2>1, <2>3 DEF Jobs
    <3> QED
      BY <2>1, <2>3, <3>1 DEF Continued, LinkTypeOK
  <2> QED
    BY <1>6, <2>2, <2>3 DEF TxDone
<1>7. CASE AckArrives
  <2>1. /\ UNCHANGED <<stack, stash, cache, script, up, issued, unsure, hit, taken, expects>>
        /\ UNCHANGED <<fifo, config, received>> /\ AwaitingAck
    BY <1>7 DEF AckArrives, driver, history, counts
  <2>2. Busy /\ job.kind \in Transmits
    BY <2>1 DEF AwaitingAck, LinkTypeOK
  <2>3. CASE IsOurAck /\ TxStat(TRUE)
    BY <1>4, <2>1, <2>2, <2>3 DEF LinkTypeOK, IsOurAck
  <2>4. CASE toHost' = Append(toHost, RxFrame) /\ UNCHANGED job
    BY <2>1, <2>4 DEF Continued, LinkTypeOK
  <2> QED
    BY <1>7, <2>3, <2>4 DEF AckArrives
<1>8. CASE AckTimeout
  <2>1. /\ UNCHANGED <<stack, stash, cache, script, up, issued, unsure, hit, taken, expects>>
        /\ UNCHANGED <<fifo, config, received>> /\ Busy /\ job.kind \in Transmits
    BY <1>8 DEF AckTimeout, driver, history, counts, AwaitingAck, LinkTypeOK
  <2>2. CASE TxStat(FALSE)
    BY <1>4, <2>1, <2>2 DEF LinkTypeOK
  <2>3. CASE job' = [job EXCEPT !.pass = @ + 1, !.tries = 0, !.phase = "run"] /\ UNCHANGED toHost
    <3> DEFINE passed == [job EXCEPT !.pass = job.pass + 1]
               untried == [passed EXCEPT !.tries = 0]
    <3>2. passed \in Jobs /\ passed.cmd = job.cmd /\ passed.id = job.id /\ passed.kind = job.kind
      BY <1>1, <2>1 DEF Jobs
    <3>3. untried \in Jobs /\ untried.cmd = job.cmd /\ untried.id = job.id /\ untried.kind = job.kind
      <4> HIDE DEF passed
      <4> QED
        BY <3>2 DEF Jobs
    <3>4. job' = [untried EXCEPT !.phase = "run"]
      BY <2>3
    <3>1. job' \in Jobs /\ job'.cmd = job.cmd /\ job'.id = job.id /\ job'.kind = job.kind
      <4> HIDE DEF untried
      <4> QED
        BY <3>3, <3>4 DEF Jobs
    <3> QED
      BY <2>1, <2>3, <3>1 DEF Continued, LinkTypeOK
  <2> QED
    BY <1>8, <2>2, <2>3 DEF AckTimeout
<1>9. CASE Inbound \/ Forward
  BY <1>9 DEF Inbound, Forward, RadioRx, Continued, driver, history, counts, LinkTypeOK
<1> QED
  BY <1>3, <1>5, <1>6, <1>7, <1>8, <1>9 DEF FirmwareStep

-----------------------------------------------------------------------------
(***************************************************************************)
(* A command reaches the module or it does not.                            *)
(***************************************************************************)
TakenUp(c) ==
  /\ ~Busy /\ job' \in Jobs /\ job'.cmd = c /\ job'.kind = c.kind /\ job'.id = issued + 1
  /\ job'.phase = "run" /\ toHost' = toHost /\ expects = 0 /\ expects' = 0 /\ hit' = hit
Missed ==
  /\ job' = job
  /\ toHost' = toHost \/ toHost' = Append(toHost, RxFrame)
  /\ hit' \/ (hit' = hit /\ ~Busy /\ expects > 0 /\ expects' = expects - 1)

\* A command sent to the module is taken up or missed.
LEMMA DeliverSteps ==
  ASSUME LinkTypeOK, NEW c \in Commands, Deliver(c, issued + 1)
  PROVE  /\ TakenUp(c) \/ Missed
         /\ fifo' \in Nat /\ hit' \in BOOLEAN
         /\ expects' \in Nat /\ (expects' <= FrameUnits \/ expects' <= 1)
         /\ Busy => expects' <= 1
<1>1. /\ issued \in Nat /\ fifo \in Nat /\ expects \in Nat /\ hit \in BOOLEAN
      /\ expects <= FrameUnits \/ expects <= 1
      /\ Busy => expects <= 1
  BY DEF LinkTypeOK
<1>2. CASE Busy /\ expects' \in {expects, 1} /\ hit' = TRUE /\ UNCHANGED <<job, fifo, toHost>>
  BY <1>1, <1>2 DEF Missed
<1>3. CASE /\ ~Busy /\ fifo > 0
           /\ RadioRx /\ toHost' = Append(toHost, RxFrame)
           /\ expects' \in IF expects > 0 THEN {expects, expects - 1} ELSE 0..FrameUnits
           /\ hit' = TRUE
           /\ UNCHANGED job
  <2>1. expects' \in Nat /\ (expects' <= FrameUnits \/ expects' <= 1)
    BY <1>1, <1>3, FlushAssumption
  <2> QED
    BY <1>1, <1>3, <2>1 DEF Missed, RadioRx
<1>4. CASE ~Busy /\ expects > 0 /\ expects' = expects - 1 /\ UNCHANGED <<job, fifo, toHost, hit>>
  <2>1. expects' \in Nat /\ (expects' <= FrameUnits \/ expects' <= 1)
    BY <1>1, <1>4, FlushAssumption
  <2> QED
    BY <1>1, <1>4, <2>1 DEF Missed
<1>5. CASE /\ ~Busy /\ expects = 0
           /\ job' = [kind |-> c.kind, cmd |-> c, id |-> issued + 1, pass |-> 0, tries |-> 0,
                      phase |-> "run"]
           /\ UNCHANGED <<expects, fifo, toHost, hit>>
  <2>1. /\ job' \in Jobs /\ job'.cmd = c /\ job'.kind = c.kind /\ job'.id = issued + 1
        /\ job'.phase = "run"
    BY <1>1, <1>5 DEF Jobs
  <2> QED
    BY <1>1, <1>5, <2>1 DEF TakenUp
<1> QED
  BY <1>2, <1>3, <1>4, <1>5 DEF Deliver

(***************************************************************************)
(* A new wait: on top of the others, or in the place of the topmost.  The  *)
(* waits below keep all but their quiet.                                   *)
(***************************************************************************)
Launched(n, c) ==
  /\ stack' \in Seq(Activations) /\ n \in Nat /\ DOMAIN stack' = 1 .. n + 1 /\ 1 .. n \subseteq DOMAIN stack
  /\ stack'[n + 1] \in WaitRecords /\ stack'[n + 1].cmd = c /\ stack'[n + 1].id = issued + 1
  /\ \A i \in 1 .. n :
       /\ IsWait(i)' <=> IsWait(i)
       /\ IsWait(i) => /\ stack'[i].id = stack[i].id /\ stack'[i].cmd = stack[i].cmd
                       /\ stack'[i].left = stack[i].left /\ stack'[i].begin = stack[i].begin
  /\ issued' = issued + 1 /\ stash' = None
  /\ TakenUp(c) \/ Missed
  /\ UNCHANGED <<script, config, received, taken, up>>

\* What a new wait does to the stack; it is quiet only when nothing else is under way.
LEMMA StartSteps ==
  ASSUME LinkTypeOK, NEW c \in Commands, NEW b \in BOOLEAN, StartWait(c, b),
         UNCHANGED <<script, config, received, taken, up>>
  PROVE  /\ Launched(Len(stack), c) /\ Len(stack) \in Nat /\ DOMAIN stack = 1 .. Len(stack)
         /\ \A i \in DOMAIN stack : IsWait(i) => stack'[i].quiet = FALSE
         /\ stack'[Len(stack) + 1].begin = b
         /\ stack'[Len(stack) + 1].quiet => Quiet
         /\ b /\ c = Ping => stack'[Len(stack) + 1].left = 2
         /\ cache' = CacheBefore(c)
<1> DEFINE w == Wait(c, issued + 1, Attempts(c, b), b, Quiet)
<1>1. issued \in Nat /\ stack \in Seq(Activations)
  BY DEF LinkTypeOK
<1>2. DOMAIN stack = 1 .. Len(stack) /\ Len(stack) \in Nat /\ \A i \in DOMAIN stack : stack[i] \in Activations
  BY <1>1, LenProperties, ElementOfSeq
<1>3. /\ w \in WaitRecords /\ w.cmd = c /\ w.id = issued + 1 /\ w.begin = b /\ w.quiet = Quiet
      /\ b /\ c = Ping => w.left = 2
  <2>1. Quiet \in BOOLEAN
    BY DEF Quiet
  <2>2. Attempts(c, b) \in Nat /\ (b /\ c = Ping => Attempts(c, b) = 2)
    BY DEF Attempts
  <2> HIDE DEF Quiet, Attempts
  <2> QED
    BY <1>1, <2>1, <2>2 DEF Wait, WaitRecords
<1>4. ASSUME NEW i \in DOMAIN stack, IsWait(i)
      PROVE  LET d == [stack[i] EXCEPT !.quiet = FALSE]
             IN  /\ d \in WaitRecords /\ d.kind = "wait" /\ d.id = stack[i].id /\ d.cmd = stack[i].cmd
                 /\ d.left = stack[i].left /\ d.begin = stack[i].begin /\ d.quiet = FALSE
  <2>1. stack[i] \in WaitRecords
    BY <1>2, <1>4, Shapes DEF IsWait
  <2> QED
    BY <2>1 DEF WaitRecords
<1>5. \A i \in DOMAIN stack :
        Disturbed[i] = IF IsWait(i) THEN [stack[i] EXCEPT !.quiet = FALSE] ELSE stack[i]
  BY DEF Disturbed, IsWait
<1>6. Disturbed \in [1 .. Len(stack) -> Activations]
  <2>1. \A i \in DOMAIN stack : Disturbed[i] \in Activations
    BY <1>2, <1>4, <1>5 DEF Activations
  <2> QED
    BY <1>2, <2>1 DEF Disturbed
<1>7. Disturbed \in Seq(Activations) /\ Len(Disturbed) = Len(stack)
  <2>1. Disturbed \in Seq(Activations)
    BY <1>2, <1>6, SeqDef
  <2> QED
    BY <1>2, <1>6, <2>1, LenProperties
<1>8. w \in Activations
  BY <1>3 DEF Activations
<1>9. /\ stack' = Append(Disturbed, w) /\ stash' = None /\ cache' = CacheBefore(c)
      /\ issued' = issued + 1 /\ Deliver(c, issued + 1)
  BY DEF StartWait
<1>10. TakenUp(c) \/ Missed
  BY <1>9, DeliverSteps
<1> HIDE DEF w
<1>11. /\ stack' \in Seq(Activations) /\ DOMAIN stack' = 1 .. Len(stack) + 1
       /\ \A i \in DOMAIN stack : stack'[i] = Disturbed[i]
       /\ stack'[Len(stack) + 1] = w
  BY <1>2, <1>7, <1>8, <1>9, Appended
<1>12. ASSUME NEW i \in DOMAIN stack
       PROVE  /\ IsWait(i)' <=> IsWait(i)
              /\ IsWait(i) => /\ stack'[i].id = stack[i].id /\ stack'[i].cmd = stack[i].cmd
                              /\ stack'[i].left = stack[i].left /\ stack'[i].begin = stack[i].begin
                              /\ stack'[i].quiet = FALSE
  <2> DEFINE d == [stack[i] EXCEPT !.quiet = FALSE]
  <2>1. CASE IsWait(i)
    <3>1. /\ d.kind = "wait" /\ d.id = stack[i].id /\ d.cmd = stack[i].cmd
          /\ d.left = stack[i].left /\ d.begin = stack[i].begin /\ d.quiet = FALSE
      BY <1>4, <2>1
    <3>2. stack'[i] = d
      BY <1>5, <1>11, <2>1
    <3> HIDE DEF d
    <3> QED
      BY <2>1, <3>1, <3>2 DEF IsWait
  <2>2. CASE ~IsWait(i)
    BY <1>5, <1>11, <2>2 DEF IsWait
  <2> QED
    BY <2>1, <2>2
<1>13. Launched(Len(stack), c)
  BY <1>2, <1>3, <1>9, <1>10, <1>11, <1>12 DEF Launched
<1> QED
  BY <1>2, <1>3, <1>9, <1>11, <1>12, <1>13

(***************************************************************************)
(* feed(): the frame is given to a callback, ends the topmost wait, or is  *)
(* kept for one below; and the return of the callback.                     *)
(***************************************************************************)
Finished(n, r) ==
  /\ n \in DOMAIN stack /\ IsWait(n) /\ stack[n] \in WaitRecords
  /\ \A i \in DOMAIN stack : i > n => ~IsWait(i)
  /\ r \in Answers /\ r.type = Response(stack[n].cmd)
  /\ stack' \in Seq(Activations) /\ DOMAIN stack' = 1 .. n - 1
  /\ \A i \in 1 .. n - 1 : i \in DOMAIN stack /\ stack'[i] = stack[i]
  /\ stash' = None /\ cache' = CacheAfter(stack[n].cmd)
  /\ script' = IF stack[n].begin THEN Tail(script) ELSE script
  /\ taken' = [cmd |-> stack[n].cmd, id |-> stack[n].id, quiet |-> stack[n].quiet,
               from |-> r.id, ok |-> r.ok, cca |-> r.cca]
  /\ \/ toHost # <<>> /\ r = Head(toHost) /\ toHost' = Tail(toHost)
     \/ r = stash /\ toHost' = toHost
Opened ==
  /\ toHost # <<>> /\ Head(toHost).type = "RX_FRAME" /\ toHost' = Tail(toHost) /\ ~InCallback
  /\ stack' = Append(stack, Callback) /\ UNCHANGED <<stash, cache, script, taken>>
Stashed ==
  /\ toHost # <<>> /\ Head(toHost) \in Answers /\ toHost' = Tail(toHost) /\ stash' = Head(toHost)
  /\ ~InCallback /\ (InWait => Head(toHost).type # Response(Top.cmd))
  /\ UNCHANGED <<stack, cache, script, taken>>
Closed ==
  /\ InCallback /\ stack' = Front(stack)
  /\ UNCHANGED <<stash, cache, script, taken, toHost>>

\* The driver reads one message: it opens a callback, keeps an answer, closes a callback or ends a wait.
LEMMA FeedSteps ==
  ASSUME LinkTypeOK, Feed \/ Return
  PROVE  /\ UNCHANGED <<up, config, job, expects, fifo, issued, received, unsure, hit>>
         /\ Opened \/ Stashed \/ Closed \/ \E n \in DOMAIN stack, r \in Answers : Finished(n, r)
<1>1. /\ stack \in Seq(Activations) /\ toHost \in Seq(Messages) /\ stash \in Answers \cup {None}
  BY DEF LinkTypeOK
<1>2. UNCHANGED <<up, config, job, expects, fifo, issued, received, unsure, hit>>
  BY DEF Feed, Return, firmware, counts
<1>3. ASSUME Feed
      PROVE  Opened \/ Stashed \/ \E n \in DOMAIN stack, r \in Answers : Finished(n, r)
  <2> DEFINE r == Head(toHost)
  <2>1. toHost # <<>> /\ r \in Messages /\ toHost' = Tail(toHost) /\ ~InCallback
    BY <1>1, <1>3, WithoutFirst DEF Feed
  <2>2. CASE r.type = "RX_FRAME" /\ stack' = Append(stack, Callback)
             /\ UNCHANGED <<stash, cache, script, taken>>
    BY <2>1, <2>2 DEF Opened
  <2>3. CASE r.type # "RX_FRAME" /\ InWait /\ Matches(Top, r) /\ Complete(Front(stack), Top, r)
    <3>1. r \in Answers
      BY <2>1, <2>3, Shapes
    <3>2. stack # <<>> /\ Top = stack[Len(stack)] /\ IsWait(Len(stack)) /\ Len(stack) \in DOMAIN stack
      BY <1>1, <2>3, WithoutLast DEF InWait, Top, IsWait
    <3>3. stack[Len(stack)] \in WaitRecords
      BY <1>1, <3>2, Shapes, ElementOfSeq, LenProperties DEF IsWait
    <3>4. Finished(Len(stack), r)
      <4> DEFINE n == Len(stack)
      <4>1. /\ Front(stack) \in Seq(Activations) /\ DOMAIN Front(stack) = 1 .. n - 1
            /\ \A i \in 1 .. n - 1 : i \in DOMAIN stack /\ Front(stack)[i] = stack[i]
            /\ \A i \in DOMAIN stack : ~(i > n)
        BY <1>1, <3>2, WithoutLast
      <4>2. Complete(Front(stack), stack[n], r) /\ r.type = Response(stack[n].cmd)
        BY <2>3, <3>2 DEF Matches
      <4> HIDE DEF n, r
      <4> QED
        BY <2>1, <3>1, <3>2, <3>3, <4>1, <4>2 DEF Finished, Complete, n, r
    <3> QED
      BY <3>1, <3>2, <3>4
  <2>4. CASE r.type # "RX_FRAME" /\ ~(InWait /\ Matches(Top, r)) /\ stash' = r
             /\ UNCHANGED <<stack, cache, script, taken>>
    <3>1. r \in Answers
      BY <2>1, <2>4, Shapes
    <3> QED
      BY <2>1, <2>4, <3>1, Shapes DEF Stashed, Matches
  <2> QED
    BY <1>3, <2>2, <2>3, <2>4 DEF Feed
<1>4. ASSUME Return
      PROVE  Closed \/ \E n \in DOMAIN stack, r \in Answers : Finished(n, r)
  <2> DEFINE below == Front(stack)
  <2>1. InCallback /\ stack # <<>> /\ toHost' = toHost
    BY <1>4 DEF Return, InCallback
  <2>2. CASE stack' = below /\ UNCHANGED <<stash, cache, script, taken>>
    BY <2>1, <2>2 DEF Closed
  <2>3. CASE /\ below # <<>> /\ Matches(Last(below), stash)
             /\ Complete(Front(below), Last(below), stash)
    <3>1. below \in Seq(Activations) /\ Len(below) = Len(stack) - 1 /\ Len(stack) \in Nat \ {0}
          /\ DOMAIN stack = 1 .. Len(stack) /\ \A i \in DOMAIN below : i \in DOMAIN stack /\ below[i] = stack[i]
      BY <1>1, <2>1, WithoutLast
    <3>2. /\ Front(below) \in Seq(Activations) /\ Len(below) \in Nat \ {0}
          /\ DOMAIN Front(below) = 1 .. Len(below) - 1 /\ DOMAIN below = 1 .. Len(below)
          /\ \A i \in DOMAIN Front(below) : i \in DOMAIN below /\ Front(below)[i] = below[i]
          /\ Last(below) = below[Len(below)] /\ Last(below) \in Activations
      BY <2>3, <3>1, WithoutLast
    <3> DEFINE n == Len(below)
    <3>3. n \in DOMAIN stack /\ stack[n] = Last(below) /\ stack[n] \in Activations
      BY SMTT(30), <3>1, <3>2
    <3>4. stash \in Answers /\ stash.type = Response(stack[n].cmd)
      BY <1>1, <2>3, <3>3 DEF Matches
    <3>5. \A i \in DOMAIN stack : i > n => i = Len(stack)
      BY <3>1, <3>2
    <3>6. ~IsWait(Len(stack))
      BY <2>1 DEF InCallback, IsWait, Top, Last
    <3>7. \A i \in 1 .. n - 1 : i \in DOMAIN stack /\ Front(below)[i] = stack[i]
      BY <3>1, <3>2
    <3>8. IsWait(n) /\ stack[n] \in WaitRecords
      <4>1. n + 1 \in DOMAIN stack /\ n + 1 = Len(stack)
        BY <3>1, <3>2
      <4>2. IsWait(n)
        BY <3>3, <3>6, <4>1 DEF LinkTypeOK
      <4> QED
        BY <3>3, <4>2, Shapes DEF IsWait
    <3> HIDE DEF below, n
    <3>9. Finished(n, stash)
      BY <2>1, <2>3, <3>2, <3>3, <3>4, <3>5, <3>6, <3>7, <3>8 DEF Finished, Complete, n
    <3> QED
      BY <3>3, <3>4, <3>9
  <2> QED
    BY <1>4, <2>2, <2>3 DEF Return
<1> QED
  BY <1>2, <1>3, <1>4

(***************************************************************************)
(* A wait that ends without a response.                                    *)
(***************************************************************************)
Retried(n) ==
  /\ stack[n].left > 0 /\ Launched(n - 1, stack[n].cmd)
  /\ \A i \in 1 .. n - 1 : stack'[i] = stack[i]
  /\ stack'[n].quiet = FALSE /\ stack'[n].begin = stack[n].begin
  /\ stack'[n].left = stack[n].left - 1
GaveUp(n) ==
  /\ stack[n].left = 0 /\ stack' = Front(stack)
  /\ script' = IF ~stack[n].begin THEN script
               ELSE IF stack[n].cmd.kind = "promisc" THEN Tail(script) ELSE <<>>
  /\ up' = (up /\ ~(stack[n].begin /\ stack[n].cmd.kind # "promisc"))
  /\ UNCHANGED <<stash, issued, job, expects, fifo, toHost, hit>>

\* A wait that ran out of time is the last one, and sends its command again or gives up.
LEMMA TimeOutSteps ==
  ASSUME LinkTypeOK, TimeOut, NEW n, n = Len(stack)
  PROVE  /\ n \in DOMAIN stack /\ IsWait(n) /\ stack[n] \in WaitRecords /\ stack # <<>>
         /\ toHost = <<>> /\ ~(Busy /\ job.id = stack[n].id /\ job.kind \notin Slow)
         /\ unsure' = (unsure \/ Response(stack[n].cmd) \in Settings)
         /\ UNCHANGED <<cache, config, received, taken>>
         /\ Retried(n) \/ GaveUp(n)
<1>1. stack # <<>> /\ Top = stack[n] /\ stack \in Seq(Activations) /\ n \in DOMAIN stack /\ IsWait(n)
  <2>1. stack \in Seq(Activations)
    BY DEF LinkTypeOK
  <2>2. stack # <<>> /\ Top.kind = "wait"
    BY Zenon DEF TimeOut, InWait
  <2>3. Top = stack[Len(stack)] /\ Len(stack) \in DOMAIN stack
    <3>1. stack # <<>>
      BY <2>2
    <3>2. /\ Last(stack) = stack[Len(stack)] /\ Len(stack) \in Nat \ {0}
          /\ DOMAIN stack = 1 .. Len(stack)
      BY <2>1, <3>1, WithoutLast
    <3> QED
      BY <3>2 DEF Top
  <2> QED
    BY <2>1, <2>2, <2>3 DEF IsWait
<1>2. stack[n] \in WaitRecords
  BY <1>1, Shapes, ElementOfSeq, LenProperties DEF IsWait
<1>3. /\ toHost = <<>> /\ ~(Busy /\ job.id = stack[n].id /\ job.kind \notin Slow)
      /\ unsure' = (unsure \/ Response(stack[n].cmd) \in Settings)
      /\ UNCHANGED <<cache, config, received, taken>>
  BY <1>1 DEF TimeOut, Overdue, Settings
<1>4. CASE /\ stack[n].left > 0
           /\ stack' = Append(Front(stack), [stack[n] EXCEPT !.id = issued + 1, !.left = stack[n].left - 1,
                                                             !.quiet = FALSE])
           /\ stash' = None /\ issued' = issued + 1
           /\ Deliver(stack[n].cmd, issued + 1)
           /\ UNCHANGED <<script, up>>
  <2> DEFINE w == [stack[n] EXCEPT !.id = issued + 1, !.left = stack[n].left - 1, !.quiet = FALSE]
  <2>1. /\ w \in WaitRecords /\ w.cmd = stack[n].cmd /\ w.id = issued + 1 /\ w.quiet = FALSE
        /\ w.begin = stack[n].begin /\ w.left = stack[n].left - 1
    <3>1. issued \in Nat
      BY DEF LinkTypeOK
    <3>2. stack[n].left - 1 \in Nat
      BY <1>2, <1>4 DEF WaitRecords
    <3> DEFINE fresh == [stack[n] EXCEPT !.id = issued + 1]
               fewer == [fresh EXCEPT !.left = stack[n].left - 1]
    <3>3. /\ fresh \in WaitRecords /\ fresh.cmd = stack[n].cmd /\ fresh.id = issued + 1
          /\ fresh.begin = stack[n].begin
      BY <1>2, <3>1 DEF WaitRecords
    <3>4. /\ fewer \in WaitRecords /\ fewer.cmd = stack[n].cmd /\ fewer.id = issued + 1
          /\ fewer.begin = stack[n].begin /\ fewer.left = stack[n].left - 1
      <4> HIDE DEF fresh
      <4> QED
        BY <3>2, <3>3 DEF WaitRecords
    <3>5. w = [fewer EXCEPT !.quiet = FALSE]
      OBVIOUS
    <3> HIDE DEF fewer, w
    <3> QED
      BY <3>4, <3>5 DEF WaitRecords
  <2>2. /\ Front(stack) \in Seq(Activations) /\ n \in Nat \ {0} /\ DOMAIN Front(stack) = 1 .. n - 1
        /\ Len(Front(stack)) = n - 1 /\ DOMAIN stack = 1 .. n
        /\ \A i \in 1 .. n - 1 : i \in DOMAIN stack /\ Front(stack)[i] = stack[i]
    BY <1>1, WithoutLast
  <2>3. w \in Activations
    BY <2>1 DEF Activations
  <2>4. stack' = Append(Front(stack), w)
    BY <1>4
  <2>5. TakenUp(stack[n].cmd) \/ Missed
    BY <1>2, <1>4, DeliverSteps DEF WaitRecords
  <2> HIDE DEF w
  <2>6. /\ stack' \in Seq(Activations) /\ DOMAIN stack' = 1 .. n /\ stack'[n] = w
        /\ \A i \in 1 .. n - 1 : stack'[i] = stack[i]
    BY <2>2, <2>3, <2>4, Appended
  <2>7. \A i \in 1 .. n - 1 : IsWait(i)' <=> IsWait(i)
    BY <2>6 DEF IsWait
  <2>8. Launched(n - 1, stack[n].cmd)
    BY <1>3, <1>4, <2>1, <2>2, <2>5, <2>6, <2>7 DEF Launched
  <2>9. Retried(n)
    BY <1>4, <2>1, <2>6, <2>8 DEF Retried
  <2> QED
    BY <1>1, <1>2, <1>3, <2>9
<1>5. CASE stack[n].left = 0 /\ GaveUp(n)
  BY <1>1, <1>2, <1>3, <1>5
<1> QED
  BY <1>1, <1>4, <1>5 DEF TimeOut, GaveUp

-----------------------------------------------------------------------------
(***************************************************************************)
(* Types are kept.                                                         *)
(***************************************************************************)
LEMMA ToHostTyped ==
  ASSUME LinkTypeOK, NEW m \in Messages
  PROVE  /\ toHost \in Seq(Messages) /\ Append(toHost, m) \in Seq(Messages)
         /\ toHost # <<>> => Tail(toHost) \in Seq(Messages) /\ Head(toHost) \in Messages
BY Appended, WithoutFirst DEF LinkTypeOK

\* The answer to the command in hand has its type and its identifier.
LEMMA AnswerTyped ==
  ASSUME LinkTypeOK, Busy, NEW ok \in BOOLEAN
  PROVE  /\ Answer(ok) \in Answers /\ Answer(ok).type = Response(job.cmd) /\ Answer(ok).id = job.id
         /\ Answer(ok).ok = ok /\ Answer(ok).cca = config.cca
         /\ Answer(ok).type \in AnswerTypes /\ Answer(ok) \in Messages
         /\ job \in Jobs /\ job.cmd \in Commands /\ job.kind = job.cmd.kind
<1>1. job \in Jobs /\ job.cmd \in Commands /\ job.id \in Nat /\ config.cca \in BOOLEAN /\ job.kind = job.cmd.kind
  BY DEF LinkTypeOK, Busy, Jobs
<1>2. Response(job.cmd) \in AnswerTypes
  BY <1>1, CommandTyped
<1> QED
  BY <1>1, <1>2 DEF Answer, Answers, Messages

\* Sending a command keeps the types.
LEMMA LaunchTyped ==
  ASSUME LinkTypeOK, NEW c \in Commands, NEW n, Launched(n, c), Deliver(c, issued + 1),
         unsure' \in BOOLEAN
  PROVE  LinkTypeOK'
<1>1. /\ fifo' \in Nat /\ hit' \in BOOLEAN /\ issued' \in Nat
      /\ expects' \in Nat /\ (expects' <= FrameUnits \/ expects' <= 1)
  BY DeliverSteps DEF LinkTypeOK, Launched
<1>2. stack' \in Seq(Activations) /\ (\A i \in DOMAIN stack' : IsWait(i)' => stack'[i].id <= issued')
  <2> SUFFICES ASSUME NEW i \in DOMAIN stack', IsWait(i)' PROVE stack'[i].id <= issued'
    BY DEF Launched
  <2>1. CASE i = n + 1
    BY <2>1 DEF Launched, LinkTypeOK
  <2>2. CASE i \in 1 .. n
    <3>1. IsWait(i) /\ i \in DOMAIN stack /\ stack'[i].id = stack[i].id
      BY <2>2 DEF Launched
    <3>2. stack[i] \in Activations /\ stack[i].kind = "wait"
      BY <3>1, ElementOfSeq, LenProperties DEF LinkTypeOK, IsWait
    <3>3. stack[i].id \in Nat /\ stack[i].id <= issued /\ issued \in Nat
      BY <3>1, <3>2, Shapes DEF LinkTypeOK, WaitRecords
    <3> QED
      BY <3>1, <3>3 DEF Launched
  <2> QED
    BY <2>1, <2>2 DEF Launched
<1>3. \A i, j \in DOMAIN stack' : j = i + 1 /\ ~IsWait(j)' => IsWait(i)'
  <2> SUFFICES ASSUME NEW i \in DOMAIN stack', NEW j \in DOMAIN stack', j = i + 1, ~IsWait(j)'
               PROVE  IsWait(i)'
    OBVIOUS
  <2>1. j # n + 1
    BY DEF Launched, WaitRecords, IsWait
  <2>2. i \in 1 .. n /\ j \in 1 .. n
    BY <2>1 DEF Launched
  <2> QED
    BY <2>2 DEF Launched, LinkTypeOK
<1>4. /\ job' \in Jobs \cup {None} /\ (Busy' => job'.kind = job'.cmd.kind /\ job'.id <= issued')
      /\ Busy' /\ job'.phase = "ack" => job'.kind \in Transmits
      /\ Busy' => expects' <= 1
  <2>1. CASE TakenUp(c)
    BY <2>1, <1>1 DEF TakenUp, Launched, LinkTypeOK, Busy
  <2>2. CASE Missed
    <3>1. job' = job /\ issued' = issued + 1 /\ issued \in Nat /\ job \in Jobs \cup {None}
          /\ (Busy => job.kind = job.cmd.kind /\ job.id <= issued)
          /\ (Busy /\ job.phase = "ack" => job.kind \in Transmits)
      BY <2>2 DEF Missed, Launched, LinkTypeOK
    <3>2. Busy => job.id <= issued + 1
      BY <3>1 DEF Jobs, Busy
    <3>3. Busy => expects' <= 1
      BY DeliverSteps
    <3> QED
      BY <3>1, <3>2, <3>3 DEF Busy
  <2> QED
    BY <2>1, <2>2 DEF Launched
<1>5. toHost' \in Seq(Messages) /\ stash' \in Answers \cup {None}
  BY ToHostTyped, Shapes DEF Launched, TakenUp, Missed
<1>6. /\ script' \in Scripts /\ up' \in BOOLEAN
      /\ DOMAIN config' = DOMAIN ResetConfig /\ config'.cca \in BOOLEAN /\ config'.filter \in BOOLEAN
  BY DEF Launched, LinkTypeOK
<1> QED
  BY <1>1, <1>2, <1>3, <1>4, <1>5, <1>6 DEF LinkTypeOK

\* The rest of a list of three.
LEMMA TailOfThree ==
  ASSUME NEW a, NEW b, NEW c
  PROVE  Tail(<<a, b, c>>) = <<b, c>>
<1> DEFINE s == <<a, b, c>>
<1>1. s \in Seq({a, b, c}) /\ Len(s) = 3 /\ s[2] = b /\ s[3] = c /\ s # <<>>
  OBVIOUS
<1>2. <<b, c>> \in Seq({a, b, c}) /\ Len(<<b, c>>) = 2 /\ <<b, c>>[1] = b /\ <<b, c>>[2] = c
  OBVIOUS
<1>3. Tail(s) \in Seq({a, b, c}) /\ Len(Tail(s)) = 2 /\ \A i \in 1 .. 2 : Tail(s)[i] = s[i + 1]
  <2> HIDE DEF s
  <2> QED
    BY <1>1, HeadTailProperties
<1>4. Tail(s)[1] = b /\ Tail(s)[2] = c
  <2> HIDE DEF s
  <2> QED
    BY <1>1, <1>3, SMTT(30)
<1>5. ASSUME NEW i \in 1 .. 2 PROVE Tail(s)[i] = <<b, c>>[i]
  <2>1. i = 1 \/ i = 2
    OBVIOUS
  <2> HIDE DEF s
  <2> QED
    BY <1>2, <1>4, <2>1
<1>6. Tail(s) = <<b, c>>
  <2> DEFINE t == <<b, c>>
             u == Tail(s)
  <2>1. t \in Seq({a, b, c}) /\ u \in Seq({a, b, c}) /\ Len(u) = Len(t) /\ Len(u) = 2
    BY <1>2, <1>3
  <2>2. \A i \in 1 .. Len(u) : u[i] = t[i]
    BY <1>5, <2>1
  <2> HIDE DEF s, t, u
  <2>3. u = t
    BY <2>1, <2>2, SeqEqual
  <2> QED
    BY <2>3 DEF t, u
<1> QED
  BY <1>6

\* What is left of begin() after a command.
LEMMA ScriptTyped ==
  ASSUME script \in Scripts, script # <<>>
  PROVE  /\ Tail(script) \in Scripts /\ Head(script) \in Commands
         /\ Head(script) \in {Ping, SetPromiscuous(TRUE), SetChannel(StartChannel)}
         /\ Head(script) = SetChannel(StartChannel) => Tail(script) = <<>>
         /\ Head(script) # SetChannel(StartChannel) => Tail(script) # <<>>
         /\ Tail(script) = <<>> \/ Head(Tail(script)) # Ping
<1>1. /\ SetChannel(StartChannel) # Ping /\ SetPromiscuous(TRUE) # Ping
      /\ SetPromiscuous(TRUE) # SetChannel(StartChannel)
  BY DEF SetChannel, SetPromiscuous, Ping
<1>2. CASE script = <<SetChannel(StartChannel)>>
  <2>1. Head(script) = SetChannel(StartChannel) /\ Tail(script) = <<>>
    BY <1>2
  <2> QED
    BY <1>1, <2>1 DEF Scripts, Commands
<1>3. CASE script = <<SetPromiscuous(TRUE), SetChannel(StartChannel)>>
  <2>1. /\ Head(script) = SetPromiscuous(TRUE) /\ Tail(script) = <<SetChannel(StartChannel)>>
        /\ Head(Tail(script)) = SetChannel(StartChannel) /\ Tail(script) # <<>>
    BY <1>3
  <2> QED
    BY <1>1, <2>1 DEF Scripts, Commands
<1>4. CASE script = <<Ping, SetPromiscuous(TRUE), SetChannel(StartChannel)>>
  <2>1. /\ Head(script) = Ping /\ Tail(script) = <<SetPromiscuous(TRUE), SetChannel(StartChannel)>>
        /\ Head(Tail(script)) = SetPromiscuous(TRUE) /\ Tail(script) # <<>>
    <3>1. Head(script) = Ping
      BY <1>4
    <3>2. Tail(script) = <<SetPromiscuous(TRUE), SetChannel(StartChannel)>>
      BY <1>4, TailOfThree
    <3>3. ASSUME NEW t, t = <<SetPromiscuous(TRUE), SetChannel(StartChannel)>>
          PROVE  Head(t) = SetPromiscuous(TRUE) /\ t # <<>>
      BY <3>3
    <3> QED
      BY <3>1, <3>2, <3>3
  <2> QED
    BY <1>1, <2>1 DEF Scripts, Commands
<1> QED
  BY <1>2, <1>3, <1>4 DEF Scripts

\* Ending a wait or a callback keeps the types.
LEMMA PoppedTyped ==
  ASSUME LinkTypeOK, NEW n \in Nat, stack' \in Seq(Activations), DOMAIN stack' = 1 .. n,
         \A i \in 1 .. n : i \in DOMAIN stack /\ stack'[i] = stack[i],
         stash' \in Answers \cup {None}, toHost' \in Seq(Messages), script' \in Scripts, up' \in BOOLEAN,
         unsure' \in BOOLEAN, UNCHANGED <<config, job, expects, fifo, issued, hit>>
  PROVE  LinkTypeOK'
<1>1. \A i \in DOMAIN stack' : IsWait(i)' => stack'[i].id <= issued'
  BY DEF LinkTypeOK, IsWait
<1>2. \A i, j \in DOMAIN stack' : j = i + 1 /\ ~IsWait(j)' => IsWait(i)'
  BY DEF LinkTypeOK, IsWait
<1>3. Busy' = Busy
  BY DEF Busy
<1> QED
  BY <1>1, <1>2, <1>3 DEF LinkTypeOK

\* Reading a message keeps the types.
LEMMA FeedTyped ==
  ASSUME LinkTypeOK, Feed \/ Return
  PROVE  LinkTypeOK'
<1>1. /\ stack \in Seq(Activations) /\ DOMAIN stack = 1 .. Len(stack) /\ Len(stack) \in Nat
      /\ stash \in Answers \cup {None} /\ toHost \in Seq(Messages) /\ script \in Scripts
      /\ up \in BOOLEAN /\ unsure \in BOOLEAN
  BY LenProperties DEF LinkTypeOK
<1>2. UNCHANGED <<up, config, job, expects, fifo, issued, received, unsure, hit>>
  BY FeedSteps
<1>3. toHost # <<>> => Tail(toHost) \in Seq(Messages) /\ Head(toHost) \in Messages
  BY <1>1, WithoutFirst
<1>4. CASE Opened
  <2>1. /\ stack' \in Seq(Activations) /\ DOMAIN stack' = 1 .. Len(stack) + 1
        /\ \A i \in 1 .. Len(stack) : stack'[i] = stack[i]
        /\ stack'[Len(stack) + 1] = Callback
    BY <1>1, <1>4, Appended, Shapes DEF Opened
  <2>2. \A i \in DOMAIN stack' : IsWait(i)' => i \in DOMAIN stack /\ stack'[i] = stack[i]
    BY <1>1, <2>1, Shapes DEF IsWait
  <2>3. \A i \in DOMAIN stack' : IsWait(i)' => stack'[i].id <= issued'
    BY <1>2, <2>2 DEF LinkTypeOK, IsWait
  <2>4. \A i, j \in DOMAIN stack' : j = i + 1 /\ ~IsWait(j)' => IsWait(i)'
    <3> SUFFICES ASSUME NEW i \in DOMAIN stack', NEW j \in DOMAIN stack', j = i + 1, ~IsWait(j)'
                 PROVE  IsWait(i)'
      OBVIOUS
    <3>1. CASE j \in DOMAIN stack
      BY <1>1, <2>1, <3>1 DEF LinkTypeOK, IsWait
    <3>2. CASE j = Len(stack) + 1
      <4>1. i = Len(stack) /\ i \in DOMAIN stack
        BY <1>1, <2>1, <3>2
      <4>2. stack # <<>> /\ Top = stack[i]
        BY <1>1, <4>1, EmptySeq DEF Top, Last
      <4>3. Top.kind # "callback" /\ stack[i] \in Activations
        BY <1>1, <1>4, <4>1, <4>2, ElementOfSeq DEF Opened, InCallback
      <4>4. IsWait(i)
        BY <4>2, <4>3 DEF Activations, WaitRecords, Callback, IsWait
      <4> QED
        BY <1>1, <2>1, <4>1, <4>4 DEF IsWait
    <3> QED
      BY <1>1, <2>1, <3>1, <3>2
  <2>5. Busy' = Busy
    BY <1>2 DEF Busy
  <2> QED
    BY <1>2, <1>3, <1>4, <2>1, <2>3, <2>4, <2>5 DEF LinkTypeOK, Opened
<1>5. CASE Stashed
  BY <1>1, <1>2, <1>3, <1>5, PoppedTyped DEF Stashed
<1>6. CASE Closed
  <2>1. /\ stack # <<>> /\ stack' \in Seq(Activations) /\ DOMAIN stack' = 1 .. Len(stack) - 1
        /\ Len(stack) - 1 \in Nat
        /\ \A i \in 1 .. Len(stack) - 1 : i \in DOMAIN stack /\ stack'[i] = stack[i]
    <3>1. stack # <<>> /\ stack' = Front(stack)
      BY <1>6 DEF Closed, InCallback
    <3> QED
      BY <1>1, <3>1, WithoutLast
  <2> QED
    BY <1>1, <1>2, <1>6, <2>1, PoppedTyped DEF Closed
<1>7. ASSUME NEW n \in DOMAIN stack, NEW r \in Answers, Finished(n, r)
      PROVE  LinkTypeOK'
  <2>1. n - 1 \in Nat /\ toHost' \in Seq(Messages)
    <3>1. n - 1 \in Nat
      BY <1>1
    <3>2. toHost' = toHost \/ (toHost # <<>> /\ toHost' = Tail(toHost))
      BY <1>7 DEF Finished
    <3> QED
      BY <1>1, <1>3, <3>1, <3>2
  <2>2. script' \in Scripts
    <3>1. CASE script = <<>>
      <4>1. Tail(script) = script
        BY <3>1
      <4> QED
        BY <1>1, <1>7, <4>1 DEF Finished
    <3>2. CASE script # <<>>
      BY <1>1, <1>7, <3>2, ScriptTyped DEF Finished
    <3> QED
      BY <3>1, <3>2
  <2> QED
    BY <1>1, <1>2, <1>7, <2>1, <2>2, PoppedTyped DEF Finished
<1> QED
  BY <1>4, <1>5, <1>6, <1>7, FeedSteps

\* A call of the application starts a wait.
LEMMA CallStarts ==
  ASSUME LinkTypeOK, NEW c \in Calls, Call(c)
  PROVE  /\ c \in Commands /\ StartWait(c, FALSE) /\ Deliver(c, issued + 1)
         /\ script = <<>> /\ ~InWait /\ up
         /\ UNCHANGED <<script, config, received, taken, up>>
         /\ unsure' = (unsure \/ Contradicts(c))
BY DEF Call, StartWait, Commands

\* begin() starts a wait for the next of its commands, with nothing else on the stack.
LEMMA BeginStarts ==
  ASSUME LinkTypeOK, Begin
  PROVE  /\ Head(script) \in Commands /\ StartWait(Head(script), TRUE) /\ Deliver(Head(script), issued + 1)
         /\ script # <<>> /\ stack = <<>> /\ up
         /\ UNCHANGED <<script, config, received, taken, up, unsure>>
BY ScriptTyped DEF Begin, StartWait, LinkTypeOK

\* A restart of the host empties the driver and starts begin() over.
LEMMA RestartForms ==
  ASSUME LinkTypeOK, HostRestart
  PROVE  /\ stack' = <<>> /\ stash' = None /\ toHost' = <<>> /\ up' = TRUE /\ unsure' = FALSE /\ hit' = FALSE
         /\ cache' = [channel |-> ResetConfig.channel, promisc |-> FALSE, address |-> ResetConfig.address]
         /\ script' = <<Ping, SetPromiscuous(TRUE), SetChannel(StartChannel)>>
         /\ expects' \in Nat /\ expects' <= 1 /\ (Busy => job.kind \in Slow)
         /\ UNCHANGED <<config, job, fifo, issued, received, taken>>
<1>1. expects' = Flushed
  BY DEF HostRestart
<1>2. expects' \in Nat /\ expects' <= 1
  BY <1>1, FlushAssumption DEF Flushed, LinkTypeOK
<1> QED
  BY <1>2 DEF HostRestart

\* A reset of the module loses its command and announces itself.
LEMMA ResetForms ==
  ASSUME ModuleReset
  PROVE  /\ job' = None /\ expects' = 0 /\ fifo' = 0 /\ unsure' = TRUE /\ config' = ResetConfig
         /\ toHost' = Append(toHost, [type |-> "RESET_IND", id |-> 0, ok |-> TRUE, cca |-> FALSE])
         /\ [type |-> "RESET_IND", id |-> 0, ok |-> TRUE, cca |-> FALSE] \in Messages
         /\ UNCHANGED <<stack, stash, cache, script, up, issued, received, taken, hit>>
BY DEF ModuleReset, driver, Messages, Answers

\* Every step keeps the types.
LEMMA TypeStep ==
  ASSUME LinkTypeOK, [Next]_vars
  PROVE  LinkTypeOK'
<1>1. ASSUME NEW c \in Calls, Call(c) PROVE LinkTypeOK'
  <2>1. unsure' \in BOOLEAN
    BY <1>1, CallStarts DEF LinkTypeOK, Contradicts
  <2> QED
    BY <1>1, <2>1, CallStarts, StartSteps, LaunchTyped
<1>2. CASE Begin
  <2>1. unsure' \in BOOLEAN
    BY <1>2, BeginStarts DEF LinkTypeOK
  <2> QED
    BY <1>2, <2>1, BeginStarts, StartSteps, LaunchTyped
<1>3. CASE Feed \/ Return
  BY <1>3, FeedTyped
<1>4. CASE TimeOut
  <2> DEFINE n == Len(stack)
  <2>1. /\ n \in DOMAIN stack /\ stack[n] \in WaitRecords /\ stack # <<>> /\ UNCHANGED config
        /\ unsure' = (unsure \/ Response(stack[n].cmd) \in Settings)
        /\ Retried(n) \/ GaveUp(n)
    BY <1>4, TimeOutSteps
  <2>2. unsure' \in BOOLEAN /\ stack[n].cmd \in Commands
    BY <2>1 DEF LinkTypeOK, WaitRecords
  <2>3. CASE Retried(n)
    <3>1. Deliver(stack[n].cmd, issued + 1)
      <4>1. Top = stack[n] /\ stack[n].left # 0
        BY <2>1, <2>3 DEF Top, Last, Retried, WaitRecords
      <4> QED
        BY <1>4, <4>1 DEF TimeOut
    <3> HIDE DEF n
    <3> QED
      BY <2>2, <2>3, <3>1, LaunchTyped DEF Retried
  <2>4. CASE GaveUp(n)
    <3>1. /\ stack' \in Seq(Activations) /\ DOMAIN stack' = 1 .. n - 1 /\ n - 1 \in Nat
          /\ \A i \in 1 .. n - 1 : i \in DOMAIN stack /\ stack'[i] = stack[i]
      <4>1. stack \in Seq(Activations) /\ stack # <<>> /\ stack' = Front(stack)
        BY <2>1, <2>4 DEF GaveUp, LinkTypeOK
      <4> QED
        BY <4>1, WithoutLast
    <3>2. script' \in Scripts /\ up' \in BOOLEAN
      <4>1. script = <<>> => Tail(script) = <<>>
        OBVIOUS
      <4>2. script \in Scripts /\ <<>> \in Scripts /\ Tail(script) \in Scripts /\ up \in BOOLEAN
        BY <4>1, ScriptTyped DEF LinkTypeOK, Scripts
      <4> QED
        BY <2>4, <4>2 DEF GaveUp
    <3>3. stash' \in Answers \cup {None} /\ toHost' \in Seq(Messages)
      BY <2>4 DEF GaveUp, LinkTypeOK
    <3> QED
      BY <2>1, <2>2, <2>4, <3>1, <3>2, <3>3, PoppedTyped DEF GaveUp
  <2> QED
    BY <2>1, <2>3, <2>4
<1>5. CASE HostRestart
  <2>1. /\ stack' \in Seq(Activations) /\ DOMAIN stack' = {} /\ toHost' \in Seq(Messages)
        /\ script' \in Scripts
    <3>1. /\ <<>> \in Seq(Activations) /\ <<>> \in Seq(Messages) /\ DOMAIN <<>> = {}
      BY EmptySeq, LenProperties
    <3>2. script' \in Scripts
      BY <1>5, RestartForms DEF Scripts
    <3> QED
      BY <1>5, <3>1, <3>2, RestartForms
  <2>2. Busy' = Busy
    BY <1>5, RestartForms DEF Busy
  <2> QED
    BY <1>5, <2>1, <2>2, RestartForms DEF LinkTypeOK
<1>6. CASE FirmwareStep
  <2>1. /\ UNCHANGED <<stack, stash, script, up, issued, unsure, hit, expects>> /\ fifo' \in Nat
        /\ \A i : IsWait(i)' <=> IsWait(i)
    BY <1>6, FirmwareSteps DEF IsWait
  <2>2. CASE Continued
    <3>1. /\ toHost' \in Seq(Messages) /\ job' \in Jobs \cup {None} /\ Busy' = Busy
          /\ Busy => job'.kind = job.kind /\ job'.cmd = job.cmd /\ job'.id = job.id
          /\ Busy /\ job'.phase = "ack" => job.kind \in Transmits
      <4>1. toHost' \in Seq(Messages)
        BY <2>2, ToHostTyped, Shapes DEF Continued, LinkTypeOK
      <4>2. Busy => job' \in Jobs
        BY <2>2 DEF Continued, LinkTypeOK, Busy
      <4>3. Busy' = Busy /\ job' \in Jobs \cup {None}
        BY <2>2, <4>2, Shapes DEF Continued, LinkTypeOK, Busy
      <4> QED
        BY <2>2, <4>1, <4>3 DEF Continued, LinkTypeOK
    <3> QED
      BY <2>1, <2>2, <3>1 DEF LinkTypeOK, Continued
  <2>3. CASE Answered
    <3>1. toHost' \in Seq(Messages) /\ job' = None /\ ~Busy' /\ job.cmd \in Commands
      BY <2>3, ToHostTyped, AnswerTyped DEF Answered, Busy
    <3>2. DOMAIN config' = DOMAIN ResetConfig /\ config'.cca \in BOOLEAN /\ config'.filter \in BOOLEAN
      <4>1. Applied(job.cmd).filter \in BOOLEAN
        BY <3>1, AppliedFields, CommandTyped DEF LinkTypeOK
      <4> QED
        BY <2>3, <3>1, <4>1, AppliedFields DEF LinkTypeOK, Answered
    <3> QED
      BY <2>1, <3>1, <3>2 DEF LinkTypeOK
  <2> QED
    BY <1>6, <2>2, <2>3, FirmwareSteps
<1>7. CASE ModuleReset
  <2>1. toHost' \in Seq(Messages) /\ ~Busy' /\ \A i : IsWait(i)' <=> IsWait(i)
    BY <1>7, ResetForms, ToHostTyped DEF Busy, IsWait
  <2> QED
    BY <1>7, <2>1, ResetForms, ConfigAssumption DEF LinkTypeOK
<1>8. CASE UNCHANGED vars
  BY <1>8 DEF vars, driver, firmware, counts, history, LinkTypeOK, Busy, IsWait
<1> QED
  BY <1>1, <1>2, <1>3, <1>4, <1>5, <1>6, <1>7, <1>8 DEF Next, FirmwareStep

-----------------------------------------------------------------------------
(***************************************************************************)
(* The quiet wait and what is under way to it.                             *)
(***************************************************************************)
LEMMA QuietLasts ==
  ASSUME QuietAlone, received \subseteq received',
         \A i \in DOMAIN stack' : IsWait(i)' => i \in DOMAIN stack /\ stack'[i] = stack[i],
         \A k \in DOMAIN toHost' :
           \/ \E l \in DOMAIN toHost : toHost'[k] = toHost[l]
           \/ toHost'[k].type \in {"RX_FRAME", "RESET_IND"}
           \/ /\ Busy /\ toHost'[k].id = job.id
              /\ Acknowledged(job.cmd) /\ toHost'[k].ok /\ toHost'[k].cca => job.id \in received',
         stash' = None \/ stash' = stash \/ \E l \in DOMAIN toHost : stash' = toHost[l],
         Busy' => Busy /\ job'.id = job.id /\ job'.cmd = job.cmd
  PROVE  QuietAlone'
<1> SUFFICES ASSUME NEW i \in DOMAIN stack', IsWait(i)', stack'[i].quiet
             PROVE  /\ \A j \in DOMAIN stack' : j # i => ~IsWait(j)'
                    /\ \A k \in DOMAIN toHost' : Own(toHost[k], stack[i])'
                    /\ stash' = None \/ Own(stash, stack[i])'
                    /\ Busy' => job'.id = stack'[i].id /\ job'.cmd = stack'[i].cmd
  BY DEF QuietAlone
<1>1. i \in DOMAIN stack /\ stack'[i] = stack[i] /\ IsWait(i) /\ stack[i].quiet
  BY DEF IsWait
<1>2. /\ \A j \in DOMAIN stack : j # i => ~IsWait(j)
      /\ \A k \in DOMAIN toHost : Own(toHost[k], stack[i])
      /\ stash = None \/ Own(stash, stack[i])
      /\ Busy => job.id = stack[i].id /\ job.cmd = stack[i].cmd
  BY <1>1 DEF QuietAlone
<1>3. \A j \in DOMAIN stack' : j # i => ~IsWait(j)'
  <2> SUFFICES ASSUME NEW j \in DOMAIN stack', j # i, IsWait(j)' PROVE FALSE
    OBVIOUS
  <2>1. j \in DOMAIN stack /\ stack'[j] = stack[j]
    OBVIOUS
  <2> QED
    BY <1>2, <2>1 DEF IsWait
<1>4. ASSUME NEW r, Own(r, stack[i]), NEW r1, r1 = r
      PROVE  \/ r1.type \in {"RX_FRAME", "RESET_IND"}
             \/ /\ r1.id = stack'[i].id
                /\ Acknowledged(stack'[i].cmd) /\ r1.ok /\ r1.cca => stack'[i].id \in received'
  BY <1>1, <1>4 DEF Own
<1>5. ASSUME NEW k \in DOMAIN toHost' PROVE Own(toHost[k], stack[i])'
  <2>1. CASE \E l \in DOMAIN toHost : toHost'[k] = toHost[l]
    BY <1>2, <1>4, <2>1 DEF Own
  <2>2. CASE toHost'[k].type \in {"RX_FRAME", "RESET_IND"}
    BY <2>2 DEF Own
  <2>3. CASE /\ Busy /\ toHost'[k].id = job.id
             /\ Acknowledged(job.cmd) /\ toHost'[k].ok /\ toHost'[k].cca => job.id \in received'
    BY <1>1, <1>2, <2>3 DEF Own
  <2> QED
    BY <2>1, <2>2, <2>3
<1>6. stash' = None \/ Own(stash, stack[i])'
  BY <1>2, <1>4 DEF Own
<1> QED
  BY <1>1, <1>2, <1>3, <1>5, <1>6

\* A new quiet wait is alone.
LEMMA QuietLaunch ==
  ASSUME LinkTypeOK, NEW c \in Commands, NEW b \in BOOLEAN, StartWait(c, b),
         UNCHANGED <<script, config, received, taken, up>>
  PROVE  QuietAlone'
<1> SUFFICES ASSUME NEW i \in DOMAIN stack', IsWait(i)', stack'[i].quiet
             PROVE  /\ \A j \in DOMAIN stack' : j # i => ~IsWait(j)'
                    /\ \A k \in DOMAIN toHost' : Own(toHost[k], stack[i])'
                    /\ stash' = None \/ Own(stash, stack[i])'
                    /\ Busy' => job'.id = stack'[i].id /\ job'.cmd = stack'[i].cmd
  BY DEF QuietAlone
<1> DEFINE n == Len(stack)
<1>1. /\ Launched(n, c) /\ n \in Nat /\ DOMAIN stack = 1 .. n
      /\ \A j \in DOMAIN stack : IsWait(j) => stack'[j].quiet = FALSE
      /\ stack'[n + 1].quiet => Quiet
  BY StartSteps
<1> HIDE DEF n
<1>2. i = n + 1
  BY <1>1 DEF Launched
<1>3. stack = <<>> /\ ~Busy /\ \A k \in DOMAIN toHost : toHost[k] = RxFrame
  BY <1>1, <1>2 DEF Quiet
<1>4. \A j \in DOMAIN stack' : j # i => ~IsWait(j)'
  <2>1. DOMAIN stack = {}
    BY <1>3
  <2> QED
    BY <1>1, <1>2, <2>1 DEF Launched
<1>5. \A k \in DOMAIN toHost' : toHost'[k].type = "RX_FRAME"
  <2>1. \A k \in DOMAIN toHost : toHost[k].type = "RX_FRAME"
    BY <1>3, Shapes
  <2>2. toHost \in Seq(Messages)
    BY DEF LinkTypeOK
  <2>3. \A k \in DOMAIN Append(toHost, RxFrame) : Append(toHost, RxFrame)[k].type = "RX_FRAME"
    <3>1. /\ DOMAIN toHost = 1 .. Len(toHost) /\ DOMAIN Append(toHost, RxFrame) = 1 .. Len(toHost) + 1
          /\ Len(toHost) \in Nat
          /\ \A k \in DOMAIN toHost : Append(toHost, RxFrame)[k] = toHost[k]
          /\ Append(toHost, RxFrame)[Len(toHost) + 1] = RxFrame
      BY <2>2, Shapes, Appended
    <3> QED
      BY <2>1, <3>1, Shapes
  <2> QED
    BY <1>1, <2>1, <2>3 DEF Launched, TakenUp, Missed
<1>6. Busy' => job'.id = stack'[i].id /\ job'.cmd = stack'[i].cmd
  BY <1>1, <1>2, <1>3 DEF Launched, TakenUp, Missed, Busy
<1> QED
  BY <1>1, <1>4, <1>5, <1>6 DEF Launched, Own

(***************************************************************************)
(* Every step keeps the quiet wait alone.                                  *)
(***************************************************************************)
LEMMA QuietStep ==
  ASSUME LinkTypeOK, QuietAlone, [Next]_vars
  PROVE  QuietAlone'
<1>0. /\ stack \in Seq(Activations) /\ DOMAIN stack = 1 .. Len(stack) /\ Len(stack) \in Nat
      /\ toHost \in Seq(Messages)
  BY LenProperties DEF LinkTypeOK
<1>1. ASSUME NEW c \in Calls, Call(c) PROVE QuietAlone'
  BY <1>1, CallStarts, QuietLaunch
<1>2. CASE Begin
  BY <1>2, BeginStarts, QuietLaunch
<1>3. CASE Feed \/ Return
  <2>1. UNCHANGED <<job, received>>
    BY <1>3, FeedSteps
  <2>2. /\ toHost # <<>> => \E l \in DOMAIN toHost : Head(toHost) = toHost[l]
        /\ toHost # <<>> => \A k \in DOMAIN Tail(toHost) : \E l \in DOMAIN toHost : Tail(toHost)[k] = toHost[l]
    BY <1>0, WithoutFirst
  <2>3. ASSUME \A i \in DOMAIN stack' : IsWait(i)' => i \in DOMAIN stack /\ stack'[i] = stack[i],
               toHost' = toHost \/ (toHost # <<>> /\ toHost' = Tail(toHost)),
               stash' = None \/ stash' = stash \/ (toHost # <<>> /\ stash' = Head(toHost))
        PROVE  QuietAlone'
    <3>1. Busy' => Busy /\ job'.id = job.id /\ job'.cmd = job.cmd
      BY <2>1 DEF Busy
    <3>2. \A k \in DOMAIN toHost' : \E l \in DOMAIN toHost : toHost'[k] = toHost[l]
      BY <2>2, <2>3
    <3>3. stash' = None \/ stash' = stash \/ \E l \in DOMAIN toHost : stash' = toHost[l]
      BY <2>2, <2>3
    <3> QED
      BY <2>1, <2>3, <3>1, <3>2, <3>3, QuietLasts
  <2>4. CASE Opened
    <3>1. /\ DOMAIN stack' = 1 .. Len(stack) + 1 /\ stack'[Len(stack) + 1] = Callback
          /\ \A i \in DOMAIN stack : stack'[i] = stack[i]
      BY <1>0, <2>4, Appended, Shapes DEF Opened
    <3>2. \A i \in DOMAIN stack' : IsWait(i)' => i \in DOMAIN stack /\ stack'[i] = stack[i]
      BY <1>0, <3>1, Shapes DEF IsWait
    <3> QED
      BY <2>3, <2>4, <3>2 DEF Opened
  <2>5. CASE Stashed
    BY <2>3, <2>5 DEF Stashed
  <2>6. CASE Closed
    <3>1. stack # <<>> /\ stack' = Front(stack)
      BY <2>6 DEF Closed, InCallback
    <3>2. \A i \in DOMAIN stack' : i \in DOMAIN stack /\ stack'[i] = stack[i]
      BY <1>0, <3>1, WithoutLast
    <3> QED
      BY <2>3, <2>6, <3>2 DEF Closed
  <2>7. ASSUME NEW n \in DOMAIN stack, NEW r \in Answers, Finished(n, r)
        PROVE  QuietAlone'
    BY <2>3, <2>7 DEF Finished
  <2> QED
    BY <1>3, <2>4, <2>5, <2>6, <2>7, FeedSteps
<1>4. CASE TimeOut
  <2> DEFINE n == Len(stack)
  <2>1. /\ n \in DOMAIN stack /\ IsWait(n) /\ stack # <<>> /\ UNCHANGED received
        /\ Retried(n) \/ GaveUp(n)
    BY <1>4, TimeOutSteps
  <2>2. CASE Retried(n)
    <3> HIDE DEF n
    <3> SUFFICES ASSUME NEW i \in DOMAIN stack', IsWait(i)', stack'[i].quiet PROVE FALSE
      BY DEF QuietAlone
    <3>1. i # n /\ i \in 1 .. n /\ n \in Nat
      BY <1>0, <2>1, <2>2 DEF Retried, Launched
    <3>2. i \in 1 .. n - 1
      BY <3>1
    <3>3. i \in DOMAIN stack /\ IsWait(i) /\ stack[i].quiet
      BY <2>2, <3>2 DEF Retried, Launched, IsWait
    <3> QED
      BY <2>1, <3>1, <3>3 DEF QuietAlone
  <2>3. CASE GaveUp(n)
    <3>1. \A i \in DOMAIN stack' : i \in DOMAIN stack /\ stack'[i] = stack[i]
      BY <1>0, <2>1, <2>3, WithoutLast DEF GaveUp
    <3>2. Busy' => Busy /\ job'.id = job.id /\ job'.cmd = job.cmd
      BY <2>3 DEF GaveUp, Busy
    <3> QED
      BY <2>1, <2>3, <3>1, <3>2, QuietLasts DEF GaveUp
  <2> QED
    BY <2>1, <2>2, <2>3
<1>5. CASE HostRestart
  <2>1. DOMAIN stack' = {}
    BY <1>5, RestartForms
  <2> QED
    BY <2>1 DEF QuietAlone
<1>6. CASE FirmwareStep
  <2>1. UNCHANGED <<stack, stash>> /\ received \subseteq received'
    BY <1>6, FirmwareSteps
  <2>2. ASSUME NEW m \in Messages, toHost' = toHost \/ toHost' = Append(toHost, m),
               \/ m.type \in {"RX_FRAME", "RESET_IND"}
               \/ /\ Busy /\ m.id = job.id
                  /\ Acknowledged(job.cmd) /\ m.ok /\ m.cca => job.id \in received'
        PROVE  \A k \in DOMAIN toHost' :
                 \/ \E l \in DOMAIN toHost : toHost'[k] = toHost[l]
                 \/ toHost'[k].type \in {"RX_FRAME", "RESET_IND"}
                 \/ /\ Busy /\ toHost'[k].id = job.id
                    /\ Acknowledged(job.cmd) /\ toHost'[k].ok /\ toHost'[k].cca => job.id \in received'
    <3>1. CASE toHost' = toHost
      BY <3>1
    <3>2. CASE toHost' = Append(toHost, m)
      <4>1. /\ DOMAIN toHost' = 1 .. Len(toHost) + 1 /\ toHost'[Len(toHost) + 1] = m
            /\ DOMAIN toHost = 1 .. Len(toHost) /\ Len(toHost) \in Nat
            /\ \A k \in DOMAIN toHost : toHost'[k] = toHost[k]
        BY <1>0, <3>2, Appended
      <4>2. ASSUME NEW k \in DOMAIN toHost' PROVE k \in DOMAIN toHost \/ k = Len(toHost) + 1
        BY <4>1
      <4> QED
        BY <2>2, <4>1, <4>2
    <3> QED
      BY <2>2, <3>1, <3>2
  <2>3. CASE Continued
    <3>1. Busy' => Busy /\ job'.id = job.id /\ job'.cmd = job.cmd
      BY <2>3 DEF Continued, Busy
    <3> QED
      BY <2>1, <2>2, <2>3, <3>1, Shapes, QuietLasts DEF Continued
  <2>4. CASE Answered
    <3>1. ~Busy'
      BY <2>4 DEF Answered, Busy
    <3>2. PICK ok \in BOOLEAN : /\ toHost' = Append(toHost, Answer(ok))
                                /\ Acknowledged(job.cmd) /\ ok /\ config.cca => job.id \in received'
      BY <2>4 DEF Answered
    <3>3. /\ Answer(ok) \in Messages /\ Answer(ok).id = job.id
          /\ Acknowledged(job.cmd) /\ Answer(ok).ok /\ Answer(ok).cca => job.id \in received'
      BY <2>4, <3>2, AnswerTyped DEF Answered
    <3> QED
      BY <2>1, <2>2, <2>4, <3>1, <3>2, <3>3, QuietLasts DEF Answered
  <2> QED
    BY <1>6, <2>3, <2>4, FirmwareSteps
<1>7. CASE ModuleReset
  <2> DEFINE m == [type |-> "RESET_IND", id |-> 0, ok |-> TRUE, cca |-> FALSE]
  <2>1. UNCHANGED <<stack, stash, received>> /\ ~Busy' /\ m \in Messages /\ toHost' = Append(toHost, m)
        /\ m.type = "RESET_IND"
    BY <1>7, ResetForms DEF Busy
  <2> HIDE DEF m
  <2>2. /\ DOMAIN toHost' = 1 .. Len(toHost) + 1 /\ toHost'[Len(toHost) + 1] = m
        /\ DOMAIN toHost = 1 .. Len(toHost) /\ Len(toHost) \in Nat
        /\ \A k \in DOMAIN toHost : toHost'[k] = toHost[k]
    BY <1>0, <2>1, Appended
  <2>3. \A k \in DOMAIN toHost' : (\E l \in DOMAIN toHost : toHost'[k] = toHost[l])
                                  \/ toHost'[k].type \in {"RX_FRAME", "RESET_IND"}
    BY <2>1, <2>2
  <2> QED
    BY <2>1, <2>3, QuietLasts DEF IsWait
<1>8. CASE UNCHANGED vars
  <2>1. UNCHANGED <<stack, stash, toHost, job, received>>
    BY <1>8 DEF vars, driver, firmware, history
  <2> QED
    BY <2>1 DEF QuietAlone, Own, Busy, IsWait
<1> QED
  BY <1>1, <1>2, <1>3, <1>4, <1>5, <1>6, <1>7, <1>8 DEF Next, FirmwareStep

(***************************************************************************)
(* A quiet wait takes its own response, and believes a TXSTAT only of a    *)
(* frame that arrived.                                                     *)
(***************************************************************************)
LEMMA TakenStep ==
  ASSUME LinkTypeOK, QuietAlone, OwnResponse, AckedMeansReceived, [Next]_vars
  PROVE  OwnResponse' /\ AckedMeansReceived'
<1>1. ASSUME UNCHANGED taken, received \subseteq received'
      PROVE  OwnResponse' /\ AckedMeansReceived'
  BY <1>1 DEF OwnResponse, AckedMeansReceived
<1>2. ASSUME NEW n \in DOMAIN stack, NEW r \in Answers, Finished(n, r), UNCHANGED received
      PROVE  OwnResponse' /\ AckedMeansReceived'
  <2>1. /\ taken'.quiet = stack[n].quiet /\ taken'.cmd = stack[n].cmd /\ taken'.id = stack[n].id
        /\ taken'.from = r.id /\ taken'.ok = r.ok /\ taken'.cca = r.cca
        /\ stack[n] \in WaitRecords /\ IsWait(n) /\ r.type = Response(stack[n].cmd)
    BY <1>2 DEF Finished
  <2>2. ASSUME stack[n].quiet PROVE Own(r, stack[n])
    <3>1. /\ \A k \in DOMAIN toHost : Own(toHost[k], stack[n])
          /\ stash = None \/ Own(stash, stack[n])
      BY <2>1, <2>2 DEF QuietAlone
    <3>2. CASE toHost # <<>> /\ r = Head(toHost)
      <4>1. 1 \in DOMAIN toHost /\ r = toHost[1]
        BY <3>2, WithoutFirst DEF LinkTypeOK
      <4> QED
        BY <3>1, <4>1
    <3>3. CASE r = stash
      BY <3>1, <3>3, Shapes
    <3> QED
      BY <1>2, <3>2, <3>3 DEF Finished
  <2>3. r.type \notin {"RX_FRAME", "RESET_IND"}
    BY <2>1, CommandTyped DEF WaitRecords, AnswerTypes
  <2>4. stack[n].quiet =>
          r.id = stack[n].id /\ (Acknowledged(stack[n].cmd) /\ r.ok /\ r.cca => stack[n].id \in received)
    BY <2>2, <2>3 DEF Own
  <2> QED
    BY <1>2, <2>1, <2>4 DEF OwnResponse, AckedMeansReceived, Acknowledged
<1>3. ASSUME NEW c \in Calls, Call(c) PROVE OwnResponse' /\ AckedMeansReceived'
  BY <1>1, <1>3, CallStarts
<1>4. CASE Begin
  BY <1>1, <1>4, BeginStarts
<1>5. CASE Feed \/ Return
  <2>1. UNCHANGED received
    BY <1>5, FeedSteps
  <2> QED
    BY <1>1, <1>2, <1>5, <2>1, FeedSteps DEF Opened, Stashed, Closed
<1>6. CASE TimeOut
  BY <1>1, <1>6, TimeOutSteps
<1>7. CASE HostRestart
  BY <1>1, <1>7, RestartForms
<1>8. CASE FirmwareStep
  BY <1>1, <1>8, FirmwareSteps
<1>9. CASE ModuleReset
  BY <1>1, <1>9, ResetForms
<1>10. CASE UNCHANGED vars
  BY <1>1, <1>10 DEF vars, history
<1> QED
  BY <1>3, <1>4, <1>5, <1>6, <1>7, <1>8, <1>9, <1>10 DEF Next, FirmwareStep

\* The link starts idle.
LEMMA LinkInit ==
  ASSUME Init
  PROVE  /\ LinkTypeOK /\ stack = <<>> /\ script = <<>> /\ toHost = <<>> /\ stash = None /\ ~Busy
         /\ up /\ ~unsure /\ DOMAIN stack = {} /\ DOMAIN toHost = {} /\ taken.quiet = FALSE
<1>1. /\ stack \in Seq(Activations) /\ DOMAIN stack = {} /\ toHost \in Seq(Messages) /\ DOMAIN toHost = {}
  BY EmptySeq DEF Init
<1>2. /\ DOMAIN config = DOMAIN ResetConfig /\ config.cca \in BOOLEAN /\ config.filter \in BOOLEAN
  <2>1. PICK set \in BOOLEAN :
          config = [ResetConfig EXCEPT !.channel = StartChannel, !.filter = set, !.cca = set]
    BY DEF Init
  <2> DEFINE tuned == [ResetConfig EXCEPT !.channel = StartChannel]
             filtered == [tuned EXCEPT !.filter = set]
  <2>2. DOMAIN tuned = DOMAIN ResetConfig
    OBVIOUS
  <2>3. DOMAIN filtered = DOMAIN ResetConfig /\ filtered.filter = set
    <3> HIDE DEF tuned
    <3> QED
      BY <2>2, ConfigAssumption
  <2>4. config = [filtered EXCEPT !.cca = set]
    BY <2>1
  <2> HIDE DEF filtered
  <2> QED
    BY <2>3, <2>4, ConfigAssumption
<1>3. script \in Scripts
  BY DEF Init, Scripts
<1>4. /\ stack = <<>> /\ stash = None /\ script = <<>> /\ up = TRUE /\ job = None /\ expects = 0
      /\ fifo = 0 /\ toHost = <<>> /\ issued = 0 /\ unsure = FALSE /\ hit = FALSE /\ taken = NoTaken
  BY DEF Init
<1>5. taken.quiet = FALSE
  BY <1>4 DEF NoTaken
<1>6. ~Busy
  BY <1>4 DEF Busy
<1>7. /\ \A i \in DOMAIN stack : IsWait(i) => stack[i].id <= issued
      /\ \A i, j \in DOMAIN stack : j = i + 1 /\ ~IsWait(j) => IsWait(i)
  BY <1>1
<1>8. LinkTypeOK
  <2>1. stash \in Answers \cup {None} /\ job \in Jobs \cup {None}
    BY <1>4
  <2>2. up \in BOOLEAN /\ hit \in BOOLEAN /\ unsure \in BOOLEAN
    BY <1>4
  <2>3. issued \in Nat /\ fifo \in Nat /\ expects \in Nat /\ expects <= 1
    BY <1>4
  <2> QED
    BY <1>1, <1>2, <1>3, <1>6, <1>7, <2>1, <2>2, <2>3 DEF LinkTypeOK
<1> QED
  BY <1>1, <1>4, <1>5, <1>6, <1>8

(***************************************************************************)
(* The types of the driver, of the wire and of the module, with the order  *)
(* of waits and callbacks on the driver's stack, for every set of calls.   *)
(***************************************************************************)
THEOREM LinkTypeCorrect == Spec => []LinkTypeOK
<1>1. Init => LinkTypeOK
  BY LinkInit
<1>2. LinkTypeOK /\ [Next]_vars => LinkTypeOK'
  BY TypeStep
<1> QED
  BY <1>1, <1>2, PTL DEF Spec

\* Quiet waits are alone, so what they take is theirs.
LEMMA QuietInvariant == Spec => [](LinkTypeOK /\ QuietAlone /\ OwnResponse /\ AckedMeansReceived)
<1>1. Init => LinkTypeOK /\ QuietAlone /\ OwnResponse /\ AckedMeansReceived
  BY LinkInit DEF QuietAlone, OwnResponse, AckedMeansReceived
<1>2. LinkTypeOK /\ QuietAlone /\ OwnResponse /\ AckedMeansReceived /\ [Next]_vars
        => LinkTypeOK' /\ QuietAlone' /\ OwnResponse' /\ AckedMeansReceived'
  BY TypeStep, QuietStep, TakenStep
<1> QED
  BY <1>1, <1>2, PTL DEF Spec

(***************************************************************************)
(* waitResp and the responses it takes: for every nesting of callbacks,    *)
(* with resets of either side and answers of any age.                      *)
(***************************************************************************)
THEOREM OwnResponseAlways == Spec => []OwnResponse
BY QuietInvariant, PTL

(***************************************************************************)
(* radio_tx and send(): a quiet transmission that asked for an             *)
(* acknowledgement, with CCA on, succeeds only when the frame arrived.     *)
(***************************************************************************)
THEOREM AckedMeansReceivedAlways == Spec => []AckedMeansReceived
BY QuietInvariant, PTL

-----------------------------------------------------------------------------
(***************************************************************************)
(* A command of begin() starts the only wait.                              *)
(***************************************************************************)
LEMMA BeginLaunches ==
  ASSUME LinkTypeOK, Begin
  PROVE  /\ Launched(0, Head(script)) /\ DOMAIN stack' = {1} /\ stack = <<>> /\ DOMAIN stack = {}
         /\ IsWait(1)' /\ stack'[1].begin = TRUE /\ stack'[1].cmd = Head(script)
         /\ stack'[1].id = issued + 1 /\ (Head(script) = Ping => stack'[1].left = 2)
         /\ Head(script) \in Commands /\ script # <<>> /\ script' = script
         /\ up' = up /\ up /\ unsure' = unsure /\ cache' = CacheBefore(Head(script))
<1>1. /\ Head(script) \in Commands /\ StartWait(Head(script), TRUE) /\ stack = <<>>
      /\ script # <<>> /\ UNCHANGED <<script, config, received, taken, up, unsure>> /\ up
  BY BeginStarts
<1>2. Len(stack) = 0 /\ DOMAIN stack = {}
  BY <1>1
<1>3. /\ Launched(Len(stack), Head(script)) /\ stack'[Len(stack) + 1].begin = TRUE
      /\ (Head(script) = Ping => stack'[Len(stack) + 1].left = 2) /\ cache' = CacheBefore(Head(script))
  BY <1>1, StartSteps
<1>4. /\ DOMAIN stack' = 1 .. Len(stack) + 1 /\ stack'[Len(stack) + 1].cmd = Head(script)
      /\ stack'[Len(stack) + 1].id = issued + 1 /\ stack'[Len(stack) + 1] \in WaitRecords
  BY <1>3, Zenon DEF Launched
<1>5. stack'[1] \in WaitRecords
  BY <1>2, <1>4
<1> QED
  BY <1>1, <1>2, <1>3, <1>4, <1>5 DEF IsWait, WaitRecords

(***************************************************************************)
(* begin(): its waits, one after the other, at the bottom of the stack.    *)
(***************************************************************************)
LEMMA ShapeStep ==
  ASSUME LinkTypeOK, BeginShape, [Next]_vars
  PROVE  BeginShape'
<1>0. /\ stack \in Seq(Activations) /\ DOMAIN stack = 1 .. Len(stack) /\ Len(stack) \in Nat
      /\ script \in Scripts
  BY LenProperties DEF LinkTypeOK
<1>1. ASSUME NEW c \in Calls, Call(c) PROVE BeginShape'
  <2> DEFINE n == Len(stack)
  <2>1. /\ Launched(n, c) /\ stack'[n + 1].begin = FALSE /\ script = <<>> /\ script' = script /\ up' = up /\ up
    BY <1>1, CallStarts, StartSteps
  <2> HIDE DEF n
  <2>2. ASSUME NEW i \in DOMAIN stack', IsWait(i)'
        PROVE  ~stack'[i].begin
    <3>1. CASE i = n + 1
      BY <2>1, <3>1
    <3>2. CASE i \in 1 .. n
      <4>1. i \in DOMAIN stack /\ IsWait(i) /\ stack'[i].begin = stack[i].begin
        BY <2>1, <2>2, <3>2 DEF Launched
      <4> QED
        BY <2>1, <4>1 DEF BeginShape
    <3> QED
      BY <2>1, <3>1, <3>2 DEF Launched
  <2> QED
    BY <2>1, <2>2 DEF BeginShape
<1>2. CASE Begin
  <2>1. /\ stack'[1].begin = TRUE /\ script # <<>> /\ script' = script /\ up' = up /\ up
        /\ DOMAIN stack' = {1} /\ stack'[1].cmd = Head(script)
    BY <1>2, BeginLaunches
  <2> QED
    BY <2>1 DEF BeginShape
<1>3. CASE Feed \/ Return
  <2>1. UNCHANGED up
    BY <1>3, FeedSteps
  <2>2. ASSUME \A i \in DOMAIN stack' : IsWait(i)' => i \in DOMAIN stack /\ stack'[i] = stack[i],
               UNCHANGED script, up
        PROVE  BeginShape'
    BY <2>1, <2>2 DEF BeginShape, IsWait
  <2>3. CASE Opened
    <3>1. /\ DOMAIN stack' = 1 .. Len(stack) + 1 /\ stack'[Len(stack) + 1] = Callback
          /\ \A i \in DOMAIN stack : stack'[i] = stack[i]
      BY <1>0, <2>3, Appended, Shapes DEF Opened
    <3>2. \A i \in DOMAIN stack' : IsWait(i)' => i \in DOMAIN stack /\ stack'[i] = stack[i]
      BY <1>0, <3>1, Shapes DEF IsWait
    <3>3. up
      BY <1>3, <2>3 DEF Feed, Return, Opened, InCallback
    <3> QED
      BY <2>2, <2>3, <3>2, <3>3 DEF Opened
  <2>4. CASE Stashed
    BY <2>1, <2>4 DEF Stashed, BeginShape, IsWait
  <2>5. CASE Closed
    <3>1. stack # <<>> /\ stack' = Front(stack)
      BY <2>5 DEF Closed, InCallback
    <3>2. \A i \in DOMAIN stack' : i \in DOMAIN stack /\ stack'[i] = stack[i]
      BY <1>0, <3>1, WithoutLast
    <3>3. up
      BY <3>1 DEF BeginShape, LinkTypeOK
    <3> QED
      BY <2>2, <2>5, <3>2, <3>3 DEF Closed
  <2>6. ASSUME NEW n \in DOMAIN stack, NEW r \in Answers, Finished(n, r)
        PROVE  BeginShape'
    <3>1. /\ IsWait(n) /\ DOMAIN stack' = 1 .. n - 1 /\ \A i \in 1 .. n - 1 : i \in DOMAIN stack /\ stack'[i] = stack[i]
          /\ script' = IF stack[n].begin THEN Tail(script) ELSE script
      BY <2>6 DEF Finished
    <3>2. up
      <4>1. DOMAIN stack # {}
        BY <2>6
      <4> QED
        BY <4>1 DEF BeginShape, LinkTypeOK
    <3>3. CASE stack[n].begin
      <4>1. n = 1 /\ DOMAIN stack' = {}
        BY <3>1, <3>3 DEF BeginShape
      <4> QED
        BY <2>1, <3>2, <4>1 DEF BeginShape
    <3>4. CASE ~stack[n].begin
      BY <2>2, <3>1, <3>2, <3>4
    <3> QED
      BY <3>3, <3>4
  <2> QED
    BY <1>3, <2>3, <2>4, <2>5, <2>6, FeedSteps
<1>4. CASE TimeOut
  <2> DEFINE n == Len(stack)
  <2>1. /\ n \in DOMAIN stack /\ IsWait(n) /\ stack # <<>> /\ stack[n] \in WaitRecords
        /\ Retried(n) \/ GaveUp(n)
    BY <1>4, TimeOutSteps
  <2>2. up
    BY <2>1 DEF BeginShape, LinkTypeOK
  <2> HIDE DEF n
  <2>3. CASE Retried(n)
    <3>1. /\ n \in Nat /\ DOMAIN stack' = 1 .. n /\ \A i \in 1 .. n - 1 : i \in DOMAIN stack /\ stack'[i] = stack[i]
          /\ stack'[n].begin = stack[n].begin /\ stack'[n].cmd = stack[n].cmd /\ UNCHANGED <<script, up>>
      <4>1. n - 1 \in Nat /\ DOMAIN stack' = 1 .. (n - 1) + 1 /\ n \in Nat /\ stack'[(n - 1) + 1].cmd = stack[n].cmd
        BY <1>0, <2>1, <2>3 DEF Retried, Launched
      <4> QED
        BY <4>1, <2>3 DEF Retried, Launched
    <3>2. ASSUME NEW i \in DOMAIN stack', IsWait(i)'
          PROVE  (stack'[i].begin <=> script # <<>>) /\ (stack'[i].begin => i = 1 /\ stack'[i].cmd = Head(script))
      <4>1. CASE i = n
        BY <2>1, <3>1, <4>1 DEF BeginShape
      <4>2. CASE i \in 1 .. n - 1
        BY <3>1, <3>2, <4>2 DEF BeginShape, IsWait
      <4> QED
        BY <3>1, <4>1, <4>2
    <3> QED
      BY <2>2, <3>1, <3>2 DEF BeginShape
  <2>4. CASE GaveUp(n)
    <3>1. /\ stack' = Front(stack) /\ n = Len(stack)
          /\ \A i \in DOMAIN stack' : i \in DOMAIN stack /\ stack'[i] = stack[i] /\ i < n
      BY <1>0, <2>1, <2>4, WithoutLast DEF GaveUp, n
    <3>2. CASE stack[n].begin
      <4>1. n = 1 /\ \A i \in DOMAIN stack' : FALSE
        BY <1>0, <2>1, <3>1, <3>2 DEF BeginShape
      <4>2. stack' = <<>>
        BY <1>0, <2>1, <3>1, <4>1, WithoutLast
      <4>3. ~up' => script' = <<>>
        BY <2>2, <2>4, <3>2 DEF GaveUp
      <4> QED
        BY <4>1, <4>2, <4>3 DEF BeginShape
    <3>3. CASE ~stack[n].begin
      <4>1. script' = script /\ up'
        BY <2>2, <2>4, <3>3 DEF GaveUp
      <4> QED
        BY <3>1, <4>1 DEF BeginShape, IsWait
    <3> QED
      BY <3>2, <3>3
  <2> QED
    BY <2>1, <2>3, <2>4
<1>5. CASE HostRestart
  <2>1. DOMAIN stack' = {} /\ up'
    BY <1>5, RestartForms
  <2> QED
    BY <2>1 DEF BeginShape
<1>6. CASE FirmwareStep
  <2>1. UNCHANGED <<stack, script, up>>
    BY <1>6, FirmwareSteps
  <2> QED
    BY <2>1 DEF BeginShape, IsWait
<1>7. CASE ModuleReset
  BY <1>7, ResetForms DEF BeginShape, IsWait
<1>8. CASE UNCHANGED vars
  BY <1>8 DEF vars, driver, BeginShape, IsWait
<1> QED
  BY <1>1, <1>2, <1>3, <1>4, <1>5, <1>6, <1>7, <1>8 DEF Next, FirmwareStep

(***************************************************************************)
(* begin() pings a module that is not in the middle of something: the ping *)
(* is executed, at the latest the second one, and its PONG is on the way.  *)
(***************************************************************************)
LEMMA PingStep ==
  ASSUME LinkTypeOK, BeginShape, PingIsAnswered, BeginFindsModule, [Next]_vars
  PROVE  PingIsAnswered' /\ BeginFindsModule'
<1>0. /\ stack \in Seq(Activations) /\ DOMAIN stack = 1 .. Len(stack) /\ Len(stack) \in Nat
      /\ toHost \in Seq(Messages) /\ DOMAIN toHost = 1 .. Len(toHost) /\ Len(toHost) \in Nat
      /\ script \in Scripts /\ expects \in Nat /\ hit \in BOOLEAN
  BY LenProperties DEF LinkTypeOK
<1>1. ASSUME NEW c \in Calls, Call(c) PROVE PingIsAnswered' /\ BeginFindsModule'
  <2>1. script = <<>> /\ script' = script /\ up /\ up' = up
    BY <1>1, CallStarts
  <2> QED
    BY <2>1 DEF PingIsAnswered, Pinging, BeginFindsModule
<1>2. CASE Begin
  <2>1. /\ Launched(0, Head(script)) /\ stack' # <<>> /\ IsWait(1)' /\ stack'[1].id = issued + 1
        /\ (Head(script) = Ping => stack'[1].left = 2)
        /\ stack = <<>> /\ script' = script /\ unsure' = unsure /\ up'
    BY <1>2, BeginLaunches
  <2>2. TakenUp(Head(script)) \/ Missed
    BY <2>1 DEF Launched
  <2>3. ASSUME Pinging', ~hit', ~unsure' PROVE PingIsAnswered'
    <3>1. Head(script) = Ping /\ expects <= 1
      BY <2>1, <2>2, <2>3 DEF PingIsAnswered, Pinging, TakenUp, Missed
    <3>2. CASE TakenUp(Ping)
      <4>1. Busy' /\ job'.id = stack'[1].id /\ job'.cmd = Ping
        BY <2>1, <3>2, Shapes DEF TakenUp, Busy
      <4> QED
        BY <2>1, <4>1 DEF PingIsAnswered
    <3>3. CASE Missed
      <4>1. ~Busy' /\ expects' = 0 /\ stack'[1].left = 2
        BY <1>0, <2>1, <2>3, <3>1, <3>3 DEF Missed, Busy
      <4> QED
        BY <2>1, <4>1 DEF PingIsAnswered
    <3> QED
      BY <2>2, <3>1, <3>2, <3>3
  <2> QED
    BY <2>1, <2>3 DEF PingIsAnswered, BeginFindsModule
<1>3. CASE Feed \/ Return
  <2>1. UNCHANGED <<up, job, expects, unsure, hit>>
    BY <1>3, FeedSteps
  <2>2. BeginFindsModule'
    BY <2>1 DEF BeginFindsModule
  <2>3. CASE Opened
    <3>1. /\ DOMAIN stack' = 1 .. Len(stack) + 1 /\ stack'[Len(stack) + 1] = Callback
          /\ \A i \in DOMAIN stack : stack'[i] = stack[i] /\ i <= Len(stack)
          /\ stack' # <<>>
      BY <1>0, <2>3, Appended, Shapes DEF Opened
    <3>2. \A i \in DOMAIN stack' : IsWait(i)' => i \in DOMAIN stack /\ IsWait(i)
      BY <1>0, <3>1, Shapes DEF IsWait
    <3>3. stack # <<>> => 1 \in DOMAIN stack
      BY <1>0, WithoutFirst
    <3>4. \A k \in DOMAIN toHost : toHost[k].type = "PONG" =>
            k - 1 \in DOMAIN toHost' /\ toHost'[k - 1].type = "PONG"
      <4>1. /\ DOMAIN toHost' = 1 .. Len(toHost) - 1 /\ toHost[1].type # "PONG"
            /\ \A i \in DOMAIN toHost' : toHost'[i] = toHost[i + 1]
        BY <1>0, <2>3, WithoutFirst DEF Opened
      <4> QED
        BY <1>0, <4>1
    <3>5. script' = script
      BY <2>3 DEF Opened
    <3> QED
      BY <2>1, <2>2, <3>1, <3>2, <3>3, <3>4, <3>5 DEF PingIsAnswered, Pinging, Busy, IsWait
  <2>4. CASE Stashed
    <3>1. UNCHANGED <<stack, script>> /\ toHost # <<>> /\ toHost' = Tail(toHost)
      BY <2>4 DEF Stashed
    <3>2. ASSUME Pinging, stack # <<>>, IsWait(1)
          PROVE  toHost[1].type # "PONG"
      <4>1. 1 \in DOMAIN stack /\ stack[1].begin /\ stack[1].cmd = Ping
        BY <1>0, <3>2, WithoutFirst DEF BeginShape, Pinging
      <4>2. Len(stack) \in DOMAIN stack /\ Top = stack[Len(stack)]
        <5>1. Last(stack) = stack[Len(stack)] /\ Len(stack) \in Nat \ {0}
          BY <1>0, <3>2, WithoutLast
        <5> QED
          BY <1>0, <5>1 DEF Top
      <4>3. IsWait(Len(stack))
        <5>1. stack[Len(stack)] \in Activations
          BY <1>0, <4>2, ElementOfSeq
        <5>2. Top.kind # "callback"
          BY <2>4, <3>2 DEF Stashed, InCallback
        <5>3. stack[Len(stack)].kind \in {"wait", "callback"}
          BY <5>1 DEF Activations, WaitRecords, Callback
        <5> QED
          BY <4>2, <5>2, <5>3 DEF IsWait
      <4>4. Len(stack) = 1
        BY <3>2, <4>2, <4>3 DEF BeginShape, Pinging
      <4>5. InWait /\ Top.cmd = Ping
        BY <3>2, <4>1, <4>2, <4>4 DEF InWait, IsWait
      <4>6. Response(Ping) = "PONG"
        BY DEF Response, Ping
      <4>7. Head(toHost) = toHost[1]
        BY <1>0, <3>1, WithoutFirst
      <4> QED
        BY <2>4, <4>5, <4>6, <4>7 DEF Stashed
    <3>3. \A k \in DOMAIN toHost : k # 1 => k - 1 \in DOMAIN toHost' /\ toHost'[k - 1] = toHost[k]
      <4>1. /\ DOMAIN toHost' = 1 .. Len(toHost) - 1
            /\ \A i \in DOMAIN toHost' : toHost'[i] = toHost[i + 1]
        BY <1>0, <3>1, WithoutFirst
      <4> QED
        BY <1>0, <4>1
    <3> QED
      BY <2>1, <2>2, <3>1, <3>2, <3>3 DEF PingIsAnswered, Pinging, Busy, IsWait
  <2>5. CASE Closed
    <3>1. stack # <<>> /\ stack' = Front(stack) /\ UNCHANGED <<toHost, script>>
      BY <2>5 DEF Closed, InCallback
    <3>2. /\ DOMAIN stack' = 1 .. Len(stack) - 1 /\ Top = stack[Len(stack)] /\ Len(stack) # 0
          /\ \A i \in DOMAIN stack' : i \in DOMAIN stack /\ stack'[i] = stack[i]
      BY <1>0, <3>1, WithoutLast DEF Top
    <3>3. ~IsWait(Len(stack))
      BY <2>5, <3>2 DEF Closed, InCallback, IsWait
    <3>4. IsWait(1) => 1 \in DOMAIN stack'
      BY <1>0, <3>2, <3>3
    <3>5. IsWait(1) => stack' # <<>> /\ stack'[1] = stack[1]
      BY <3>2, <3>4
    <3> QED
      BY <2>1, <2>2, <3>1, <3>2, <3>5 DEF PingIsAnswered, Pinging, Busy, IsWait
  <2>6. ASSUME NEW n \in DOMAIN stack, NEW r \in Answers, Finished(n, r)
        PROVE  PingIsAnswered' /\ BeginFindsModule'
    <3>1. ~Pinging'
      BY <1>0, <2>6, ScriptTyped DEF Finished, BeginShape, Pinging
    <3> QED
      BY <2>2, <3>1 DEF PingIsAnswered
  <2> QED
    BY <1>3, <2>3, <2>4, <2>5, <2>6, FeedSteps
<1>4. CASE TimeOut
  <2> DEFINE n == Len(stack)
  <2>1. /\ n \in DOMAIN stack /\ IsWait(n) /\ stack # <<>> /\ stack[n] \in WaitRecords
        /\ toHost = <<>> /\ ~(Busy /\ job.id = stack[n].id /\ job.kind \notin Slow)
        /\ unsure' = (unsure \/ Response(stack[n].cmd) \in Settings)
        /\ Retried(n) \/ GaveUp(n)
    BY <1>4, TimeOutSteps
  <2>2. up
    BY <2>1 DEF BeginShape, LinkTypeOK
  <2>3. script = <<>> \/ (stack[n].begin /\ n = 1 /\ stack[1].cmd = Head(script))
    BY <2>1 DEF BeginShape
  <2> HIDE DEF n
  <2>4. ASSUME Pinging, ~hit, ~unsure
        PROVE  n = 1 /\ stack[1].cmd = Ping /\ stack[1].left = 2 /\ ~Busy /\ expects = 0
    <3>1. n = 1 /\ stack[1].cmd = Ping
      BY <2>3, <2>4 DEF Pinging
    <3>2. ~(Busy /\ job.id = stack[1].id /\ job.cmd = Ping)
      <4>1. Busy /\ job.cmd = Ping => job.kind \notin Slow
        BY DEF LinkTypeOK, Ping, Slow, Transmits
      <4> QED
        BY <2>1, <3>1, <4>1
    <3>3. DOMAIN toHost = {}
      BY <2>1
    <3> QED
      BY <2>1, <2>4, <3>1, <3>2, <3>3 DEF PingIsAnswered
  <2>5. CASE Retried(n)
    <3>1. /\ n \in Nat /\ stack' # <<>> /\ script' = script /\ up' = up
          /\ stack'[n].id = issued + 1 /\ stack'[n].kind = "wait"
          /\ TakenUp(stack[n].cmd) \/ Missed
      <4>1. /\ n - 1 \in Nat /\ stack'[(n - 1) + 1] \in WaitRecords /\ stack'[(n - 1) + 1].id = issued + 1
            /\ DOMAIN stack' = 1 .. (n - 1) + 1 /\ script' = script /\ up' = up
            /\ TakenUp(stack[n].cmd) \/ Missed
        BY <2>5, Zenon DEF Retried, Launched
      <4>2. n \in Nat \ {0}
        BY <1>0, <2>1
      <4>3. (n - 1) + 1 = n /\ n \in 1 .. n
        BY <4>2
      <4>4. stack'[n] \in WaitRecords /\ stack'[n].id = issued + 1 /\ DOMAIN stack' = 1 .. n
        BY <4>1, <4>3
      <4>5. stack'[n].kind = "wait" /\ DOMAIN stack' # {}
        BY <4>3, <4>4 DEF WaitRecords
      <4>6. stack' # <<>>
        BY <4>5
      <4> QED
        BY <4>1, <4>2, <4>4, <4>5, <4>6
    <3>2. ASSUME Pinging', ~hit', ~unsure' PROVE PingIsAnswered'
      <4>1. Pinging
        BY <3>1, <3>2 DEF Pinging
      <4>5. ~hit /\ ~unsure
        <5>1. hit' \/ hit' = hit
          BY <3>1 DEF TakenUp, Missed
        <5>2. ~hit
          BY <1>0, <3>2, <5>1
        <5>3. unsure' = (unsure \/ Response(stack[n].cmd) \in Settings)
          BY <2>1
        <5>4. ~unsure
          BY <3>2, <5>3
        <5> QED
          BY <5>2, <5>4
      <4>2. n = 1 /\ stack[1].cmd = Ping /\ expects = 0
        BY <2>4, <4>1, <4>5
      <4>3. ~Missed
        BY <3>2, <4>2 DEF Missed
      <4>4. Busy' /\ job'.id = stack'[1].id /\ job'.cmd = Ping
        BY <3>1, <4>2, <4>3, Shapes DEF TakenUp, Busy
      <4> QED
        BY <3>1, <4>2, <4>4 DEF PingIsAnswered, IsWait
    <3> QED
      BY <2>2, <3>1, <3>2 DEF PingIsAnswered, BeginFindsModule
  <2>6. CASE GaveUp(n)
    <3>1. ~Pinging'
      <4>2. script' = <<>> \/ (script # <<>> /\ script' = Tail(script))
        BY <2>3, <2>6 DEF GaveUp
      <4> QED
        BY <1>0, <4>2, ScriptTyped DEF Pinging
    <3>2. ASSUME ~up', ~unsure' PROVE hit'
      <4>1. stack[n].begin /\ stack[n].cmd.kind # "promisc" /\ stack[n].left = 0 /\ hit' = hit
        BY <2>2, <2>6, <3>2 DEF GaveUp
      <4>2. ~unsure /\ Response(stack[n].cmd) \notin Settings
        BY <2>1, <3>2
      <4>3. script # <<>> /\ n = 1 /\ stack[1].cmd = Head(script)
        BY <2>1, <4>1 DEF BeginShape
      <4>4. stack[1].cmd # SetChannel(StartChannel) /\ stack[1].cmd # SetPromiscuous(TRUE)
        <5>1. Response(SetChannel(StartChannel)) = "OK" /\ Response(SetPromiscuous(TRUE)) = "OK"
          BY DEF Response, SetChannel, SetPromiscuous
        <5> QED
          BY <4>2, <4>3, <5>1 DEF Settings
      <4>5. Pinging
        BY <1>0, <4>3, <4>4, ScriptTyped DEF Pinging
      <4> QED
        BY <2>4, <4>1, <4>2, <4>3, <4>5
    <3> QED
      BY <3>1, <3>2 DEF PingIsAnswered, BeginFindsModule
  <2> QED
    BY <2>1, <2>5, <2>6
<1>5. CASE HostRestart
  <2>1. DOMAIN stack' = {} /\ up' /\ expects' <= 1
    BY <1>5, RestartForms
  <2> QED
    BY <2>1 DEF PingIsAnswered, BeginFindsModule
<1>6. CASE FirmwareStep
  <2>1. UNCHANGED <<stack, script, up, unsure, hit, expects>> /\ (Continued \/ Answered)
    BY <1>6, FirmwareSteps
  <2>2. ASSUME NEW m \in Messages, toHost' = Append(toHost, m), NEW k \in DOMAIN toHost
        PROVE  k \in DOMAIN toHost' /\ toHost'[k] = toHost[k]
    BY <1>0, <2>2, Appended
  <2>3. CASE Continued
    <3>1. \A k \in DOMAIN toHost : k \in DOMAIN toHost' /\ toHost'[k] = toHost[k]
      BY <2>2, <2>3, Shapes DEF Continued
    <3>2. /\ Busy => Busy' /\ job'.id = job.id /\ job'.cmd = job.cmd
          /\ ~Busy => ~Busy'
      BY <2>3, Shapes DEF Continued, Busy
    <3> QED
      BY <2>1, <3>1, <3>2 DEF PingIsAnswered, Pinging, IsWait, BeginFindsModule
  <2>4. CASE Answered
    <3>1. PICK ok \in BOOLEAN : toHost' = Append(toHost, Answer(ok))
      BY <2>4 DEF Answered
    <3>2. /\ Answer(ok) \in Messages /\ Answer(ok).type = Response(job.cmd) /\ Busy
      BY <2>4, AnswerTyped DEF Answered
    <3>3. \A k \in DOMAIN toHost : k \in DOMAIN toHost' /\ toHost'[k] = toHost[k]
      BY <2>2, <3>1, <3>2
    <3>4. job.cmd = Ping => \E k \in DOMAIN toHost' : toHost'[k].type = "PONG"
      <4>1. Len(toHost) + 1 \in DOMAIN toHost' /\ toHost'[Len(toHost) + 1] = Answer(ok)
        <5> HIDE DEF Answer
        <5> QED
          BY <1>0, <3>1, <3>2, Appended
      <4> QED
        BY <3>2, <4>1 DEF Response, Ping
    <3> QED
      BY <2>1, <3>2, <3>3, <3>4 DEF PingIsAnswered, Pinging, IsWait, BeginFindsModule
  <2> QED
    BY <2>1, <2>3, <2>4
<1>7. CASE ModuleReset
  BY <1>7, ResetForms DEF PingIsAnswered, BeginFindsModule
<1>8. CASE UNCHANGED vars
  BY <1>8 DEF vars, driver, firmware, history, PingIsAnswered, Pinging, BeginFindsModule, IsWait, Busy
<1> QED
  BY <1>1, <1>2, <1>3, <1>4, <1>5, <1>6, <1>7, <1>8 DEF Next, FirmwareStep

(***************************************************************************)
(* begin() and its flush: a running module that is not busy or forwarding  *)
(* is found, whatever earlier traffic left in the parser.                  *)
(***************************************************************************)
THEOREM BeginFindsModuleAlways == Spec => []BeginFindsModule
<1>1. Init => LinkTypeOK /\ BeginShape /\ PingIsAnswered /\ BeginFindsModule
  BY LinkInit DEF BeginShape, PingIsAnswered, Pinging, BeginFindsModule
<1>2. LinkTypeOK /\ BeginShape /\ PingIsAnswered /\ BeginFindsModule /\ [Next]_vars
        => LinkTypeOK' /\ BeginShape' /\ PingIsAnswered' /\ BeginFindsModule'
  BY TypeStep, ShapeStep, PingStep
<1> QED
  BY <1>1, <1>2, PTL DEF Spec

-----------------------------------------------------------------------------
(***************************************************************************)
(* Commands, answers and waits are told apart by their numbers.            *)
(***************************************************************************)
LEMMA LaunchKeepsApart ==
  ASSUME LinkTypeOK, NEW c \in Commands, NEW n, Launched(n, c), AnswersApart, WaitsApart
  PROVE  AnswersApart' /\ WaitsApart'
<1>1. /\ issued \in Nat /\ issued' = issued + 1 /\ stash' = None /\ toHost \in Seq(Messages) /\ n \in Nat
      /\ TakenUp(c) \/ Missed
  BY DEF Launched, LinkTypeOK
<1>2. WaitsApart'
  <2>1. ASSUME NEW i \in DOMAIN stack', IsWait(i)'
        PROVE  \/ i = n + 1 /\ stack'[i].id = issued + 1
               \/ i \in DOMAIN stack /\ IsWait(i) /\ stack'[i].id = stack[i].id
    BY <2>1 DEF Launched
  <2> QED
    BY <1>1, <2>1 DEF WaitsApart
<1>3. \A k \in DOMAIN toHost' : IsAnswer(toHost'[k]) => k \in DOMAIN toHost /\ toHost'[k] = toHost[k]
  <2>1. CASE toHost' = toHost
    BY <2>1
  <2>2. CASE toHost' = Append(toHost, RxFrame)
    <3>1. /\ DOMAIN toHost' = 1 .. Len(toHost) + 1 /\ toHost'[Len(toHost) + 1] = RxFrame
          /\ \A k \in DOMAIN toHost : toHost'[k] = toHost[k]
          /\ DOMAIN toHost = 1 .. Len(toHost) /\ Len(toHost) \in Nat
      BY <1>1, <2>2, Appended, Shapes
    <3>2. ~IsAnswer(RxFrame)
      BY DEF IsAnswer, RxFrame, AnswerTypes
    <3> QED
      BY <3>1, <3>2
  <2> QED
    BY <1>1, <2>1, <2>2 DEF TakenUp, Missed
<1>4. \/ Busy' /\ job'.id = issued + 1
      \/ (Busy' <=> Busy) /\ job' = job
  BY <1>1, Shapes DEF TakenUp, Missed, Busy
<1>5. AnswersApart'
  <2>1. ~IsAnswer(stash')
    BY <1>1 DEF IsAnswer
  <2> QED
    BY <1>1, <1>3, <1>4, <2>1 DEF AnswersApart
<1> QED
  BY <1>2, <1>5

(***************************************************************************)
(* The driver reads the UART and the firmware writes it.                   *)
(***************************************************************************)
ReadOne ==
  /\ toHost # <<>> /\ toHost' = Tail(toHost) /\ stash' \in {stash, Head(toHost), None}
ReadNone ==
  /\ toHost' = toHost /\ stash' \in {stash, None}

\* Reading takes the first message from the wire or none.
LEMMA FeedReads ==
  ASSUME LinkTypeOK, Feed \/ Return
  PROVE  /\ ReadOne \/ ReadNone
         /\ UNCHANGED <<up, config, job, expects, fifo, issued, received, unsure, hit>>
         /\ \A i \in DOMAIN stack' : IsWait(i)' => i \in DOMAIN stack /\ stack'[i] = stack[i]
<1>0. stack \in Seq(Activations) /\ DOMAIN stack = 1 .. Len(stack) /\ Len(stack) \in Nat
  BY LenProperties DEF LinkTypeOK
<1>1. CASE Opened
  <2>1. /\ DOMAIN stack' = 1 .. Len(stack) + 1 /\ stack'[Len(stack) + 1] = Callback
        /\ \A i \in DOMAIN stack : stack'[i] = stack[i]
    BY <1>0, <1>1, Appended, Shapes DEF Opened
  <2>2. \A i \in DOMAIN stack' : IsWait(i)' => i \in DOMAIN stack /\ stack'[i] = stack[i]
    BY <1>0, <2>1, Shapes DEF IsWait
  <2> QED
    BY <1>1, <2>2, FeedSteps DEF Opened, ReadOne
<1>2. CASE Stashed
  BY <1>2, FeedSteps DEF Stashed, ReadOne, IsWait
<1>3. CASE Closed
  <2>1. stack # <<>> /\ stack' = Front(stack)
    BY <1>3 DEF Closed, InCallback
  <2>2. \A i \in DOMAIN stack' : i \in DOMAIN stack /\ stack'[i] = stack[i]
    BY <1>0, <2>1, WithoutLast
  <2> QED
    BY <1>3, <2>2, FeedSteps DEF Closed, ReadNone
<1>4. ASSUME NEW n \in DOMAIN stack, NEW r \in Answers, Finished(n, r)
      PROVE  /\ ReadOne \/ ReadNone
             /\ \A i \in DOMAIN stack' : i \in DOMAIN stack /\ stack'[i] = stack[i]
  BY <1>4 DEF Finished, ReadOne, ReadNone
<1> QED
  BY <1>1, <1>2, <1>3, <1>4, FeedSteps

\* Reading a message keeps the answers under way apart.
LEMMA ReadKeepsApart ==
  ASSUME LinkTypeOK, AnswersApart, ReadOne \/ ReadNone, UNCHANGED <<job, issued>>
  PROVE  AnswersApart'
<1>1. toHost \in Seq(Messages) /\ (Busy' <=> Busy)
  BY DEF LinkTypeOK, Busy
<1>2. CASE ReadNone
  <2>1. IsAnswer(stash') => stash' = stash
    BY <1>2 DEF ReadNone, IsAnswer
  <2> QED
    BY <1>1, <1>2, <2>1 DEF AnswersApart, ReadNone
<1>3. CASE ReadOne
  <2>1. /\ DOMAIN toHost = 1 .. Len(toHost) /\ DOMAIN toHost' = 1 .. Len(toHost) - 1 /\ Len(toHost) \in Nat
        /\ \A i \in DOMAIN toHost' : toHost'[i] = toHost[i + 1]
        /\ Head(toHost) = toHost[1] /\ 1 \in DOMAIN toHost
    BY <1>1, <1>3, WithoutFirst DEF ReadOne
  <2>2. IsAnswer(stash') => stash' = stash \/ stash' = toHost[1]
    BY <1>3, <2>1 DEF ReadOne, IsAnswer
  <2>3. \A i \in DOMAIN toHost' : i + 1 \in DOMAIN toHost /\ i + 1 # 1
    BY <2>1
  <2>4. \A k, l \in DOMAIN toHost' :
          IsAnswer(toHost'[k]) /\ IsAnswer(toHost'[l]) /\ toHost'[k].id = toHost'[l].id => k = l
    <3> SUFFICES ASSUME NEW k \in DOMAIN toHost', NEW l \in DOMAIN toHost',
                        IsAnswer(toHost'[k]), IsAnswer(toHost'[l]), toHost'[k].id = toHost'[l].id
                 PROVE  k = l
      OBVIOUS
    <3>1. k + 1 = l + 1
      BY <2>1, <2>3 DEF AnswersApart
    <3> QED
      BY <2>1, <3>1
  <2>5. \A k \in DOMAIN toHost' : IsAnswer(toHost'[k]) =>
          /\ toHost'[k].id \in 1 .. issued /\ (Busy => job.id # toHost'[k].id)
          /\ IsAnswer(stash') => stash'.id # toHost'[k].id
    BY <2>1, <2>2, <2>3 DEF AnswersApart
  <2>6. IsAnswer(stash') => stash'.id \in 1 .. issued /\ (Busy => job.id # stash'.id)
    BY <2>1, <2>2 DEF AnswersApart
  <2>7. Busy => job.id \in 1 .. issued
    BY DEF AnswersApart
  <2> QED
    BY <1>1, <2>4, <2>5, <2>6, <2>7 DEF AnswersApart
<1> QED
  BY <1>2, <1>3

\* No two answers under way, and no two waits, carry one identifier.
LEMMA ApartStep ==
  ASSUME LinkTypeOK, AnswersApart, WaitsApart, [Next]_vars
  PROVE  AnswersApart' /\ WaitsApart'
<1>0. toHost \in Seq(Messages) /\ stack \in Seq(Activations) /\ issued \in Nat
      /\ DOMAIN toHost = 1 .. Len(toHost) /\ Len(toHost) \in Nat
  BY LenProperties DEF LinkTypeOK
<1>1. ASSUME NEW c \in Calls, Call(c) PROVE AnswersApart' /\ WaitsApart'
  <2>1. c \in Commands /\ Launched(Len(stack), c)
    BY <1>1, CallStarts, StartSteps
  <2> QED
    BY <2>1, LaunchKeepsApart
<1>2. CASE Begin
  BY <1>2, BeginLaunches, LaunchKeepsApart
<1>3. CASE Feed \/ Return
  <2>1. AnswersApart'
    BY <1>3, FeedReads, ReadKeepsApart
  <2>2. WaitsApart'
    BY <1>3, FeedReads DEF WaitsApart, IsWait
  <2> QED
    BY <2>1, <2>2
<1>4. CASE TimeOut
  <2> DEFINE n == Len(stack)
  <2>1. /\ n \in DOMAIN stack /\ stack # <<>> /\ stack[n].cmd \in Commands
        /\ Retried(n) \/ GaveUp(n)
    BY <1>4, TimeOutSteps DEF WaitRecords
  <2>2. GaveUp(n) => \A i \in DOMAIN stack' : i \in DOMAIN stack /\ stack'[i] = stack[i]
    BY <1>0, <2>1, WithoutLast DEF GaveUp
  <2> HIDE DEF n
  <2>3. CASE Retried(n)
    BY <2>1, <2>3, LaunchKeepsApart DEF Retried
  <2>4. CASE GaveUp(n)
    <3>1. UNCHANGED <<stash, toHost, job, issued, Busy>>
      BY <2>4 DEF GaveUp, Busy
    <3> QED
      BY <2>2, <2>4, <3>1 DEF AnswersApart, WaitsApart, IsWait
  <2> QED
    BY <2>1, <2>3, <2>4
<1>5. CASE HostRestart
  <2>1. DOMAIN stack' = {} /\ DOMAIN toHost' = {} /\ stash' = None /\ UNCHANGED <<job, issued, Busy>>
    BY <1>5, RestartForms DEF Busy
  <2> QED
    BY <2>1 DEF AnswersApart, WaitsApart, IsAnswer
<1>6. CASE FirmwareStep
  <2>1. UNCHANGED <<stack, stash, issued>> /\ (Continued \/ Answered)
    BY <1>6, FirmwareSteps
  <2>2. WaitsApart'
    BY <2>1 DEF WaitsApart, IsWait
  <2>3. CASE Continued
    <3>1. (Busy' <=> Busy) /\ (Busy => job'.id = job.id)
      BY <2>3, Shapes DEF Continued, Busy
    <3>2. \A k \in DOMAIN toHost' : IsAnswer(toHost'[k]) => k \in DOMAIN toHost /\ toHost'[k] = toHost[k]
      <4>1. CASE toHost' = toHost
        BY <4>1
      <4>2. CASE toHost' = Append(toHost, RxFrame)
        <5>1. /\ DOMAIN toHost' = 1 .. Len(toHost) + 1 /\ toHost'[Len(toHost) + 1] = RxFrame
              /\ \A k \in DOMAIN toHost : toHost'[k] = toHost[k]
          BY <1>0, <4>2, Appended, Shapes
        <5>2. ~IsAnswer(RxFrame)
          BY DEF IsAnswer, RxFrame, AnswerTypes
        <5> QED
          BY <1>0, <5>1, <5>2
      <4> QED
        BY <2>3, <4>1, <4>2 DEF Continued
    <3> QED
      BY <2>1, <2>2, <3>1, <3>2 DEF AnswersApart
  <2>4. CASE Answered
    <3>1. PICK ok \in BOOLEAN : toHost' = Append(toHost, Answer(ok))
      BY <2>4 DEF Answered
    <3>2. Answer(ok) \in Messages /\ Answer(ok).id = job.id /\ Busy /\ ~Busy'
      BY <2>4, AnswerTyped DEF Answered, Busy
    <3>3. /\ DOMAIN toHost' = 1 .. Len(toHost) + 1 /\ toHost'[Len(toHost) + 1].id = job.id
          /\ \A k \in DOMAIN toHost : toHost'[k] = toHost[k]
      BY <1>0, <3>1, <3>2, Appended
    <3>4. \A k \in DOMAIN toHost' :
            \/ k \in DOMAIN toHost /\ toHost'[k] = toHost[k]
            \/ k = Len(toHost) + 1 /\ toHost'[k].id = job.id
      BY <1>0, <3>3
    <3> QED
      BY <2>1, <2>2, <3>2, <3>4 DEF AnswersApart
  <2> QED
    BY <2>1, <2>3, <2>4
<1>7. CASE ModuleReset
  <2> DEFINE ind == [type |-> "RESET_IND", id |-> 0, ok |-> TRUE, cca |-> FALSE]
  <2>1. /\ toHost' = Append(toHost, ind) /\ ind \in Messages /\ ~IsAnswer(ind) /\ ~Busy'
        /\ UNCHANGED <<stack, stash, issued>>
    BY <1>7, ResetForms DEF IsAnswer, AnswerTypes, Busy
  <2> HIDE DEF ind
  <2>2. /\ DOMAIN toHost' = 1 .. Len(toHost) + 1 /\ toHost'[Len(toHost) + 1] = ind
        /\ \A k \in DOMAIN toHost : toHost'[k] = toHost[k]
    BY <1>0, <2>1, Appended
  <2>3. \A k \in DOMAIN toHost' : IsAnswer(toHost'[k]) => k \in DOMAIN toHost /\ toHost'[k] = toHost[k]
    BY <1>0, <2>1, <2>2
  <2> QED
    BY <2>1, <2>3 DEF AnswersApart, WaitsApart, IsWait
<1>8. CASE UNCHANGED vars
  BY <1>8 DEF vars, driver, firmware, counts, AnswersApart, WaitsApart, IsWait, Busy
<1> QED
  BY <1>1, <1>2, <1>3, <1>4, <1>5, <1>6, <1>7, <1>8 DEF Next, FirmwareStep

-----------------------------------------------------------------------------
(***************************************************************************)
(* Counting sets of numbers.                                               *)
(***************************************************************************)
LEMMA Counted ==
  ASSUME NEW n \in Nat, NEW S, S \subseteq 1 .. n, NEW T, T \subseteq S
  PROVE  /\ IsFiniteSet(S) /\ IsFiniteSet(T) /\ Cardinality(S) \in Nat /\ Cardinality(T) \in Nat
         /\ Cardinality(T) <= Cardinality(S)
         /\ \A x \in S : x \notin T => Cardinality(T) + 1 <= Cardinality(S)
         /\ \A x \in S : Cardinality(S \ {x}) = Cardinality(S) - 1
         /\ S = {} => Cardinality(S) = 0
         /\ Cardinality(S) = 0 => S = {}
<1>1. IsFiniteSet(S)
  <2>1. IsFiniteSet(1 .. n)
    BY FS_Interval, 1 \in Int, n \in Int
  <2> QED
    BY <2>1, FS_Subset
<1>2. /\ IsFiniteSet(T) /\ Cardinality(S) \in Nat /\ Cardinality(T) \in Nat
      /\ Cardinality(T) <= Cardinality(S)
  BY <1>1, FS_Subset, FS_CardinalityType
<1>3. ASSUME NEW x \in S
      PROVE  /\ Cardinality(S \ {x}) = Cardinality(S) - 1
             /\ x \notin T => Cardinality(T) + 1 <= Cardinality(S)
  <2>1. IsFiniteSet(S \ {x}) /\ Cardinality(S \ {x}) = Cardinality(S) - 1
    BY <1>1, FS_RemoveElement
  <2>2. x \notin T => T \subseteq S \ {x}
    OBVIOUS
  <2>3. x \notin T => Cardinality(T) <= Cardinality(S \ {x})
    BY <2>1, <2>2, FS_Subset
  <2> QED
    BY <1>2, <2>1, <2>3
<1>4. Cardinality(S) = 0 <=> S = {}
  BY <1>1, FS_EmptySet
<1> QED
  BY <1>1, <1>2, <1>3, <1>4

\* A new identifier makes a set of identifiers one larger.
LEMMA CountedOneMore ==
  ASSUME NEW n \in Nat, NEW S, S \subseteq 1 .. n
  PROVE  /\ Cardinality(S \cup {n + 1}) = Cardinality(S) + 1
         /\ S \cup {n + 1} \subseteq 1 .. n + 1 /\ Cardinality(S) \in Nat
<1>1. IsFiniteSet(S) /\ Cardinality(S) \in Nat
  BY Counted
<1>2. n + 1 \notin S
  OBVIOUS
<1> QED
  BY <1>1, <1>2, FS_AddElement

-----------------------------------------------------------------------------
(***************************************************************************)
(* What is under way lands or is lost; only a command that is taken up     *)
(* adds to it.                                                             *)
(***************************************************************************)
LEMMA FlyingReads ==
  ASSUME LinkTypeOK, ReadOne \/ ReadNone, UNCHANGED <<job, issued>>, NEW t \in AnswerTypes
  PROVE  Flying(t)' \subseteq Flying(t)
<1>1. toHost \in Seq(Messages) /\ (Busy' <=> Busy)
  BY DEF LinkTypeOK, Busy
<1>2. CASE ReadNone
  BY <1>1, <1>2 DEF ReadNone, Flying
<1>3. CASE ReadOne
  <2>1. /\ \A i \in DOMAIN toHost' : i + 1 \in DOMAIN toHost /\ toHost'[i] = toHost[i + 1]
        /\ Head(toHost) = toHost[1] /\ 1 \in DOMAIN toHost
    BY <1>1, <1>3, WithoutFirst DEF ReadOne
  <2>2. stash' \in {stash, toHost[1], None}
    BY <1>3, <2>1 DEF ReadOne
  <2> QED
    BY <1>1, <2>1, <2>2 DEF Flying
<1> QED
  BY <1>2, <1>3

\* The firmware answers what it was asked: no new identifier comes under way.
LEMMA FlyingAnswers ==
  ASSUME LinkTypeOK, FirmwareStep, NEW t \in AnswerTypes
  PROVE  Flying(t)' \subseteq Flying(t)
<1>1. toHost \in Seq(Messages) /\ UNCHANGED <<stash, issued>> /\ (Continued \/ Answered)
  BY FirmwareSteps DEF LinkTypeOK
<1>2. CASE Continued
  <2>1. (Busy' <=> Busy) /\ (Busy => job'.id = job.id /\ job'.cmd = job.cmd)
    BY <1>2, Shapes DEF Continued, Busy
  <2>2. \A k \in DOMAIN toHost' : toHost'[k].type = t => k \in DOMAIN toHost /\ toHost'[k] = toHost[k]
    <3>1. CASE toHost' = toHost
      BY <3>1
    <3>2. CASE toHost' = Append(toHost, RxFrame)
      <4>1. /\ DOMAIN toHost' = 1 .. Len(toHost) + 1 /\ toHost'[Len(toHost) + 1] = RxFrame
            /\ \A k \in DOMAIN toHost : toHost'[k] = toHost[k]
            /\ DOMAIN toHost = 1 .. Len(toHost) /\ Len(toHost) \in Nat
        BY <1>1, <3>2, Appended, Shapes
      <4>2. RxFrame.type # t
        BY DEF RxFrame, AnswerTypes
      <4> QED
        BY <4>1, <4>2
    <3> QED
      BY <1>2, <3>1, <3>2 DEF Continued
  <2> QED
    BY <1>1, <2>1, <2>2 DEF Flying
<1>3. CASE Answered
  <2>1. PICK ok \in BOOLEAN : toHost' = Append(toHost, Answer(ok))
    BY <1>3 DEF Answered
  <2>2. /\ Answer(ok) \in Messages /\ Answer(ok).id = job.id /\ Busy /\ ~Busy'
        /\ Answer(ok).type = Response(job.cmd)
    BY <1>3, AnswerTyped DEF Answered, Busy
  <2>3. /\ DOMAIN toHost' = 1 .. Len(toHost) + 1 /\ toHost'[Len(toHost) + 1].id = job.id
        /\ toHost'[Len(toHost) + 1].type = Response(job.cmd)
        /\ \A k \in DOMAIN toHost : toHost'[k] = toHost[k]
        /\ DOMAIN toHost = 1 .. Len(toHost) /\ Len(toHost) \in Nat
    <3> HIDE DEF Answer
    <3> QED
      BY <1>1, <2>1, <2>2, Appended
  <2>4. \A k \in DOMAIN toHost' :
          \/ k \in DOMAIN toHost /\ toHost'[k] = toHost[k]
          \/ toHost'[k].id = job.id /\ toHost'[k].type = Response(job.cmd)
    BY <2>3
  <2> QED
    BY <1>1, <2>2, <2>4 DEF Flying
<1> QED
  BY <1>1, <1>2, <1>3

\* Sending a command brings its answer under way, if the module takes it up.
LEMMA FlyingLaunched ==
  ASSUME LinkTypeOK, AnswersApart, NEW c \in Commands, NEW n, Launched(n, c), NEW t \in AnswerTypes
  PROVE  /\ Flying(t)' \subseteq Flying(t) \cup {issued + 1}
         /\ ~(TakenUp(c) /\ Response(c) = t) => Flying(t)' \subseteq Flying(t)
<1>1. /\ issued \in Nat /\ issued' = issued + 1 /\ stash' = None /\ toHost \in Seq(Messages)
      /\ TakenUp(c) \/ Missed
  BY DEF Launched, LinkTypeOK
<1>2. \A k \in DOMAIN toHost' : toHost'[k].type = t => k \in DOMAIN toHost /\ toHost'[k] = toHost[k]
  <2>1. CASE toHost' = toHost
    BY <2>1
  <2>2. CASE toHost' = Append(toHost, RxFrame)
    <3>1. /\ DOMAIN toHost' = 1 .. Len(toHost) + 1 /\ toHost'[Len(toHost) + 1] = RxFrame
          /\ \A k \in DOMAIN toHost : toHost'[k] = toHost[k]
          /\ DOMAIN toHost = 1 .. Len(toHost) /\ Len(toHost) \in Nat
      BY <1>1, <2>2, Appended, Shapes
    <3>2. RxFrame.type # t
      BY DEF RxFrame, AnswerTypes
    <3> QED
      BY <3>1, <3>2
  <2> QED
    BY <1>1, <2>1, <2>2 DEF TakenUp, Missed
<1>5. /\ \A k \in DOMAIN toHost : toHost[k].type = t => toHost[k].id \in 1 .. issued
      /\ Busy => job.id \in 1 .. issued
  <2>1. \A k \in DOMAIN toHost : toHost[k].type = t => IsAnswer(toHost[k])
    BY <1>1, Shapes, ElementOfSeq, LenProperties DEF IsAnswer
  <2> QED
    BY <2>1 DEF AnswersApart
<1>3. CASE TakenUp(c)
  <2>1. Busy' /\ job'.id = issued + 1 /\ job'.cmd = c /\ ~Busy /\ Response(job.cmd)' = Response(c)
    BY <1>3, Shapes DEF TakenUp, Busy
  <2>2. ASSUME NEW id \in Flying(t)', ~(id = issued + 1 /\ Response(c) = t)
        PROVE  id \in Flying(t)
    <3>1. \/ \E k \in DOMAIN toHost : toHost[k].type = t /\ toHost[k].id = id
          \/ Response(c) = t /\ id = issued + 1
      BY <1>1, <1>2, <2>1 DEF Flying
    <3> QED
      BY <1>5, <2>2, <3>1 DEF Flying
  <2> QED
    BY <1>3, <2>2
<1>4. CASE Missed
  BY <1>1, <1>2, <1>4, <1>5 DEF Flying, Missed, Busy
<1> QED
  BY <1>1, <1>3, <1>4

\* Sending a command adds a wait for its answer.
LEMMA AwaitedLaunched ==
  ASSUME LinkTypeOK, WaitsApart, NEW c \in Commands, NEW n, Launched(n, c), NEW t \in AnswerTypes,
         \A i \in DOMAIN stack : IsWait(i) /\ i > n => Response(stack[i].cmd) # t
  PROVE  Awaited(t)' = IF Response(c) = t THEN Awaited(t) \cup {issued + 1} ELSE Awaited(t)
<1>1. issued \in Nat /\ issued' = issued + 1 /\ n \in Nat /\ DOMAIN stack' = 1 .. n + 1 /\ 1 .. n \subseteq DOMAIN stack
  BY DEF Launched, LinkTypeOK
<1>2. IsWait(n + 1)' /\ stack'[n + 1].cmd = c /\ stack'[n + 1].id = issued + 1
  <2>1. stack'[n + 1] \in WaitRecords /\ stack'[n + 1].cmd = c /\ stack'[n + 1].id = issued + 1
    BY DEF Launched
  <2>2. (n + 1)' = n + 1 
    OBVIOUS
  <2> QED
    BY <2>1 DEF IsWait, WaitRecords
<1>3. DOMAIN stack = 1 .. Len(stack) /\ Len(stack) \in Nat
  BY LenProperties DEF LinkTypeOK
<1>4. Awaited(t) \subseteq Awaited(t)'
  <2> SUFFICES ASSUME NEW id \in Awaited(t) PROVE id \in Awaited(t)'
    OBVIOUS
  <2>1. PICK i \in DOMAIN stack : IsWait(i) /\ Response(stack[i].cmd) = t /\ stack[i].id = id
    BY DEF Awaited
  <2>2. i \in 1 .. n
    BY <1>1, <1>3, <2>1
  <2>3. IsWait(i)' /\ Response(stack[i].cmd)' = t /\ stack'[i].id = id /\ i \in DOMAIN stack'
    BY <1>1, <2>1, <2>2 DEF Launched, Response
  <2> QED
    BY <1>1, <2>3 DEF Awaited
<1>5. Response(c) = t => issued + 1 \in Awaited(t)'
  BY <1>1, <1>2 DEF Awaited
<1>6. ASSUME NEW id \in Awaited(t)'
      PROVE  id \in Awaited(t) \/ (Response(c) = t /\ id = issued + 1)
  <2>1. PICK i \in DOMAIN stack' : IsWait(i)' /\ Response(stack'[i].cmd) = t /\ stack'[i].id = id
    BY <1>6 DEF Awaited
  <2>2. CASE i = n + 1
    BY <1>2, <2>1, <2>2
  <2>3. CASE i \in 1 .. n
    <3>1. i \in DOMAIN stack /\ IsWait(i) /\ stack[i].cmd = stack'[i].cmd /\ stack[i].id = id
      BY <1>1, <2>1, <2>3 DEF Launched
    <3> QED
      BY <2>1, <3>1 DEF Awaited, WaitsApart
  <2> QED
    BY <1>1, <2>2, <2>3
<1> QED
  BY <1>4, <1>5, <1>6

-----------------------------------------------------------------------------
(***************************************************************************)
(* What the driver remembers, and what a command leaves in the module.     *)
(***************************************************************************)
LEMMA RememberedIsSetting ==
  ASSUME NEW c \in Commands
  PROVE  /\ Remembers(c) = "channel" <=> c.kind \in {"channel", "ed"}
         /\ Remembers(c) = "address" <=> c.kind = "address"
         /\ Response(c) \notin Settings => Remembers(c) = "nothing"
         /\ Response(c) \notin Settings => c.kind \notin {"channel", "ed", "address", "promisc", "mac"}
BY CommandTyped DEF Remembers, Response, Settings

\* What the driver remembers before the answer.
LEMMA CacheBeforeFields ==
  ASSUME CacheShape, NEW c \in Commands
  PROVE  /\ DOMAIN CacheBefore(c) = DOMAIN cache
         /\ CacheBefore(c).channel = cache.channel /\ CacheBefore(c).address = cache.address
         /\ c.kind = "promisc" => CacheBefore(c).promisc = c.arg
         /\ c.kind = "mac" /\ c.arg.filter => CacheBefore(c).promisc = FALSE
         /\ c.kind # "promisc" /\ ~(c.kind = "mac" /\ c.arg.filter) => CacheBefore(c) = cache
<1>1. CASE c.kind = "promisc"
  BY <1>1 DEF CacheBefore, CacheShape
<1>2. CASE c.kind = "mac" /\ c.arg.filter
  BY <1>2 DEF CacheBefore, CacheShape
<1>3. CASE c.kind # "promisc" /\ ~(c.kind = "mac" /\ c.arg.filter)
  BY <1>3 DEF CacheBefore
<1> QED
  BY <1>1, <1>2, <1>3

\* What the driver remembers after the answer.
LEMMA CacheAfterFields ==
  ASSUME CacheShape, NEW c \in Commands
  PROVE  /\ DOMAIN CacheAfter(c) = DOMAIN cache /\ CacheAfter(c).promisc = cache.promisc
         /\ CacheAfter(c).channel = IF Remembers(c) = "channel" THEN c.arg ELSE cache.channel
         /\ CacheAfter(c).address = IF Remembers(c) = "address" THEN c.arg ELSE cache.address
<1>1. CASE c.kind \in {"channel", "ed"}
  BY <1>1, RememberedIsSetting DEF CacheAfter, CacheShape
<1>2. CASE c.kind = "address"
  BY <1>2, RememberedIsSetting DEF CacheAfter, CacheShape
<1>3. CASE c.kind \notin {"channel", "ed", "address"}
  BY <1>3, RememberedIsSetting DEF CacheAfter
<1> QED
  BY <1>1, <1>2, <1>3

\* The driver remembers a channel, an address and promiscuous mode.
LEMMA CacheStep ==
  ASSUME LinkTypeOK, CacheShape, [Next]_vars
  PROVE  CacheShape'
<1>1. ASSUME NEW c \in Calls, Call(c) PROVE CacheShape'
  BY <1>1, CallStarts, StartSteps, CacheBeforeFields DEF CacheShape
<1>2. CASE Begin
  BY <1>2, BeginLaunches, CacheBeforeFields DEF CacheShape
<1>3. CASE Feed \/ Return
  <2>1. ASSUME NEW n \in DOMAIN stack, NEW r \in Answers, Finished(n, r)
        PROVE  CacheShape'
    <3>1. stack[n].cmd \in Commands /\ cache' = CacheAfter(stack[n].cmd)
      BY <2>1 DEF Finished, WaitRecords
    <3> QED
      BY <3>1, CacheAfterFields DEF CacheShape
  <2> QED
    BY <1>3, <2>1, FeedSteps DEF Opened, Stashed, Closed, CacheShape
<1>4. CASE TimeOut
  BY <1>4, TimeOutSteps DEF CacheShape
<1>5. CASE HostRestart
  BY <1>5, RestartForms DEF CacheShape
<1>6. CASE FirmwareStep
  BY <1>6, FirmwareSteps DEF CacheShape
<1>7. CASE ModuleReset
  BY <1>7, ResetForms DEF CacheShape
<1>8. CASE UNCHANGED vars
  BY <1>8 DEF vars, driver, CacheShape
<1> QED
  BY <1>1, <1>2, <1>3, <1>4, <1>5, <1>6, <1>7, <1>8 DEF Next, FirmwareStep

-----------------------------------------------------------------------------
(***************************************************************************)
(* While begin() pings, no setting is on its way; what is left of an       *)
(* energy scan comes before the PONG.                                      *)
(***************************************************************************)
LEMMA ScannedLaunch ==
  ASSUME LinkTypeOK, AnswersApart, CacheShape, Scanned, NEW n, Launched(n, Ping),
         cache' = cache, unsure' = unsure
  PROVE  Scanned'
<1>1. /\ toHost \in Seq(Messages) /\ stash' = None /\ script' = script /\ (TakenUp(Ping) \/ Missed)
  BY DEF Launched, LinkTypeOK
<1>2. Ping \in Commands /\ "OK" \in AnswerTypes /\ Response(Ping) # "OK"
  BY DEF Commands, AnswerTypes, Response, Ping
<1>3. Flying("OK")' \subseteq Flying("OK")
  BY <1>2, FlyingLaunched
<1>4. \A k \in DOMAIN toHost' : toHost'[k].type # "RX_FRAME" => k \in DOMAIN toHost /\ toHost'[k] = toHost[k]
  <2>1. CASE toHost' = toHost
    BY <2>1
  <2>2. CASE toHost' = Append(toHost, RxFrame)
    <3>1. /\ DOMAIN toHost' = 1 .. Len(toHost) + 1 /\ toHost'[Len(toHost) + 1] = RxFrame
          /\ \A k \in DOMAIN toHost : toHost'[k] = toHost[k]
          /\ DOMAIN toHost = 1 .. Len(toHost) /\ Len(toHost) \in Nat
      BY <1>1, <2>2, Appended, Shapes
    <3> QED
      BY <3>1, Shapes
  <2> QED
    BY <1>1, <2>1, <2>2 DEF TakenUp, Missed
<1>5. Busy' => (Busy /\ job' = job) \/ job'.kind # "ed"
  BY <1>1 DEF TakenUp, Missed, Busy, Ping
<1> QED
  BY <1>1, <1>3, <1>4, <1>5 DEF Scanned, Pinging

\* While begin() pings, no answer to a setting comes in after the PONG.
LEMMA ScannedStep ==
  ASSUME LinkTypeOK, BeginShape, AnswersApart, CacheShape, Scanned, [Next]_vars
  PROVE  Scanned'
<1>0. /\ toHost \in Seq(Messages) /\ stack \in Seq(Activations) /\ issued \in Nat
      /\ DOMAIN toHost = 1 .. Len(toHost) /\ Len(toHost) \in Nat /\ script \in Scripts
      /\ "OK" \in AnswerTypes
  BY LenProperties DEF LinkTypeOK, AnswerTypes
<1>1. ASSUME NEW c \in Calls, Call(c) PROVE Scanned'
  BY <1>1, CallStarts DEF Scanned, Pinging
<1>2. CASE Begin
  <2>1. CASE Pinging
    <3>1. /\ Launched(0, Ping) /\ Ping \in Commands /\ cache' = CacheBefore(Ping) /\ unsure' = unsure
      BY <1>2, <2>1, BeginLaunches DEF Pinging
    <3>2. CacheBefore(Ping) = cache
      BY <3>1, CacheBeforeFields DEF Ping
    <3> QED
      BY <3>1, <3>2, ScannedLaunch
  <2>2. CASE ~Pinging
    BY <1>2, <2>2, BeginLaunches DEF Scanned, Pinging
  <2> QED
    BY <2>1, <2>2
<1>3. CASE Feed \/ Return
  <2>1. /\ UNCHANGED <<job, issued, unsure>> /\ (ReadOne \/ ReadNone) /\ Flying("OK")' \subseteq Flying("OK")
    BY <1>0, <1>3, FeedReads, FlyingReads
  <2>2. Busy' <=> Busy
    BY <2>1 DEF Busy
  <2>3. ASSUME NEW n \in DOMAIN stack, NEW r \in Answers, Finished(n, r)
        PROVE  ~Pinging'
    BY <1>0, <2>3, ScriptTyped DEF Finished, BeginShape, Pinging
  <2>4. CASE Opened \/ Stashed
    <3>1. /\ UNCHANGED <<script, cache>> /\ toHost # <<>> /\ toHost' = Tail(toHost)
          /\ stash' \in {stash, Head(toHost)}
      BY <2>4 DEF Opened, Stashed
    <3>2. /\ \A i \in DOMAIN toHost' : i \in Nat /\ i + 1 \in DOMAIN toHost /\ toHost'[i] = toHost[i + 1]
          /\ Head(toHost) = toHost[1] /\ 1 \in DOMAIN toHost
      BY <1>0, <3>1, WithoutFirst
    <3>3. ASSUME Pinging, ~unsure, NEW k \in DOMAIN toHost', toHost'[k].type = "PONG"
          PROVE  /\ Busy => job.kind # "ed"
                 /\ \A l \in DOMAIN toHost' : toHost'[l].type = "ED_RESULT" => l < k
      <4>1. /\ Busy => job.kind # "ed"
            /\ \A l \in DOMAIN toHost : toHost[l].type = "ED_RESULT" => l < k + 1
        BY <3>2, <3>3 DEF Scanned
      <4>2. ASSUME NEW l \in DOMAIN toHost', toHost'[l].type = "ED_RESULT" PROVE l < k
        <5>1. l + 1 < k + 1 /\ l \in Nat /\ k \in Nat
          BY <3>2, <4>1, <4>2
        <5> QED
          BY <5>1
      <4> QED
        BY <4>1, <4>2
    <3>4. ASSUME Pinging, ~unsure, stash' # None, stash'.type = "PONG"
          PROVE  /\ Busy => job.kind # "ed"
                 /\ \A l \in DOMAIN toHost' : toHost'[l].type # "ED_RESULT"
      <4>1. CASE stash' = stash
        BY <3>2, <3>4, <4>1 DEF Scanned
      <4>2. CASE stash' = toHost[1]
        <5>1. /\ Busy => job.kind # "ed"
              /\ \A l \in DOMAIN toHost : toHost[l].type = "ED_RESULT" => l < 1
          BY <3>2, <3>4, <4>2 DEF Scanned
        <5>2. ASSUME NEW l \in DOMAIN toHost', toHost'[l].type = "ED_RESULT" PROVE FALSE
          <6>1. l + 1 < 1 /\ l \in Nat
            BY <3>2, <5>1, <5>2
          <6> QED
            BY <6>1
        <5> QED
          BY <5>1, <5>2
      <4> QED
        BY <3>1, <3>2, <4>1, <4>2
    <3> QED
      BY <2>1, <2>2, <3>1, <3>3, <3>4 DEF Scanned, Pinging
  <2>5. CASE Closed
    BY <2>1, <2>2, <2>5 DEF Closed, Scanned, Pinging
  <2> QED
    BY <1>3, <2>3, <2>4, <2>5, FeedSteps DEF Scanned
<1>4. CASE TimeOut
  <2> DEFINE n == Len(stack)
  <2>1. /\ n \in DOMAIN stack /\ IsWait(n) /\ cache' = cache
        /\ unsure' = (unsure \/ Response(stack[n].cmd) \in Settings)
        /\ Retried(n) \/ GaveUp(n)
    BY <1>4, TimeOutSteps
  <2> HIDE DEF n
  <2>2. CASE Retried(n)
    <3>1. Launched(n - 1, stack[n].cmd) /\ script' = script
      BY <2>2 DEF Retried, Launched
    <3>2. CASE Pinging
      <4>1. stack[n].cmd = Ping
        BY <2>1, <3>2 DEF BeginShape, Pinging
      <4>2. unsure' = unsure
        <5>1. Response(Ping) \notin Settings /\ unsure \in BOOLEAN
          BY DEF Response, Settings, Ping, LinkTypeOK
        <5> QED
          BY <2>1, <4>1, <5>1
      <4> QED
        BY <2>1, <3>1, <4>1, <4>2, ScannedLaunch
    <3>3. CASE ~Pinging
      BY <3>1, <3>3 DEF Scanned, Pinging
    <3> QED
      BY <3>2, <3>3
  <2>3. CASE GaveUp(n)
    <3>1. script' = <<>> \/ (script # <<>> /\ script' = Tail(script))
      BY <2>1, <2>3 DEF GaveUp, BeginShape
    <3>2. ~Pinging'
      BY <1>0, <3>1, ScriptTyped DEF Pinging
    <3> QED
      BY <3>2 DEF Scanned
  <2> QED
    BY <2>1, <2>2, <2>3
<1>5. CASE HostRestart
  <2>1. /\ DOMAIN toHost' = {} /\ stash' = None /\ cache'.promisc = FALSE /\ UNCHANGED <<job, issued>>
        /\ cache'.address = ResetConfig.address /\ (Busy => job.kind \in Slow)
    BY <1>5, RestartForms
  <2>2. Busy => Response(job.cmd) # "OK"
    BY <2>1 DEF LinkTypeOK, Slow, Transmits, Response
  <2>3. Busy' <=> Busy
    BY <2>1 DEF Busy
  <2>4. Flying("OK")' = {}
    BY <2>1, <2>2, <2>3 DEF Flying
  <2> QED
    BY <2>1, <2>4 DEF Scanned
<1>6. CASE FirmwareStep
  <2>1. UNCHANGED <<stack, script, cache, stash, unsure>> /\ (Continued \/ Answered)
    BY <1>6, FirmwareSteps
  <2>2. Flying("OK")' \subseteq Flying("OK")
    BY <1>0, <1>6, FlyingAnswers
  <2>3. CASE Continued
    <3>1. (Busy' <=> Busy) /\ (Busy => job'.kind = job.kind)
      BY <2>3, Shapes DEF Continued, Busy
    <3>2. \A k \in DOMAIN toHost' : toHost'[k].type # "RX_FRAME" => k \in DOMAIN toHost /\ toHost'[k] = toHost[k]
      <4>1. CASE toHost' = toHost
        BY <4>1
      <4>2. CASE toHost' = Append(toHost, RxFrame)
        <5>1. /\ DOMAIN toHost' = 1 .. Len(toHost) + 1 /\ toHost'[Len(toHost) + 1] = RxFrame
              /\ \A k \in DOMAIN toHost : toHost'[k] = toHost[k]
          BY <1>0, <4>2, Appended, Shapes
        <5> QED
          BY <1>0, <5>1, Shapes
      <4> QED
        BY <2>3, <4>1, <4>2 DEF Continued
    <3> QED
      BY <2>1, <2>2, <3>1, <3>2 DEF Scanned, Pinging
  <2>4. CASE Answered
    <3>1. PICK ok \in BOOLEAN : toHost' = Append(toHost, Answer(ok))
      BY <2>4 DEF Answered
    <3>2. Answer(ok) \in Messages /\ Answer(ok).type = Response(job.cmd) /\ Busy /\ ~Busy'
      BY <2>4, AnswerTyped DEF Answered, Busy
    <3>3. /\ DOMAIN toHost' = 1 .. Len(toHost) + 1 /\ toHost'[Len(toHost) + 1].type = Response(job.cmd)
          /\ \A k \in DOMAIN toHost : toHost'[k] = toHost[k]
      <4> HIDE DEF Answer
      <4> QED
        BY <1>0, <3>1, <3>2, Appended
    <3>4. job.kind = job.cmd.kind /\ (Response(job.cmd) = "ED_RESULT" => job.kind = "ed")
      <4>1. job.kind = job.cmd.kind /\ job.cmd \in Commands
        BY <3>2 DEF LinkTypeOK, Busy, Jobs
      <4> QED
        BY <4>1, CommandTyped DEF Response
    <3>5. \A k \in DOMAIN toHost' :
            \/ k \in DOMAIN toHost /\ toHost'[k] = toHost[k] /\ k < Len(toHost) + 1
            \/ k = Len(toHost) + 1 /\ toHost'[k].type = Response(job.cmd)
      BY <1>0, <3>3
    <3>6. ASSUME Pinging, ~unsure, NEW k \in DOMAIN toHost', toHost'[k].type = "PONG",
                 NEW l \in DOMAIN toHost', toHost'[l].type = "ED_RESULT"
          PROVE  l < k
      <4>1. CASE k \in DOMAIN toHost /\ toHost'[k] = toHost[k]
        BY <3>2, <3>4, <3>5, <3>6, <4>1 DEF Scanned
      <4>2. CASE k = Len(toHost) + 1
        <5>1. Response(job.cmd) = "PONG"
          BY <1>0, <3>5, <3>6, <4>2
        <5> QED
          BY <3>5, <3>6, <4>2, <5>1
      <4> QED
        BY <3>5, <4>1, <4>2
    <3>7. ASSUME Pinging, ~unsure, stash # None, stash.type = "PONG", NEW l \in DOMAIN toHost'
          PROVE  toHost'[l].type # "ED_RESULT"
      BY <3>2, <3>4, <3>5, <3>7 DEF Scanned
    <3> QED
      BY <2>1, <2>2, <3>2, <3>6, <3>7 DEF Scanned, Pinging
  <2> QED
    BY <2>1, <2>3, <2>4
<1>7. CASE ModuleReset
  BY <1>7, ResetForms DEF Scanned
<1>8. CASE UNCHANGED vars
  BY <1>8 DEF vars, driver, firmware, history, counts, Scanned, Pinging, Flying, Busy
<1> QED
  BY <1>1, <1>2, <1>3, <1>4, <1>5, <1>6, <1>7, <1>8 DEF Next, FirmwareStep

-----------------------------------------------------------------------------
(***************************************************************************)
(* The counting: no step lets the answers under way catch up on the waits, *)
(* but for a setting that was taken up as it was sent.                     *)
(***************************************************************************)
LEMMA NumbersBounded ==
  ASSUME LinkTypeOK, NEW t
  PROVE  /\ issued \in Nat /\ Flying(t) \subseteq 1 .. issued /\ Awaited(t) \subseteq 1 .. issued
         /\ Cardinality(Flying(t)) \in Nat /\ Cardinality(Awaited(t)) \in Nat
<1>1. issued \in Nat /\ Flying(t) \subseteq 1 .. issued /\ Awaited(t) \subseteq 1 .. issued
  BY DEF LinkTypeOK, Flying, Awaited
<1> QED
  BY <1>1, Counted

\* A step that brings no answer under way and ends no wait keeps the balance.
LEMMA BalancedLasts ==
  ASSUME LinkTypeOK, Balanced, issued' = issued,
         \A t \in Settings : Flying(t)' \subseteq Flying(t) /\ Awaited(t)' = Awaited(t),
         Agreement => Agreement'
  PROVE  Balanced'
<1>1. ASSUME NEW t \in Settings
      PROVE  /\ Cardinality(Flying(t)') <= Cardinality(Flying(t))
             /\ Cardinality(Flying(t)') \in Nat /\ Cardinality(Flying(t)) \in Nat
             /\ Cardinality(Awaited(t)') = Cardinality(Awaited(t)) /\ Cardinality(Awaited(t)) \in Nat
  BY NumbersBounded, Counted
<1>2. ASSUME NEW t \in Settings
      PROVE  /\ Cardinality(Flying(t))' = Cardinality(Flying(t)')
             /\ Cardinality(Awaited(t))' = Cardinality(Awaited(t)')
  OBVIOUS
<1>3. ASSUME InStep' PROVE InStep
  BY <1>1, <1>2, <1>3 DEF InStep, Balanced
<1>4. \A t \in Settings : Cardinality(Flying(t))' <= Cardinality(Awaited(t))'
  BY <1>1, <1>2 DEF Balanced
<1> QED
  BY <1>3, <1>4 DEF Balanced

(***************************************************************************)
(* A command that is taken up, or that is no setting, keeps the agreement  *)
(* unless it contradicts a setting that it interrupts.                     *)
(***************************************************************************)
LEMMA LaunchAgrees ==
  ASSUME LinkTypeOK, CacheShape, NEW c \in Commands, NEW n, Launched(n, c), cache' = CacheBefore(c),
         ~Contradicts(c), TakenUp(c) \/ Response(c) \notin Settings, Agreement,
         \A i \in DOMAIN stack : IsWait(i) /\ i > n => Remembers(stack[i].cmd) = "nothing"
  PROVE  Agreement'
<1>0. /\ n \in Nat /\ DOMAIN stack' = 1 .. n + 1 /\ 1 .. n \subseteq DOMAIN stack
      /\ DOMAIN stack = 1 .. Len(stack) /\ Len(stack) \in Nat
      /\ config' = config /\ script' = script /\ (TakenUp(c) \/ Missed)
  BY LenProperties DEF Launched, LinkTypeOK
<1>1. IsWait(n + 1)' /\ stack'[n + 1].cmd = c
  BY DEF Launched, IsWait, WaitRecords
<1>2. ASSUME NEW m \in {"channel", "address"}
      PROVE  /\ \A i \in DOMAIN stack' : Waiting(i, m)' =>
                  \/ i = n + 1 /\ Remembers(c) = m
                  \/ i \in DOMAIN stack /\ Waiting(i, m) /\ stack'[i].cmd = stack[i].cmd
             /\ (\A i \in DOMAIN stack' : ~Waiting(i, m)') =>
                  Remembers(c) # m /\ \A i \in DOMAIN stack : ~Waiting(i, m)
  <2>1. ASSUME NEW i \in 1 .. n
        PROVE  /\ IsWait(i)' <=> IsWait(i)
               /\ IsWait(i) => stack'[i].cmd = stack[i].cmd
               /\ i \in DOMAIN stack /\ i \in DOMAIN stack'
    BY <1>0 DEF Launched
  <2>2. ASSUME NEW i \in 1 .. n PROVE Waiting(i, m)' <=> Waiting(i, m)
    <3>1. CASE IsWait(i)
      BY <2>1, <3>1 DEF Waiting, Remembers
    <3>2. CASE ~IsWait(i)
      BY <2>1, <3>2 DEF Waiting
    <3> QED
      BY <3>1, <3>2
  <2>3. Waiting(n + 1, m)' <=> Remembers(c) = m
    BY <1>1 DEF Waiting, Remembers
  <2>4. \A i \in DOMAIN stack : Waiting(i, m) => i \in 1 .. n
    BY <1>0 DEF Waiting
  <2>5. \A i \in DOMAIN stack' : i = n + 1 \/ i \in 1 .. n
    BY <1>0
  <2>6. n + 1 \in DOMAIN stack'
    BY <1>0
  <2>7. \A i \in DOMAIN stack' : Waiting(i, m)' =>
          \/ i = n + 1 /\ Remembers(c) = m
          \/ i \in DOMAIN stack /\ Waiting(i, m) /\ stack'[i].cmd = stack[i].cmd
    BY <2>1, <2>2, <2>3, <2>5 DEF Waiting
  <2>8. (\A i \in DOMAIN stack' : ~Waiting(i, m)') =>
          Remembers(c) # m /\ \A i \in DOMAIN stack : ~Waiting(i, m)
    BY <2>1, <2>2, <2>3, <2>4, <2>6
  <2> QED
    BY <2>7, <2>8
<1>3. /\ cache'.channel = cache.channel /\ cache'.address = cache.address
      /\ c.kind = "promisc" => cache'.promisc = c.arg
      /\ c.kind = "mac" /\ c.arg.filter => cache'.promisc = FALSE
      /\ c.kind # "promisc" /\ ~(c.kind = "mac" /\ c.arg.filter) => cache' = cache
  BY CacheBeforeFields
<1>4. /\ Target'.channel = IF Remembers(c) = "channel" THEN c.arg ELSE Target.channel
      /\ Target'.address = IF Remembers(c) = "address" THEN c.arg ELSE Target.address
      /\ Target'.filter = IF c.kind = "promisc" THEN ~c.arg
                          ELSE IF c.kind = "mac" THEN c.arg.filter ELSE Target.filter
  <2>1. CASE TakenUp(c)
    <3>1. Target = config /\ Busy' /\ job'.cmd = c
      BY <2>1, Shapes DEF Target, TakenUp, Busy
    <3>2. Target' = Applied(c)
      BY <1>0, <3>1 DEF Target, Applied
    <3>3. /\ DOMAIN config = DOMAIN ResetConfig /\ config.cca \in BOOLEAN /\ config.filter \in BOOLEAN
      BY DEF LinkTypeOK
    <3> QED
      BY <3>1, <3>2, <3>3, AppliedFields, RememberedIsSetting
  <2>2. CASE Missed /\ Response(c) \notin Settings
    <3>1. Target' = Target
      BY <1>0, <2>2 DEF Target, Missed, Busy, Applied
    <3> QED
      BY <2>2, <3>1, RememberedIsSetting
  <2> QED
    BY <1>0, <2>1, <2>2
<1>5. ASSUME NEW m \in {"channel", "address"}, NEW i \in DOMAIN stack, Waiting(i, m), Remembers(c) = m
      PROVE  stack[i].cmd.arg = c.arg
  BY <1>5 DEF Contradicts, Waiting, IsWait
<1>6. \A i \in DOMAIN stack' : Waiting(i, "channel")' => Target'.channel = stack'[i].cmd.arg
  BY <1>1, <1>2, <1>4, <1>5 DEF Agreement
<1>7. \A i \in DOMAIN stack' : Waiting(i, "address")' => Target'.address = stack'[i].cmd.arg
  BY <1>1, <1>2, <1>4, <1>5 DEF Agreement
<1>8. (script' = <<>> /\ \A i \in DOMAIN stack' : ~Waiting(i, "channel")') => cache'.channel = Target'.channel
  BY <1>0, <1>2, <1>3, <1>4 DEF Agreement
<1>9. (\A i \in DOMAIN stack' : ~Waiting(i, "address")')
        => cache'.address \in {ResetConfig.address, Target'.address}
  BY <1>2, <1>3, <1>4 DEF Agreement
<1>10. cache'.promisc => ~Target'.filter
  <2>1. CASE c.kind = "promisc"
    BY <1>3, <1>4, <2>1
  <2>2. CASE c.kind = "mac" /\ c.arg.filter
    BY <1>3, <2>2
  <2>3. CASE c.kind = "mac" /\ ~c.arg.filter
    BY <1>4, <2>3
  <2>4. CASE c.kind \notin {"promisc", "mac"}
    BY <1>3, <1>4, <2>4 DEF Agreement
  <2> QED
    BY <2>1, <2>2, <2>3, <2>4
<1> QED
  BY <1>6, <1>7, <1>8, <1>9, <1>10 DEF Agreement

\* Sending a command that contradicts no wait keeps the balance.
LEMMA LaunchBalanced ==
  ASSUME LinkTypeOK, CacheShape, AnswersApart, WaitsApart, NEW c \in Commands, NEW n, Launched(n, c),
         cache' = CacheBefore(c), ~Contradicts(c), Balanced,
         \A i \in DOMAIN stack : IsWait(i) /\ i > n => Response(stack[i].cmd) \notin Settings
  PROVE  Balanced'
<1>0. issued \in Nat /\ issued' = issued + 1 /\ Settings \subseteq AnswerTypes
  BY DEF Launched, LinkTypeOK, Settings, AnswerTypes
<1> DEFINE f(t) == Cardinality(Flying(t))
           g(t) == Cardinality(Flying(t)')
           a(t) == Cardinality(Awaited(t))
           b(t) == Cardinality(Awaited(t)')
<1>1. ASSUME NEW t \in Settings
      PROVE  /\ f(t) \in Nat /\ g(t) \in Nat /\ a(t) \in Nat /\ b(t) \in Nat
             /\ b(t) = IF Response(c) = t THEN a(t) + 1 ELSE a(t)
             /\ g(t) <= f(t) + 1
             /\ ~(TakenUp(c) /\ Response(c) = t) => g(t) <= f(t)
  <2>1. t \in AnswerTypes /\ Flying(t) \subseteq 1 .. issued /\ Awaited(t) \subseteq 1 .. issued
        /\ f(t) \in Nat /\ a(t) \in Nat
    BY <1>0, NumbersBounded
  <2>2. /\ Flying(t)' \subseteq Flying(t) \cup {issued + 1}
        /\ ~(TakenUp(c) /\ Response(c) = t) => Flying(t)' \subseteq Flying(t)
    BY <2>1, FlyingLaunched
  <2>3. Awaited(t)' = IF Response(c) = t THEN Awaited(t) \cup {issued + 1} ELSE Awaited(t)
    BY <2>1, AwaitedLaunched
  <2>4. b(t) = IF Response(c) = t THEN a(t) + 1 ELSE a(t)
    BY <1>0, <2>1, <2>3, CountedOneMore
  <2>5. g(t) \in Nat /\ g(t) <= f(t) + 1
    <3>1. /\ Cardinality(Flying(t) \cup {issued + 1}) = f(t) + 1
          /\ Flying(t) \cup {issued + 1} \subseteq 1 .. issued + 1 /\ issued + 1 \in Nat
      BY <1>0, <2>1, CountedOneMore
    <3> QED
      BY <2>2, <3>1, Counted
  <2>6. ~(TakenUp(c) /\ Response(c) = t) => g(t) <= f(t)
    BY <1>0, <2>1, <2>2, Counted
  <2> QED
    BY <2>1, <2>4, <2>5, <2>6
<1>2. \A t \in Settings : f(t) <= a(t)
  BY DEF Balanced
<1>3. ASSUME NEW t \in Settings
      PROVE  /\ Cardinality(Flying(t))' = g(t) /\ Cardinality(Awaited(t))' = b(t)
  OBVIOUS
<1>4. InStep <=> \A t \in Settings : f(t) = a(t)
  BY DEF InStep
<1>5. InStep' <=> \A t \in Settings : g(t) = b(t)
  BY <1>3 DEF InStep
<1> HIDE DEF f, g, a, b
<1>6. \A t \in Settings : g(t) <= b(t)
  BY <1>1, <1>2
<1>7. ASSUME InStep' PROVE InStep /\ (TakenUp(c) \/ Response(c) \notin Settings)
  <2>1. \A t \in Settings : g(t) = b(t)
    BY <1>5, <1>7
  <2>2. ASSUME NEW t \in Settings PROVE f(t) = a(t) /\ (Response(c) = t => TakenUp(c))
    BY <1>1, <1>2, <2>1
  <2> QED
    BY <1>4, <2>2
<1>8. ASSUME InStep' PROVE Agreement'
  <2>1. \A i \in DOMAIN stack : IsWait(i) /\ i > n => Remembers(stack[i].cmd) = "nothing"
    <3>1. \A i \in DOMAIN stack : IsWait(i) => stack[i].cmd \in Commands
      BY Shapes, ElementOfSeq, LenProperties DEF LinkTypeOK, IsWait, WaitRecords
    <3> QED
      BY <3>1, RememberedIsSetting
  <2>2. Agreement
    BY <1>7, <1>8 DEF Balanced
  <2> QED
    BY <1>7, <1>8, <2>1, <2>2, LaunchAgrees
<1>9. \A t \in Settings : Cardinality(Flying(t))' <= Cardinality(Awaited(t))'
  BY <1>3, <1>6
<1> QED
  BY <1>8, <1>9 DEF Balanced

(***************************************************************************)
(* A wait that ends with a response takes one answer out of the count.     *)
(***************************************************************************)
LEMMA FinishedCounts ==
  ASSUME LinkTypeOK, AnswersApart, WaitsApart, NEW n \in DOMAIN stack, NEW r \in Answers, Finished(n, r),
         UNCHANGED <<job, issued>>, NEW t \in Settings
  PROVE  /\ Flying(t)' \subseteq Flying(t)
         /\ r.type = t => r.id \in Flying(t) /\ r.id \notin Flying(t)'
         /\ Awaited(t)' = IF r.type = t THEN Awaited(t) \ {stack[n].id} ELSE Awaited(t)
         /\ r.type = t => stack[n].id \in Awaited(t)
<1>0. t \in AnswerTypes /\ toHost \in Seq(Messages) /\ (Busy' <=> Busy) /\ stash' = None
  BY DEF Settings, AnswerTypes, LinkTypeOK, Busy, Finished
<1>1. Flying(t)' \subseteq Flying(t)
  <2>1. ReadOne \/ ReadNone
    BY DEF Finished, ReadOne, ReadNone
  <2> QED
    BY <1>0, <2>1, FlyingReads
<1>2. ASSUME r.type = t PROVE r.id \in Flying(t) /\ r.id \notin Flying(t)'
  <2>1. r # None /\ IsAnswer(r)
    BY <1>0, <1>2, Shapes DEF IsAnswer
  <2>2. CASE toHost # <<>> /\ r = Head(toHost) /\ toHost' = Tail(toHost)
    <3>1. /\ \A i \in DOMAIN toHost' : /\ i \in 1 .. Len(toHost) - 1 /\ Len(toHost) \in Nat
                                      /\ i + 1 \in DOMAIN toHost /\ toHost'[i] = toHost[i + 1]
          /\ r = toHost[1] /\ 1 \in DOMAIN toHost
      BY <1>0, <2>2, WithoutFirst
    <3>2. r.id \in 1 .. issued /\ (Busy => job.id # r.id)
      BY <2>1, <3>1 DEF AnswersApart
    <3>3. ASSUME NEW i \in DOMAIN toHost', toHost'[i].type = t PROVE toHost'[i].id # r.id
      <4>1. IsAnswer(toHost[i + 1]) /\ i + 1 # 1 /\ i + 1 \in DOMAIN toHost
        BY <1>0, <3>1, <3>3, Shapes, ElementOfSeq, LenProperties DEF IsAnswer
      <4> QED
        BY <2>1, <3>1, <4>1 DEF AnswersApart
    <3>4. r.id \in Flying(t)
      BY <1>2, <3>1, <3>2 DEF Flying
    <3> QED
      BY <1>0, <3>2, <3>3, <3>4 DEF Flying
  <2>3. CASE r = stash /\ toHost' = toHost
    <3>1. r.id \in 1 .. issued /\ (Busy => job.id # r.id)
      BY <2>1, <2>3 DEF AnswersApart
    <3>2. ASSUME NEW k \in DOMAIN toHost, toHost[k].type = t PROVE toHost[k].id # r.id
      <4>1. IsAnswer(toHost[k])
        BY <1>0, <3>2, Shapes, ElementOfSeq, LenProperties DEF IsAnswer
      <4> QED
        BY <2>1, <2>3, <4>1 DEF AnswersApart
    <3> QED
      BY <1>0, <1>2, <2>1, <2>3, <3>1, <3>2 DEF Flying
  <2> QED
    BY <2>2, <2>3 DEF Finished
<1>3. /\ IsWait(n) /\ r.type = Response(stack[n].cmd) /\ DOMAIN stack' = 1 .. n - 1
      /\ \A i \in 1 .. n - 1 : i \in DOMAIN stack /\ stack'[i] = stack[i]
      /\ \A i \in DOMAIN stack : i > n => ~IsWait(i)
  BY DEF Finished
<1>4. DOMAIN stack = 1 .. Len(stack) /\ Len(stack) \in Nat
  BY LenProperties DEF LinkTypeOK
<1>5. r.type = t => stack[n].id \in Awaited(t)
  BY <1>3 DEF Awaited, WaitsApart
<1>6. ASSUME NEW id \in Awaited(t), ~(r.type = t /\ id = stack[n].id) PROVE id \in Awaited(t)'
  <2>1. PICK i \in DOMAIN stack : IsWait(i) /\ Response(stack[i].cmd) = t /\ stack[i].id = id
    BY DEF Awaited
  <2>2. i # n
    BY <1>3, <1>6, <2>1
  <2>3. i \in 1 .. n - 1
    BY <1>3, <1>4, <2>1, <2>2
  <2>4. i \in DOMAIN stack' /\ IsWait(i)' /\ Response(stack[i].cmd)' = t /\ stack'[i].id = id
        /\ stack'[i] = stack[i]
    BY <1>3, <2>1, <2>3 DEF IsWait, Response
  <2>5. id \in 1 .. issued' /\ Response(stack'[i].cmd) = t
    BY <2>1, <2>4 DEF Awaited
  <2> QED
    BY <2>4, <2>5 DEF Awaited
<1>7. ASSUME NEW id \in Awaited(t)' PROVE id \in Awaited(t) /\ ~(r.type = t /\ id = stack[n].id)
  <2>1. PICK i \in DOMAIN stack' : IsWait(i)' /\ Response(stack'[i].cmd) = t /\ stack'[i].id = id
    BY DEF Awaited
  <2>2. i \in DOMAIN stack /\ stack'[i] = stack[i] /\ IsWait(i) /\ i # n
    BY <1>3, <1>4, <2>1 DEF IsWait
  <2> QED
    BY <1>3, <2>1, <2>2 DEF Awaited, WaitsApart
<1> QED
  BY <1>1, <1>2, <1>5, <1>6, <1>7

\* With as many answers as waits, the end of a wait makes the driver believe what the module holds.
LEMMA FinishedAgrees ==
  ASSUME LinkTypeOK, CacheShape, BeginShape, NEW n \in DOMAIN stack, NEW r \in Answers, Finished(n, r),
         UNCHANGED <<job, config>>, Agreement
  PROVE  Agreement'
<1> DEFINE c == stack[n].cmd
<1>1. /\ IsWait(n) /\ c \in Commands /\ DOMAIN stack' = 1 .. n - 1 /\ cache' = CacheAfter(c)
      /\ \A i \in 1 .. n - 1 : i \in DOMAIN stack /\ stack'[i] = stack[i]
      /\ \A i \in DOMAIN stack : i > n => ~IsWait(i)
      /\ script' = IF stack[n].begin THEN Tail(script) ELSE script
  BY DEF Finished, WaitRecords
<1>2. DOMAIN stack = 1 .. Len(stack) /\ Len(stack) \in Nat /\ script \in Scripts
  BY LenProperties DEF LinkTypeOK
<1>3. Target' = Target
  BY DEF Target, Busy, Applied
<1>4. ASSUME NEW m \in {"channel", "address"}
      PROVE  /\ \A i \in DOMAIN stack' : Waiting(i, m)' =>
                  i \in DOMAIN stack /\ Waiting(i, m) /\ stack'[i] = stack[i]
             /\ (\A i \in DOMAIN stack' : ~Waiting(i, m)') /\ Remembers(c) # m
                  => \A i \in DOMAIN stack : ~Waiting(i, m)
             /\ Remembers(c) = m => Waiting(n, m)
  <2>1. ASSUME NEW i \in DOMAIN stack' 
        PROVE  i \in DOMAIN stack /\ stack'[i] = stack[i] /\ (Waiting(i, m)' <=> Waiting(i, m))
    <3>1. i \in DOMAIN stack /\ stack'[i] = stack[i]
      BY <1>1
    <3> QED
      BY <3>1 DEF Waiting, IsWait, Remembers
  <2>2. \A i \in DOMAIN stack : Waiting(i, m) => i = n \/ i \in DOMAIN stack'
    BY <1>1, <1>2 DEF Waiting
  <2>3. Waiting(n, m) <=> Remembers(c) = m
    BY <1>1 DEF Waiting
  <2> QED
    BY <2>1, <2>2, <2>3
<1>5. /\ cache'.promisc = cache.promisc
      /\ cache'.channel = IF Remembers(c) = "channel" THEN c.arg ELSE cache.channel
      /\ cache'.address = IF Remembers(c) = "address" THEN c.arg ELSE cache.address
  BY <1>1, CacheAfterFields
<1>6. script' = <<>> => script = <<>> \/ Remembers(c) = "channel"
  <2>1. ASSUME script' = <<>>, script # <<>> PROVE Remembers(c) = "channel"
    <3>1. stack[n].begin /\ c = Head(script) /\ Tail(script) = <<>>
      BY <1>1, <2>1 DEF BeginShape
    <3>2. c = SetChannel(StartChannel)
      BY <1>2, <2>1, <3>1, ScriptTyped
    <3> QED
      BY <3>2 DEF Remembers, SetChannel
  <2> QED
    BY <2>1
<1> HIDE DEF c
<1>7. \A m \in {"channel", "address"} : Waiting(n, m) =>
         /\ m = "channel" => Target.channel = c.arg
         /\ m = "address" => Target.address = c.arg
  BY DEF Agreement, c
<1>8. (script' = <<>> /\ \A i \in DOMAIN stack' : ~Waiting(i, "channel")') => cache'.channel = Target'.channel
  BY <1>3, <1>4, <1>5, <1>6, <1>7 DEF Agreement
<1>9. (\A i \in DOMAIN stack' : ~Waiting(i, "address")')
        => cache'.address \in {ResetConfig.address, Target'.address}
  BY <1>3, <1>4, <1>5, <1>7 DEF Agreement
<1>10. /\ \A i \in DOMAIN stack' : Waiting(i, "channel")' => Target'.channel = stack'[i].cmd.arg
       /\ \A i \in DOMAIN stack' : Waiting(i, "address")' => Target'.address = stack'[i].cmd.arg
  BY <1>3, <1>4 DEF Agreement
<1> QED
  BY <1>3, <1>5, <1>8, <1>9, <1>10 DEF Agreement

\* The end of a wait takes one answer and one wait.
LEMMA FinishedBalanced ==
  ASSUME LinkTypeOK, CacheShape, BeginShape, AnswersApart, WaitsApart, NEW n \in DOMAIN stack, NEW r \in Answers,
         Finished(n, r), UNCHANGED <<job, config, issued>>, Balanced
  PROVE  Balanced'
<1>1. ASSUME NEW t \in Settings
      PROVE  LET f == Cardinality(Flying(t))
                 g == Cardinality(Flying(t)')
                 a == Cardinality(Awaited(t))
                 b == Cardinality(Awaited(t)')
             IN  /\ f \in Nat /\ g \in Nat /\ a \in Nat /\ b \in Nat /\ f <= a
                 /\ \/ g <= f /\ b = a
                    \/ g + 1 <= f /\ b = a - 1
  <2>1. /\ Flying(t) \subseteq 1 .. issued /\ Awaited(t) \subseteq 1 .. issued /\ issued \in Nat
        /\ Cardinality(Awaited(t)) \in Nat
    BY NumbersBounded
  <2>2. /\ Flying(t)' \subseteq Flying(t)
        /\ r.type = t => r.id \in Flying(t) /\ r.id \notin Flying(t)'
        /\ Awaited(t)' = IF r.type = t THEN Awaited(t) \ {stack[n].id} ELSE Awaited(t)
        /\ r.type = t => stack[n].id \in Awaited(t)
    BY FinishedCounts
  <2>3. /\ Cardinality(Flying(t)) \in Nat /\ Cardinality(Flying(t)') \in Nat
        /\ Cardinality(Flying(t)') <= Cardinality(Flying(t))
        /\ r.type = t => Cardinality(Flying(t)') + 1 <= Cardinality(Flying(t))
    BY <2>1, <2>2, Counted
  <2>4. r.type = t => Cardinality(Awaited(t)') = Cardinality(Awaited(t)) - 1 /\ Cardinality(Awaited(t)') \in Nat
    <3>1. Awaited(t) \ {stack[n].id} \subseteq Awaited(t)
      OBVIOUS
    <3> QED
      BY <2>1, <2>2, <3>1, Counted
  <2>5. Cardinality(Flying(t)) <= Cardinality(Awaited(t))
    BY DEF Balanced
  <2> QED
    BY <2>1, <2>2, <2>3, <2>4, <2>5
<1>2. ASSUME NEW t \in Settings
      PROVE  /\ Cardinality(Flying(t))' = Cardinality(Flying(t)')
             /\ Cardinality(Awaited(t))' = Cardinality(Awaited(t)')
  OBVIOUS
<1>3. ASSUME InStep' PROVE InStep
  BY <1>1, <1>2, <1>3 DEF InStep
<1>4. \A t \in Settings : Cardinality(Flying(t))' <= Cardinality(Awaited(t))'
  BY <1>1, <1>2
<1>5. Agreement => Agreement'
  BY FinishedAgrees
<1> QED
  BY <1>3, <1>4, <1>5 DEF Balanced

(***************************************************************************)
(* Steps that leave the waits for settings, the setting that is about to   *)
(* be reached, and what the driver remembers as they were.                 *)
(***************************************************************************)
LEMMA SameWaits ==
  ASSUME LinkTypeOK, issued' = issued, UNCHANGED <<script, cache>>, Target' = Target,
         \A i \in DOMAIN stack' : IsWait(i)' => i \in DOMAIN stack /\ stack'[i] = stack[i],
         \A i \in DOMAIN stack : IsWait(i) /\ Response(stack[i].cmd) \in Settings
                                   => i \in DOMAIN stack' /\ stack'[i] = stack[i]
  PROVE  /\ \A t \in Settings : Awaited(t)' = Awaited(t)
         /\ Agreement => Agreement'
<1>1. ASSUME NEW i \in DOMAIN stack', IsWait(i)'
      PROVE  IsWait(i) /\ i \in DOMAIN stack /\ stack'[i] = stack[i]
  BY <1>1 DEF IsWait
<1>2. ASSUME NEW i \in DOMAIN stack, IsWait(i), Response(stack[i].cmd) \in Settings
      PROVE  IsWait(i)' /\ i \in DOMAIN stack' /\ stack'[i] = stack[i]
  BY <1>2 DEF IsWait
<1>3. ASSUME NEW t \in Settings PROVE Awaited(t)' = Awaited(t)
  <2>1. ASSUME NEW id \in Awaited(t) PROVE id \in Awaited(t)'
    <3>1. PICK i \in DOMAIN stack : IsWait(i) /\ Response(stack[i].cmd) = t /\ stack[i].id = id
      BY DEF Awaited
    <3>2. IsWait(i)' /\ i \in DOMAIN stack' /\ stack'[i] = stack[i]
      BY <1>2, <3>1
    <3>3. id \in 1 .. issued' /\ Response(stack'[i].cmd) = t
      BY <3>1, <3>2 DEF Awaited
    <3> QED
      BY <3>1, <3>2, <3>3 DEF Awaited
  <2>2. ASSUME NEW id \in Awaited(t)' PROVE id \in Awaited(t)
    <3>1. PICK i \in DOMAIN stack' : IsWait(i)' /\ Response(stack'[i].cmd) = t /\ stack'[i].id = id
      BY DEF Awaited
    <3>2. IsWait(i) /\ i \in DOMAIN stack /\ stack'[i] = stack[i] /\ id \in 1 .. issued
      BY <1>1, <3>1 DEF Awaited
    <3> QED
      BY <3>1, <3>2 DEF Awaited
  <2> QED
    BY <2>1, <2>2
<1>4. ASSUME NEW m \in {"channel", "address"}
      PROVE  /\ \A i \in DOMAIN stack' : Waiting(i, m)' =>
                  i \in DOMAIN stack /\ Waiting(i, m) /\ stack'[i] = stack[i]
             /\ (\A i \in DOMAIN stack' : ~Waiting(i, m)') => \A i \in DOMAIN stack : ~Waiting(i, m)
  <2>1. ASSUME NEW i \in DOMAIN stack', Waiting(i, m)'
        PROVE  i \in DOMAIN stack /\ Waiting(i, m) /\ stack'[i] = stack[i]
    BY <1>1, <2>1 DEF Waiting, Remembers
  <2>2. ASSUME NEW i \in DOMAIN stack, Waiting(i, m) PROVE i \in DOMAIN stack' /\ Waiting(i, m)'
    <3>1. IsWait(i) /\ stack[i].cmd \in Commands /\ Remembers(stack[i].cmd) = m
      BY <2>2, Shapes, ElementOfSeq, LenProperties DEF Waiting, IsWait, LinkTypeOK, WaitRecords
    <3>2. Response(stack[i].cmd) \in Settings
      BY <3>1, RememberedIsSetting
    <3> QED
      BY <1>2, <3>1, <3>2 DEF Waiting, Remembers
  <2> QED
    BY <2>1, <2>2
<1>5. ASSUME Agreement PROVE Agreement'
  <2>1. /\ \A i \in DOMAIN stack' : Waiting(i, "channel")' => Target'.channel = stack'[i].cmd.arg
        /\ \A i \in DOMAIN stack' : Waiting(i, "address")' => Target'.address = stack'[i].cmd.arg
    BY <1>4, <1>5 DEF Agreement
  <2>2. (script' = <<>> /\ \A i \in DOMAIN stack' : ~Waiting(i, "channel")') => cache'.channel = Target'.channel
    BY <1>4, <1>5 DEF Agreement
  <2>3. (\A i \in DOMAIN stack' : ~Waiting(i, "address")')
          => cache'.address \in {ResetConfig.address, Target'.address}
    BY <1>4, <1>5 DEF Agreement
  <2>4. cache'.promisc => ~Target'.filter
    BY <1>5 DEF Agreement
  <2> QED
    BY <2>1, <2>2, <2>3, <2>4 DEF Agreement
<1> QED
  BY <1>3, <1>5

(***************************************************************************)
(* begin() found the module: nothing that could change a setting behind    *)
(* its back is on the way.                                                 *)
(***************************************************************************)
LEMMA FoundBalanced ==
  ASSUME LinkTypeOK, CacheShape, BeginShape, AnswersApart, WaitsApart, Scanned, NEW n \in DOMAIN stack,
         NEW r \in Answers, Finished(n, r), UNCHANGED <<job, config, issued>>, Pinging, ~unsure
  PROVE  Balanced'
<1>1. /\ n = 1 /\ stack[n].cmd = Ping /\ stack[n].begin /\ IsWait(n)
  BY DEF Finished, BeginShape, Pinging
<1>2. DOMAIN stack' = {} /\ script' = Tail(script) /\ cache' = CacheAfter(Ping) /\ r.type = "PONG"
      /\ stash' = None
  BY <1>1 DEF Finished, Response, Ping
<1>3. cache' = cache /\ script' # <<>>
  <2>1. CacheAfter(Ping) = cache /\ Ping # SetChannel(StartChannel)
    BY DEF CacheAfter, Ping, SetChannel
  <2> QED
    BY <1>2, <2>1, ScriptTyped DEF Pinging, LinkTypeOK
<1>4. \A t \in Settings : Awaited(t)' = {}
  BY <1>2 DEF Awaited
<1>5. Flying("OK")' = {}
  <2>1. Flying("OK")' \subseteq Flying("OK")
    BY FinishedCounts DEF Settings
  <2> QED
    BY <2>1 DEF Scanned
<1>6. Flying("ED_RESULT")' = {}
  <2>0. toHost \in Seq(Messages) /\ (Busy' <=> Busy)
    BY DEF LinkTypeOK, Busy
  <2>1. /\ Busy => job.kind # "ed"
        /\ \A l \in DOMAIN toHost' : toHost'[l].type # "ED_RESULT"
    <3>1. CASE toHost # <<>> /\ r = Head(toHost) /\ toHost' = Tail(toHost)
      <4>1. /\ \A i \in DOMAIN toHost' : i \in Nat /\ i + 1 \in DOMAIN toHost /\ toHost'[i] = toHost[i + 1]
            /\ r = toHost[1] /\ 1 \in DOMAIN toHost
        BY <2>0, <3>1, WithoutFirst
      <4>2. /\ Busy => job.kind # "ed"
            /\ \A l \in DOMAIN toHost : toHost[l].type = "ED_RESULT" => l < 1
        BY <1>2, <4>1 DEF Scanned
      <4>3. ASSUME NEW l \in DOMAIN toHost', toHost'[l].type = "ED_RESULT" PROVE FALSE
        <5>1. l + 1 < 1 /\ l \in Nat
          BY <4>1, <4>2, <4>3
        <5> QED
          BY <5>1
      <4> QED
        BY <4>2, <4>3
    <3>2. CASE r = stash /\ toHost' = toHost
      BY <1>2, <3>2, Shapes DEF Scanned
    <3> QED
      BY <3>1, <3>2 DEF Finished
  <2>2. Busy => Response(job.cmd) # "ED_RESULT"
    <3>1. Busy => job.kind = job.cmd.kind /\ job.cmd \in Commands
      BY DEF LinkTypeOK, Busy, Jobs
    <3> QED
      BY <2>1, <3>1, CommandTyped DEF Response
  <2> QED
    BY <1>2, <2>0, <2>1, <2>2 DEF Flying
<1>7. Cardinality({}) = 0
  BY FS_EmptySet
<1>8. \A t \in Settings : Cardinality(Flying(t))' <= Cardinality(Awaited(t))'
  BY <1>4, <1>5, <1>6, <1>7 DEF Settings
<1>9. Agreement'
  BY <1>2, <1>3 DEF Agreement, Scanned
<1> QED
  BY <1>8, <1>9 DEF Balanced

\* Every step keeps the balance of answers and waits.
LEMMA BalancedStep ==
  ASSUME LinkTypeOK, BeginShape, CacheShape, AnswersApart, WaitsApart, Scanned, AnswersAreAwaited, [Next]_vars
  PROVE  AnswersAreAwaited'
<1>0. /\ stack \in Seq(Activations) /\ DOMAIN stack = 1 .. Len(stack) /\ Len(stack) \in Nat
      /\ script \in Scripts /\ unsure \in BOOLEAN /\ Settings \subseteq AnswerTypes
  BY LenProperties DEF LinkTypeOK, Settings, AnswerTypes
<1> SUFFICES ASSUME up', ~unsure', ~Pinging' PROVE Balanced'
  BY DEF AnswersAreAwaited
<1>1. ASSUME NEW c \in Calls, Call(c) PROVE Balanced'
  <2>1. /\ c \in Commands /\ Launched(Len(stack), c) /\ cache' = CacheBefore(c) /\ up /\ script = <<>>
        /\ unsure' = (unsure \/ Contradicts(c))
    BY <1>1, CallStarts, StartSteps
  <2>2. ~unsure /\ ~Contradicts(c)
    BY <2>1
  <2>3. Balanced
    BY <2>1, <2>2 DEF AnswersAreAwaited, Pinging
  <2>4. \A i \in DOMAIN stack : ~(i > Len(stack))
    BY <1>0
  <2> QED
    BY <2>1, <2>2, <2>3, <2>4, LaunchBalanced
<1>2. CASE Begin
  <2>1. /\ Head(script) \in Commands /\ Launched(0, Head(script)) /\ cache' = CacheBefore(Head(script))
        /\ up /\ script' = script /\ unsure' = unsure /\ DOMAIN stack = {}
    BY <1>2, BeginLaunches
  <2>2. Balanced /\ ~Contradicts(Head(script))
    BY <2>1 DEF AnswersAreAwaited, Pinging, Contradicts
  <2> QED
    BY <2>1, <2>2, LaunchBalanced
<1>3. CASE Feed \/ Return
  <2>1. /\ UNCHANGED <<up, config, job, issued, unsure>> /\ (ReadOne \/ ReadNone)
        /\ \A i \in DOMAIN stack' : IsWait(i)' => i \in DOMAIN stack /\ stack'[i] = stack[i]
    BY <1>3, FeedReads
  <2>2. Target' = Target
    BY <2>1 DEF Target, Busy, Applied
  <2>3. ASSUME UNCHANGED <<script, cache>>,
               \A i \in DOMAIN stack : IsWait(i) => i \in DOMAIN stack' /\ stack'[i] = stack[i]
        PROVE  Balanced'
    <3>1. Balanced
      BY <2>1, <2>3 DEF AnswersAreAwaited, Pinging
    <3>2. \A t \in Settings : Flying(t)' \subseteq Flying(t)
      BY <1>0, <2>1, FlyingReads
    <3>3. (\A t \in Settings : Awaited(t)' = Awaited(t)) /\ (Agreement => Agreement')
      BY <2>1, <2>2, <2>3, SameWaits
    <3> QED
      BY <2>1, <3>1, <3>2, <3>3, BalancedLasts
  <2>4. CASE Opened
    <3>1. \A i \in DOMAIN stack : i \in DOMAIN stack' /\ stack'[i] = stack[i]
      BY <1>0, <2>4, Appended, Shapes DEF Opened
    <3> QED
      BY <2>3, <2>4, <3>1 DEF Opened
  <2>5. CASE Stashed
    BY <2>3, <2>5 DEF Stashed
  <2>6. CASE Closed
    <3>1. stack # <<>> /\ stack' = Front(stack)
      BY <2>6 DEF Closed, InCallback
    <3>2. /\ DOMAIN stack' = 1 .. Len(stack) - 1 /\ Top = stack[Len(stack)]
          /\ \A i \in DOMAIN stack' : i \in DOMAIN stack /\ stack'[i] = stack[i]
      BY <1>0, <3>1, WithoutLast DEF Top
    <3>3. ~IsWait(Len(stack))
      BY <2>6, <3>2 DEF Closed, InCallback, IsWait
    <3>4. \A i \in DOMAIN stack : IsWait(i) => i \in DOMAIN stack' /\ stack'[i] = stack[i]
      BY <1>0, <3>2, <3>3
    <3> QED
      BY <2>3, <2>6, <3>4 DEF Closed
  <2>7. ASSUME NEW n \in DOMAIN stack, NEW r \in Answers, Finished(n, r)
        PROVE  Balanced'
    <3>1. CASE Pinging
      BY <2>1, <2>7, <3>1, FoundBalanced
    <3>2. CASE ~Pinging
      BY <2>1, <2>7, <3>2, FinishedBalanced DEF AnswersAreAwaited
    <3> QED
      BY <3>1, <3>2
  <2> QED
    BY <1>3, <2>4, <2>5, <2>6, <2>7, FeedSteps
<1>4. CASE TimeOut
  <2> DEFINE n == Len(stack)
  <2>1. /\ n \in DOMAIN stack /\ IsWait(n) /\ stack[n].cmd \in Commands /\ stack # <<>>
        /\ unsure' = (unsure \/ Response(stack[n].cmd) \in Settings)
        /\ UNCHANGED <<cache, config>>
        /\ Retried(n) \/ GaveUp(n)
    BY <1>4, TimeOutSteps DEF WaitRecords
  <2>2. ~unsure /\ Response(stack[n].cmd) \notin Settings
    BY <2>1
  <2>3. up
    BY <2>1 DEF BeginShape, LinkTypeOK
  <2>4. GaveUp(n) => /\ DOMAIN stack' = 1 .. n - 1
                     /\ \A i \in DOMAIN stack' : i \in DOMAIN stack /\ stack'[i] = stack[i]
    BY <1>0, <2>1, WithoutLast DEF GaveUp
  <2>5. DOMAIN stack = 1 .. n /\ n \in Nat /\ \A i \in DOMAIN stack : i > n - 1 => i = n
    BY <1>0
  <2> HIDE DEF n
  <2>6. CASE Retried(n)
    <3>1. Launched(n - 1, stack[n].cmd) /\ script' = script
      BY <2>6 DEF Retried, Launched
    <3>2. /\ cache' = CacheBefore(stack[n].cmd) /\ ~Contradicts(stack[n].cmd)
      BY <2>1, <2>2, RememberedIsSetting, CacheBeforeFields DEF Contradicts
    <3>3. Balanced
      BY <2>2, <2>3, <3>1 DEF AnswersAreAwaited, Pinging
    <3>4. \A i \in DOMAIN stack : IsWait(i) /\ i > n - 1 => Response(stack[i].cmd) \notin Settings
      BY <2>2, <2>5
    <3> QED
      BY <2>1, <3>1, <3>2, <3>3, <3>4, LaunchBalanced
  <2>7. CASE GaveUp(n)
    <3>1. UNCHANGED <<stash, issued, job, toHost>>
      BY <2>7 DEF GaveUp
    <3>2. ~stack[n].begin
      <4>1. SUFFICES ASSUME stack[n].begin PROVE FALSE
        OBVIOUS
      <4>2. stack[n].cmd.kind = "promisc"
        BY <2>7, <4>1 DEF GaveUp
      <4> QED
        BY <2>1, <2>2, <4>2, RememberedIsSetting
    <3>3. script' = script /\ Balanced
      BY <2>2, <2>3, <2>7, <3>2 DEF GaveUp, AnswersAreAwaited, Pinging
    <3>4. Target' = Target /\ (Busy' <=> Busy)
      BY <2>1, <3>1 DEF Target, Busy, Applied
    <3>5. \A i \in DOMAIN stack : IsWait(i) /\ Response(stack[i].cmd) \in Settings
                                   => i \in DOMAIN stack' /\ stack'[i] = stack[i]
      <4>1. \A i \in DOMAIN stack : i # n => i \in DOMAIN stack'
        BY <1>0, <2>4, <2>5, <2>7
      <4> QED
        BY <2>2, <2>4, <2>7, <4>1
    <3>6. (\A t \in Settings : Awaited(t)' = Awaited(t)) /\ (Agreement => Agreement')
      BY <2>1, <2>4, <2>7, <3>1, <3>3, <3>4, <3>5, SameWaits
    <3>7. \A t \in Settings : Flying(t)' \subseteq Flying(t)
      BY <3>1, <3>4 DEF Flying
    <3> QED
      BY <3>1, <3>3, <3>6, <3>7, BalancedLasts
  <2> QED
    BY <2>1, <2>6, <2>7
<1>5. CASE HostRestart
  <2>1. script' = <<Ping, SetPromiscuous(TRUE), SetChannel(StartChannel)>>
    BY <1>5, RestartForms
  <2>2. Pinging'
    BY <2>1 DEF Pinging
  <2> QED
    BY <2>2
<1>6. CASE FirmwareStep
  <2>1. UNCHANGED <<stack, script, cache, up, unsure, issued>> /\ (Continued \/ Answered)
    BY <1>6, FirmwareSteps
  <2>2. Balanced
    BY <2>1 DEF AnswersAreAwaited, Pinging
  <2>3. Target' = Target
    <3>1. CASE Continued
      BY <3>1, Shapes DEF Continued, Target, Busy, Applied
    <3>2. CASE Answered
      BY <3>2 DEF Answered, Target, Busy
    <3> QED
      BY <2>1, <3>1, <3>2
  <2>4. (\A t \in Settings : Awaited(t)' = Awaited(t)) /\ (Agreement => Agreement')
    BY <2>1, <2>3, SameWaits DEF IsWait
  <2>5. \A t \in Settings : Flying(t)' \subseteq Flying(t)
    BY <1>0, <1>6, FlyingAnswers
  <2> QED
    BY <2>1, <2>2, <2>4, <2>5, BalancedLasts
<1>7. CASE ModuleReset
  BY <1>7, ResetForms
<1>8. CASE UNCHANGED vars
  <2>1. UNCHANGED <<stack, script, cache, up, unsure, issued, stash, toHost, job, config>>
    BY <1>8 DEF vars, driver, firmware, counts, history
  <2> QED
    BY <2>1 DEF AnswersAreAwaited, Balanced, InStep, Agreement, Flying, Awaited, Waiting, IsWait,
                Target, Busy, Applied, Pinging
<1> QED
  BY <1>1, <1>2, <1>3, <1>4, <1>5, <1>6, <1>7, <1>8 DEF Next, FirmwareStep

\* The link starts in agreement.
LEMMA InitAgrees ==
  ASSUME Init
  PROVE  CacheShape /\ AnswersApart /\ WaitsApart /\ Scanned /\ AnswersAreAwaited
<1>1. /\ DOMAIN stack = {} /\ DOMAIN toHost = {} /\ stash = None /\ ~Busy /\ script = <<>> /\ issued = 0
  BY LinkInit DEF Init
<1>2. AnswersApart /\ WaitsApart /\ Scanned
  BY <1>1 DEF AnswersApart, WaitsApart, Scanned, Pinging, IsAnswer
<1>3. PICK set \in BOOLEAN :
        /\ config = [ResetConfig EXCEPT !.channel = StartChannel, !.filter = set, !.cca = set]
        /\ cache = [channel |-> StartChannel, promisc |-> ~set, address |-> ResetConfig.address]
  BY DEF Init
<1>4. config.channel = StartChannel /\ config.filter = set
  <2> DEFINE tuned == [ResetConfig EXCEPT !.channel = StartChannel]
             filtered == [tuned EXCEPT !.filter = set]
  <2>1. DOMAIN tuned = DOMAIN ResetConfig /\ tuned.channel = StartChannel
    BY ConfigAssumption
  <2>2. DOMAIN filtered = DOMAIN ResetConfig /\ filtered.filter = set /\ filtered.channel = StartChannel
    <3> HIDE DEF tuned
    <3> QED
      BY <2>1, ConfigAssumption
  <2>3. config = [filtered EXCEPT !.cca = set]
    BY <1>3
  <2> HIDE DEF filtered
  <2> QED
    BY <2>2, <2>3, ConfigAssumption
<1>5. /\ cache.channel = StartChannel /\ cache.promisc = ~set /\ cache.address = ResetConfig.address
      /\ CacheShape
  BY <1>3 DEF CacheShape
<1>6. Agreement
  BY <1>1, <1>4, <1>5 DEF Agreement, Target
<1>7. \A t \in Settings : Flying(t) = {} /\ Awaited(t) = {}
  BY <1>1 DEF Flying, Awaited
<1>8. Balanced
  BY <1>6, <1>7, FS_EmptySet DEF Balanced
<1> QED
  BY <1>2, <1>5, <1>8 DEF AnswersAreAwaited

(***************************************************************************)
(* With no wait left, no answer to a setting can be under way, and the     *)
(* agreement is about what the module holds now.                           *)
(***************************************************************************)
LEMMA RestAgrees ==
  ASSUME LinkTypeOK, AnswersApart, AnswersAreAwaited
  PROVE  CacheAgrees
<1> SUFFICES ASSUME stack = <<>>, up, script = <<>>, ~unsure
             PROVE  /\ cache.channel = config.channel
                    /\ cache.address \in {ResetConfig.address, config.address}
                    /\ cache.promisc => ~config.filter
  BY DEF CacheAgrees
<1>1. Balanced /\ DOMAIN stack = {}
  BY DEF AnswersAreAwaited, Pinging
<1>2. ASSUME NEW t \in Settings PROVE Flying(t) = {} /\ Awaited(t) = {}
  <2>1. Awaited(t) = {} /\ Cardinality({}) = 0
    BY <1>1, FS_EmptySet DEF Awaited
  <2>2. Cardinality(Flying(t)) <= 0 /\ Cardinality(Flying(t)) \in Nat
        /\ Flying(t) \subseteq 1 .. issued /\ issued \in Nat
    BY <1>1, <2>1, NumbersBounded DEF Balanced
  <2>3. Cardinality(Flying(t)) = 0
    BY <2>2
  <2> QED
    BY <2>1, <2>2, <2>3, Counted
<1>3. Agreement
  BY <1>1, <1>2 DEF Balanced, InStep
<1>4. Target = config
  <2>1. CASE Busy
    <3>1. job.id \in 1 .. issued /\ job.cmd \in Commands
      BY <2>1 DEF AnswersApart, LinkTypeOK, Busy, Jobs
    <3>2. Response(job.cmd) \notin Settings
      BY <1>2, <2>1, <3>1 DEF Flying
    <3> QED
      BY <2>1, <3>1, <3>2, AppliedFields DEF Target, LinkTypeOK
  <2>2. CASE ~Busy
    BY <2>2 DEF Target
  <2> QED
    BY <2>1, <2>2
<1> QED
  BY <1>1, <1>3, <1>4 DEF Agreement

(***************************************************************************)
(* setChannel, setAddress, energyScan, setPromiscuous and configureMac:    *)
(* whenever the sketch runs, what the driver remembers is what the module  *)
(* holds, whatever answers arrived late, twice or for another wait.        *)
(***************************************************************************)
THEOREM CacheAgreesAlways == Spec => []CacheAgrees
<1> DEFINE Inv == /\ LinkTypeOK /\ BeginShape /\ CacheShape /\ AnswersApart /\ WaitsApart
                  /\ Scanned /\ AnswersAreAwaited
<1>1. Init => Inv
  BY LinkInit, InitAgrees DEF BeginShape
<1>2. Inv /\ [Next]_vars => Inv'
  BY TypeStep, ShapeStep, CacheStep, ApartStep, ScannedStep, BalancedStep
<1>3. Inv => CacheAgrees
  BY RestAgrees
<1> QED
  BY <1>1, <1>2, <1>3, PTL DEF Spec
=============================================================================
