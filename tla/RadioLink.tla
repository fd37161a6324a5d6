------------------------------ MODULE RadioLink ------------------------------
(***************************************************************************)
(* The host driver CC2530Radio, the UART and the radio co-processor.  The  *)
(* driver is a stack of activations: waitResp dispatches received frames   *)
(* to callbacks while it waits, and a callback may send and wait itself.   *)
(* The firmware is one loop without interrupts and without a UART FIFO:    *)
(* bytes that arrive while it transmits or forwards a frame are lost, and  *)
(* its parser may be left inside a frame.                                  *)
(*                                                                         *)
(* Commands and responses are numbered so that the properties can tell     *)
(* whose response a wait took; the program has no such numbers.            *)
(***************************************************************************)
EXTENDS Naturals, Sequences, FiniteSets, SequencesExt

CONSTANTS
  Calls,        \* commands the sketch and its callbacks issue
  StartChannel, \* the channel passed to begin()
  ResetConfig,  \* the configuration of a module after its own reset
  MaxNesting,   \* bound: waits active at once
  MaxCalls,     \* bound: commands issued outside begin()
  MaxInbound,   \* bound: frames received from the air
  MaxRestarts,  \* bound: resets of the host, and of the module
  Backoffs,     \* cfg_max_backoffs
  FrameUnits,   \* longest tail the firmware parser can be waiting for (LEN 137 and the FCS)
  FlushUnits    \* zero bytes written by begin(), in the same unit

None == [kind |-> "none"]
Ping == [kind |-> "ping"]
SetPromiscuous(on) == [kind |-> "promisc", arg |-> on]
SetChannel(ch) == [kind |-> "channel", arg |-> ch]

ASSUME CallsAssumption ==
  \A c \in Calls : c.kind \in {"ping", "channel", "promisc", "address", "mac", "getmac",
                               "power", "pending", "pib", "stats", "ed", "tx", "txadv"}
ASSUME ConfigAssumption ==
  /\ DOMAIN ResetConfig = {"channel", "filter", "cca", "address", "power", "pending",
                           "retries", "txRetries"}
  /\ ResetConfig.filter \in BOOLEAN /\ ResetConfig.cca \in BOOLEAN
  /\ \A c \in Calls : c.kind = "mac" => c.arg.filter \in BOOLEAN /\ c.arg.cca \in BOOLEAN
ASSUME FlushAssumption == FrameUnits \in Nat /\ FlushUnits \in Nat /\ FlushUnits >= FrameUnits

VARIABLES
  stack,    \* activations: waits and the callbacks that feed() is running
  stash,    \* respReady_ and respCmd_: the response parsed last and not taken
  cache,    \* channel_, promiscuous_, localShortAddress_
  script,   \* what begin() has still to do
  up,       \* begin() has not failed
  config,   \* registers and settings of the module
  job,      \* the command the firmware works on, with the progress of radio_tx
  expects,  \* bytes the firmware parser waits for before the frame in progress ends
  fifo,     \* frames in the RXFIFO
  toHost,   \* frames on the way to the host
  stats,    \* mac_retx and mac_noack
  issued, calls, inbound, restarts, \* how often each happened, for the bounds
  received, \* history: transmissions that reached their destination
  unsure,   \* history: since begin() a setting was not confirmed, the module was reset,
            \* or a callback chose another value than a setting it interrupted
  taken,    \* history: the last completed wait and the response it took
  hit       \* history: a command of the last begin() or later met a module that was busy or forwarding

driver == <<stack, stash, cache, script, up>>
counts == <<issued, calls, inbound, restarts>>
history == <<received, unsure, taken, hit>>
firmware == <<config, job, expects, fifo, stats>>
vars == <<driver, firmware, toHost, counts, history>>

Response(c) == CASE c.kind = "ping" -> "PONG" [] c.kind \in {"tx", "txadv"} -> "TXSTAT"
                 [] c.kind = "getmac" -> "MAC_INFO" [] c.kind = "stats" -> "STATS"
                 [] c.kind = "ed" -> "ED_RESULT" [] OTHER -> "OK"
Wait(c, id, left, begin, quiet) ==
  [kind |-> "wait", cmd |-> c, id |-> id, left |-> left, begin |-> begin, quiet |-> quiet]
Callback == [kind |-> "callback"]
RxFrame == [type |-> "RX_FRAME"]
NoTaken == [cmd |-> None, id |-> 0, quiet |-> FALSE, from |-> 0, ok |-> FALSE, cca |-> FALSE]

Top == Last(stack)
InWait == stack # <<>> /\ Top.kind = "wait"
InCallback == stack # <<>> /\ Top.kind = "callback"
Waits(st) == {st[i].id : i \in {j \in DOMAIN st : st[j].kind = "wait"}}
Busy == job # None
Transmits == {"tx", "txadv"}
Slow == Transmits \union {"ed"}

\* After begin(), and perhaps after the configureMac of applyAddress.
Init ==
  /\ stack = <<>> /\ stash = None /\ script = <<>> /\ up = TRUE
  /\ \E set \in BOOLEAN :
       /\ config = [ResetConfig EXCEPT !.channel = StartChannel, !.filter = set, !.cca = set]
       /\ cache = [channel |-> StartChannel, promisc |-> ~set, address |-> ResetConfig.address]
  /\ job = None /\ expects = 0 /\ fifo = 0 /\ toHost = <<>>
  /\ stats = [retx |-> 0, noack |-> 0]
  /\ issued = 0 /\ calls = 0 /\ inbound = 0 /\ restarts = 0
  /\ received = {} /\ unsure = FALSE /\ taken = NoTaken /\ hit = FALSE

(***************************************************************************)
(* The UART toward the module.                                             *)
(***************************************************************************)
\* radio_rx reads one frame and flushes what is left in the RXFIFO.
RadioRx == fifo' = 0

\* The bytes of a command reach the parser; sendFrame returns after the last
\* one.  A firmware that is busy, or that forwards a frame meanwhile, misses
\* bytes; a parser inside a frame takes the command for the rest of it.
Deliver(c, id) ==
  \/ /\ Busy
     /\ expects' \in {expects, 1}
     /\ hit' = TRUE
     /\ UNCHANGED <<job, fifo, toHost>>
  \/ /\ ~Busy /\ fifo > 0
     /\ RadioRx /\ toHost' = Append(toHost, RxFrame)
     /\ expects' \in IF expects > 0 THEN {expects, expects - 1} ELSE 0..FrameUnits
     /\ hit' = TRUE
     /\ UNCHANGED job
  \/ /\ ~Busy /\ fifo = 0 /\ expects > 0
     /\ expects' = expects - 1
     /\ UNCHANGED <<job, fifo, toHost, hit>>
  \/ /\ ~Busy /\ fifo = 0 /\ expects = 0
     /\ job' = [kind |-> c.kind, cmd |-> c, id |-> id, pass |-> 0, tries |-> 0, phase |-> "run"]
     /\ UNCHANGED <<expects, fifo, toHost, hit>>

(***************************************************************************)
(* The driver.                                                             *)
(***************************************************************************)
\* setPromiscuous and configureMac assign promiscuous_ before they send.
CacheBefore(c) ==
  CASE c.kind = "promisc" -> [cache EXCEPT !.promisc = c.arg]
    [] c.kind = "mac" /\ c.arg.filter -> [cache EXCEPT !.promisc = FALSE]
    [] OTHER -> cache

\* Mutant: the cache is written before the module confirms, and with it for an address.
CacheAfterUnscanned(c) ==
  CASE c.kind = "channel" -> [cache EXCEPT !.channel = c.arg]
    [] c.kind = "address" -> [cache EXCEPT !.address = c.arg]
    [] OTHER -> cache

\* setChannel, setAddress and energyScan assign theirs after a response.
CacheAfter(c) ==
  CASE c.kind \in {"channel", "ed"} -> [cache EXCEPT !.channel = c.arg]
    [] c.kind = "address" -> [cache EXCEPT !.address = c.arg]
    [] OTHER -> cache

\* energyScan and the ping of begin() try three times.
Attempts(c, begin) == IF c.kind = "ed" \/ (begin /\ c = Ping) THEN 2 ELSE 0

\* Nothing is under way that could be taken for the answer of a new command.
Quiet == stack = <<>> /\ ~Busy /\ \A i \in DOMAIN toHost : toHost[i] = RxFrame
Disturbed == [i \in DOMAIN stack |->
               IF stack[i].kind = "wait" THEN [stack[i] EXCEPT !.quiet = FALSE] ELSE stack[i]]

\* Mutant: waitResp does not forget an earlier response.
StartWaitRemembering(c, begin) ==
  /\ stack' = Append(Disturbed, Wait(c, issued + 1, Attempts(c, begin), begin, Quiet))
  /\ cache' = CacheBefore(c)
  /\ issued' = issued + 1
  /\ Deliver(c, issued + 1)
  /\ UNCHANGED stash

\* sendFrame and the start of waitResp, which forgets an earlier response.
StartWait(c, begin) ==
  /\ stack' = Append(Disturbed, Wait(c, issued + 1, Attempts(c, begin), begin, Quiet))
  /\ stash' = None /\ cache' = CacheBefore(c)
  /\ issued' = issued + 1
  /\ Deliver(c, issued + 1)

\* What the driver remembers of a setting is written when its wait ends, the
\* outer one last, while the module keeps the value that was sent last.
Remembers(c) == CASE c.kind \in {"channel", "ed"} -> "channel" [] c.kind = "address" -> "address"
                  [] OTHER -> "nothing"
Contradicts(c) ==
  \E i \in DOMAIN stack :
    /\ stack[i].kind = "wait" /\ Remembers(c) # "nothing"
    /\ Remembers(stack[i].cmd) = Remembers(c) /\ stack[i].cmd.arg # c.arg

\* A command of the sketch's loop or of a callback.
Call(c) ==
  /\ up /\ script = <<>> /\ ~InWait
  /\ calls < MaxCalls /\ Cardinality(Waits(stack)) < MaxNesting
  /\ calls' = calls + 1
  /\ StartWait(c, FALSE)
  /\ unsure' = (unsure \/ Contradicts(c))
  /\ UNCHANGED <<script, up, config, stats, inbound, restarts, received, taken>>

\* The next command of begin().
Begin ==
  /\ up /\ script # <<>> /\ stack = <<>>
  /\ StartWait(Head(script), TRUE)
  /\ UNCHANGED <<script, up, config, stats, calls, inbound, restarts,
                 received, unsure, taken>>

\* waitResp returns true to the call in activation w.
Complete(below, w, r) ==
  /\ stack' = below /\ stash' = None
  /\ cache' = CacheAfter(w.cmd)
  /\ script' = IF w.begin THEN Tail(script) ELSE script
  /\ taken' = [cmd |-> w.cmd, id |-> w.id, quiet |-> w.quiet,
               from |-> r.id, ok |-> r.ok, cca |-> r.cca]

\* The test of waitResp after each byte.
Matches(w, r) == r # None /\ r.type = Response(w.cmd)

\* feed() completes a frame: at the top level poll() does, and drops responses.
Feed ==
  /\ up /\ toHost # <<>> /\ ~InCallback
  /\ toHost' = Tail(toHost)
  /\ LET r == Head(toHost) IN
       \/ /\ r.type = "RX_FRAME"
          /\ stack' = Append(stack, Callback)
          /\ UNCHANGED <<stash, cache, script, taken>>
       \/ /\ r.type # "RX_FRAME" /\ InWait /\ Matches(Top, r)
          /\ Complete(Front(stack), Top, r)
       \/ /\ r.type # "RX_FRAME" /\ ~(InWait /\ Matches(Top, r))
          /\ stash' = r
          /\ UNCHANGED <<stack, cache, script, taken>>
  /\ UNCHANGED <<up, firmware, counts, received, unsure, hit>>

\* The callback returns into feed(), and waitResp looks at the response that
\* a wait inside the callback may have left behind.
Return ==
  /\ InCallback
  /\ LET below == Front(stack) IN
       \/ /\ below # <<>> /\ Matches(Last(below), stash)
          /\ Complete(Front(below), Last(below), stash)
       \/ /\ ~(below # <<>> /\ Matches(Last(below), stash))
          /\ stack' = below
          /\ UNCHANGED <<stash, cache, script, taken>>
  /\ UNCHANGED <<up, firmware, toHost, counts, received, unsure, hit>>

\* A command that is executed is answered long before 300 ms; a transmission
\* or an energy scan may take longer.
Overdue == toHost = <<>> /\ ~(Busy /\ job.id = Top.id /\ job.kind \notin Slow)

\* waitResp returns false, and the call gives up or sends the command again.
TimeOut ==
  /\ InWait /\ Overdue
  /\ unsure' = (unsure \/ Response(Top.cmd) \in {"OK", "ED_RESULT"})
  /\ \/ /\ Top.left > 0
        /\ stack' = Append(Front(stack), [Top EXCEPT !.id = issued + 1, !.left = @ - 1, !.quiet = FALSE])
        /\ stash' = None /\ issued' = issued + 1
        /\ Deliver(Top.cmd, issued + 1)
        /\ UNCHANGED <<script, up>>
     \/ /\ Top.left = 0
        /\ stack' = Front(stack)
        /\ script' = IF ~Top.begin THEN script
                     ELSE IF Top.cmd.kind = "promisc" THEN Tail(script) ELSE <<>>
        /\ up' = (up /\ ~(Top.begin /\ Top.cmd.kind # "promisc"))
        /\ UNCHANGED <<stash, issued, job, expects, fifo, toHost, hit>>
  /\ UNCHANGED <<cache, config, stats, calls, inbound, restarts, received, taken>>

\* Mutant: begin() sends no zero bytes.
FlushedNothing == expects

\* The zero bytes of begin() end a frame the parser is inside of.
Flushed == IF Busy THEN expects ELSE IF FlushUnits >= expects THEN 0 ELSE expects - FlushUnits

\* The host is reset while the module keeps running: setup() calls begin().
\* Commands that are executed at once are over before the UART is drained.
HostRestart ==
  /\ restarts < MaxRestarts /\ (Busy => job.kind \in Slow)
  /\ restarts' = restarts + 1
  /\ stack' = <<>> /\ stash' = None /\ up' = TRUE
  /\ cache' = [channel |-> ResetConfig.channel, promisc |-> FALSE,
               address |-> ResetConfig.address]
  /\ script' = <<Ping, SetPromiscuous(TRUE), SetChannel(StartChannel)>>
  /\ toHost' = <<>> /\ expects' = Flushed
  /\ unsure' = FALSE /\ hit' = FALSE
  /\ UNCHANGED <<config, job, fifo, stats, issued, calls, inbound, received, taken>>

(***************************************************************************)
(* The firmware.                                                           *)
(***************************************************************************)
\* The settings a command changes; radio_init resets the transmit power.
Applied(c) ==
  CASE c.kind = "channel" \/ c.kind = "ed" ->
         [config EXCEPT !.channel = c.arg, !.power = ResetConfig.power]
    [] c.kind = "promisc" -> [config EXCEPT !.filter = ~c.arg]
    [] c.kind = "address" -> [config EXCEPT !.address = c.arg]
    [] c.kind = "mac" -> [config EXCEPT !.filter = c.arg.filter, !.cca = c.arg.cca,
                                           !.txRetries = c.arg.retries]
    [] c.kind = "power" -> [config EXCEPT !.power = c.arg]
    [] c.kind = "pending" -> [config EXCEPT !.pending = c.arg]
    [] c.kind = "pib" -> [config EXCEPT !.retries = c.arg]
    [] OTHER -> config

Answer(ok) == [type |-> Response(job.cmd), id |-> job.id, ok |-> ok, cca |-> config.cca]

\* The branches of the command switch except the transmissions.
Execute ==
  /\ Busy /\ job.kind \notin Transmits
  /\ config' = Applied(job.cmd)
  /\ fifo' = IF job.kind \in {"channel", "ed"} THEN 0 ELSE fifo
  /\ toHost' = Append(toHost, Answer(TRUE)) /\ job' = None
  /\ UNCHANGED <<driver, expects, stats, counts, history>>

\* The end of a transmission.
TxStat(ok) == job' = None /\ toHost' = Append(toHost, Answer(ok))

\* Attempts after the first: backoffs with CCA, else the retries of TX_ADV or SET_MAC.
AttemptLimit == IF config.cca THEN Backoffs
                ELSE IF job.kind = "txadv" THEN job.cmd.retries ELSE config.txRetries

\* radio_tx_once does not get TXDONE: the next attempt, or failure.
ChannelBusy ==
  /\ Busy /\ job.kind \in Transmits /\ job.phase = "run"
  /\ \/ /\ job.tries < AttemptLimit
        /\ job' = [job EXCEPT !.tries = @ + 1] /\ UNCHANGED toHost
     \/ /\ job.tries >= AttemptLimit
        /\ TxStat(FALSE)
  /\ UNCHANGED <<driver, config, expects, fifo, stats, counts, history>>

\* TXDONE: a frame without acknowledgement request, or without CCA, is over.
TxDone ==
  /\ Busy /\ job.kind \in Transmits /\ job.phase = "run"
  /\ \E reaches \in BOOLEAN :
       received' = IF reaches THEN received \union {job.id} ELSE received
  /\ \/ /\ config.cca /\ job.cmd.arg
        /\ job' = [job EXCEPT !.phase = "ack"] /\ UNCHANGED toHost
     \/ /\ ~(config.cca /\ job.cmd.arg)
        /\ TxStat(TRUE)
  /\ UNCHANGED <<driver, config, expects, fifo, stats, counts, unsure, taken, hit>>

AwaitingAck == Busy /\ job.phase = "ack"

\* Mutant: an acknowledgement of another frame is good enough.
IsOurAckAnyDsn == TRUE

\* The acknowledgement in the RXFIFO has the DSN of our frame, which its
\* receiver put there.
IsOurAck == job.id \in received

\* wait_for_ack reads an acknowledgement: ours ends the transmission, the
\* acknowledgement of another frame is forwarded like any frame.
AckArrives ==
  /\ AwaitingAck /\ fifo = 0
  /\ \/ /\ IsOurAck
        /\ TxStat(TRUE)
        /\ stats' = IF job.pass > 0 THEN [stats EXCEPT !.retx = @ + 1] ELSE stats
        /\ UNCHANGED inbound
     \/ /\ inbound < MaxInbound
        /\ toHost' = Append(toHost, RxFrame) /\ inbound' = inbound + 1
        /\ UNCHANGED <<job, stats>>
  /\ UNCHANGED <<driver, config, expects, fifo, issued, calls, restarts, history>>

\* No acknowledgement in time: the whole frame again, or noack.
AckTimeout ==
  /\ AwaitingAck /\ fifo = 0
  /\ \/ /\ job.pass < config.retries
        /\ job' = [job EXCEPT !.pass = @ + 1, !.tries = 0, !.phase = "run"]
        /\ UNCHANGED <<toHost, stats>>
     \/ /\ job.pass >= config.retries
        /\ TxStat(FALSE) /\ stats' = [stats EXCEPT !.noack = @ + 1]
  /\ UNCHANGED <<driver, config, expects, fifo, counts, history>>

\* A frame from the air; a second one that arrives before the first is read
\* is flushed with what radio_rx leaves behind.
Inbound ==
  /\ inbound < MaxInbound /\ fifo < 2
  /\ inbound' = inbound + 1 /\ fifo' = fifo + 1
  /\ UNCHANGED <<driver, config, job, expects, toHost, stats, issued, calls, restarts, history>>

\* The main loop, or wait_for_ack, forwards a received frame.
Forward ==
  /\ fifo > 0 /\ (~Busy \/ AwaitingAck)
  /\ RadioRx /\ toHost' = Append(toHost, RxFrame)
  /\ UNCHANGED <<driver, config, job, expects, stats, counts, history>>

\* A reset of the module: main() starts again and announces itself.
ModuleReset ==
  /\ restarts < MaxRestarts
  /\ restarts' = restarts + 1
  /\ config' = ResetConfig /\ job' = None /\ expects' = 0 /\ fifo' = 0
  /\ stats' = [retx |-> 0, noack |-> 0]
  /\ toHost' = Append(toHost, [type |-> "RESET_IND", id |-> 0, ok |-> TRUE, cca |-> FALSE])
  /\ unsure' = TRUE
  /\ UNCHANGED <<driver, issued, calls, inbound, received, taken, hit>>

Next == \/ \E c \in Calls : Call(c)
        \/ Begin \/ Feed \/ Return \/ TimeOut \/ HostRestart
        \/ Execute \/ ChannelBusy \/ TxDone \/ AckArrives \/ AckTimeout
        \/ Inbound \/ Forward \/ ModuleReset
Spec == Init /\ [][Next]_vars

(***************************************************************************)
(* Properties.                                                             *)
(***************************************************************************)
\* A command sent while nothing is under way, during whose wait no callback
\* sends, is never completed by a response to anything else: not by a late
\* response that poll() already saw, and not by the announcement of a reset.
OwnResponse == taken.quiet => taken.from = taken.id

\* What the driver remembers of the module is true whenever the sketch runs:
\* the channel, an address it set, and that the frame filter is off when it
\* believes to be promiscuous (it skips decryption then).  Only a setting
\* whose response never came, a module that was reset, or a callback that
\* chose another value than a setting it interrupted excuses it; begin()
\* restores the agreement after a reset of the host.
CacheAgrees ==
  (stack = <<>> /\ up /\ script = <<>> /\ ~unsure) =>
    /\ cache.channel = config.channel
    /\ cache.address \in {ResetConfig.address, config.address}
    /\ cache.promisc => ~config.filter

\* send() of a frame that requests an acknowledgement returns true, with CCA
\* on, only if the frame reached its destination.
AckedMeansReceived ==
  (taken.quiet /\ taken.cmd.kind \in Transmits /\ taken.cmd.arg /\ taken.ok /\ taken.cca)
    => taken.id \in received

\* begin() fails to find a running module only if it sent to one that was
\* transmitting, scanning or forwarding: a parser that earlier traffic left
\* inside a frame never makes it fail.
BeginFindsModule == (~up /\ ~unsure) => hit
=============================================================================
