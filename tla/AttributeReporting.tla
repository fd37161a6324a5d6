------------------------- MODULE AttributeReporting -------------------------
(***************************************************************************)
(* Reports of a boolean attribute (ZigbeeReporting.cpp, used by            *)
(* CC2530_ReportingNode.ino): a client configures the reporting of the     *)
(* On/Off attribute and toggles it, the node reports changes after the     *)
(* minimum and repeats the value after the maximum interval.  A send waits *)
(* for the acknowledgement and handles what is received meanwhile, so that *)
(* toggles, configurations and further sends happen inside it.             *)
(***************************************************************************)
EXTENDS Integers, Sequences

CONSTANTS
  MinIntervals, MaxIntervals,  \* seconds a configuration may ask for
  NoReports,                   \* maximum 0xFFFF: reporting switched off
  ReportHorizon,               \* elapsed times are told apart up to here
  SendDepth                    \* sends nested in each other

VARIABLES
  onOff,         \* the attribute
  reporter,      \* ZigbeeBoolReportScheduler, elapsed for lastReportMs_
  reports,       \* sends in progress, the innermost last
  clientView,    \* the value the client was last told
  mistaken       \* why the node may be wrong about what the client was told

reportVars == <<onOff, reporter, reports, clientView, mistaken>>

ReportInit ==
  /\ onOff = FALSE
  /\ reporter = [configured |-> FALSE, min |-> 0, max |-> 0,
                 last |-> FALSE, elapsed |-> 0]
  /\ reports = <<>>
  /\ clientView = FALSE
  /\ mistaken = {}

ShouldReport ==
  /\ reporter.configured /\ reporter.max # NoReports
  /\ IF onOff # reporter.last THEN reporter.elapsed >= reporter.min
     ELSE reporter.max > 0 /\ reporter.elapsed >= reporter.max

\* sendReportIfDue() up to the transmission, in loop() or in the handler of a
\* toggle received by a send in progress.
StartReport(arrives) ==
  /\ ShouldReport /\ Len(reports) < SendDepth
  /\ reports' = Append(reports, [arrived |-> arrives, age |-> 0])
  /\ clientView' = IF arrives THEN onOff ELSE clientView
  /\ UNCHANGED <<onOff, reporter, mistaken>>

Innermost == reports[Len(reports)]

\* It is the value at the end of the send that counts as reported, at the time
\* the send began.
MarkReported(at) == [reporter EXCEPT !.last = onOff, !.elapsed = at]
\* Mutant: a report counts whether or not it was acknowledged.
AfterReportUnchecked(acknowledged) == MarkReported(Innermost.age)

AfterReport(acknowledged) ==
  IF acknowledged THEN MarkReported(Innermost.age) ELSE reporter

\* A mistake is remembered until the node and the client agree again.
Mistakes(why) == IF reporter'.last = clientView THEN {} ELSE mistaken \cup why

\* A report is acknowledged only if it arrived; the acknowledgement may be lost.
FinishReport(acknowledged) ==
  /\ reports # <<>>
  /\ acknowledged => Innermost.arrived
  /\ reports' = SubSeq(reports, 1, Len(reports) - 1)
  /\ reporter' = AfterReport(acknowledged)
  /\ mistaken' = Mistakes(
       IF acknowledged THEN IF onOff # clientView
                            THEN {"changed during the report"} ELSE {}
       ELSE IF Innermost.arrived THEN {"acknowledgement lost"} ELSE {})
  /\ UNCHANGED <<onOff, clientView>>

ToggleAttribute ==
  /\ onOff' = ~onOff
  /\ UNCHANGED <<reporter, reports, clientView, mistaken>>

\* Configure Reporting takes the present value for the one last reported.
Configured(min, max) ==
  [configured |-> TRUE, min |-> min, max |-> max, last |-> onOff, elapsed |-> 0]

ConfigureReporting(min, max) ==
  /\ reporter' = Configured(min, max)
  /\ mistaken' = Mistakes(
       IF onOff # reporter.last THEN {"configured before the report"} ELSE {})
  /\ UNCHANGED <<onOff, reports, clientView>>

Older(t) == IF t < ReportHorizon THEN t + 1 ELSE t

SecondPasses ==
  /\ reporter' = [reporter EXCEPT !.elapsed = Older(@)]
  /\ reports' = [i \in DOMAIN reports |->
                   [reports[i] EXCEPT !.age = Older(@)]]
  /\ UNCHANGED <<onOff, clientView, mistaken>>

ReportNext ==
  \/ \E b \in BOOLEAN : StartReport(b) \/ FinishReport(b)
  \/ ToggleAttribute
  \/ \E lo \in MinIntervals, hi \in MaxIntervals : ConfigureReporting(lo, hi)
  \/ SecondPasses
ReportSpec == ReportInit /\ [][ReportNext]_reportVars

-----------------------------------------------------------------------------
\* Between sends the value the node believes reported is the one the client was
\* last told, so that a client with a wrong value gets another report as soon
\* as the minimum interval is over: whatever reports are lost, and whatever
\* toggles and sends run inside a send.  The code makes three mistakes, which
\* the next agreement ends, a periodic report at the latest: a change while an
\* acknowledged report is on its way is marked as reported with it, a new
\* configuration takes an unreported change for reported, and a report that
\* arrived without its acknowledgement counts as not sent
\* (ZigbeeReporting.cpp:24-55, CC2530_ReportingNode.ino:55-71).
BelievesWhatClientKnows ==
  reporter.configured /\ reports = <<>> /\ reporter.last # clientView
    => mistaken # {}
=============================================================================
