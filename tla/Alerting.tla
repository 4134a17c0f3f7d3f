----------------------------- MODULE Alerting ------------------------------
(***************************************************************************)
(* What happens to an alert (src/main.rs, start_classification_pipeline):  *)
(* the inference thread sends it to an unbounded channel that two threads  *)
(* receive from, the forensic logger and the monitor; each alert goes to   *)
(* one of them.  The logger ends when every sender is gone and the channel *)
(* is empty, the others when they see the `running` flag cleared.          *)
(*                                                                         *)
(* An alert is its number.  MaxAlerts bounds the anomalous verdicts.       *)
(***************************************************************************)
EXTENDS Naturals, Sequences, Functions

CONSTANTS MaxAlerts,
          Faults       \* the operations of the file system that may fail

ASSUME AlertingAssumption ==
  /\ MaxAlerts \in Nat
  /\ Faults \subseteq {"open", "table", "file", "row", "line"}

VARIABLES running,     \* the AtomicBool all threads poll
          starter,     \* start_classification_pipeline: what it does next
          inference, logger, monitor,   \* where each thread is
          alert_rx,    \* the channel
          alert,       \* the alert the logger works on, 0 for none
          log_file,    \* whether the text log could be opened
          anomalies,   \* the rows of the database
          log,         \* the lines of the text log
          sent,        \* history: alerts sent,
          printed,     \*   alerts the monitor reported,
          rejected,    \*   alerts whose row could not be inserted,
          unwritten,   \*   alerts whose line could not be written,
          dropped      \*   alerts no thread received

journal == <<alert, log_file, anomalies, log, rejected, unwritten>>
vars == <<running, starter, inference, logger, monitor, alert_rx, journal, sent,
          printed, dropped>>

Alert == 1 .. MaxAlerts

Ended == {"exited", "failed"}

\* Mutant of Sending: the caller keeps the original sender.
SendingKept == TRUE

\* A sender of the channel exists: the function's own until it returns, and
\* the one the inference thread owns.
Sending == starter # "returned" \/ inference \notin Ended

\* Mutant of Received: a receiver kept elsewhere outlives the threads.
ReceivedKept(S) == TRUE

\* A receiver exists besides those of the threads in S.
Received(S) ==
  \/ starter # "returned"
  \/ logger \notin Ended /\ "logger" \notin S
  \/ monitor \notin Ended /\ "monitor" \notin S

Init ==
  /\ running \in BOOLEAN
  /\ starter = "logger"
  /\ inference = "unborn" /\ logger = "unborn" /\ monitor = "unborn"
  /\ alert_rx = <<>> /\ alert = 0 /\ log_file = FALSE
  /\ anomalies = <<>> /\ log = <<>>
  /\ sent = 0 /\ printed = {} /\ rejected = {} /\ unwritten = {} /\ dropped = {}

Interrupt ==
  /\ running
  /\ running' = FALSE
  /\ UNCHANGED <<starter, inference, logger, monitor, alert_rx, journal, sent, printed, dropped>>

\* The threads are spawned one after the other; on return the function's
\* handles of the channel are gone.
StartLogger ==
  /\ starter = "logger"
  /\ starter' = "inference" /\ logger' = "open"
  /\ UNCHANGED <<inference, monitor>>

StartInference ==
  /\ starter = "inference"
  /\ starter' = "monitor" /\ inference' = "check"
  /\ UNCHANGED <<logger, monitor>>

StartMonitor ==
  /\ starter = "monitor"
  /\ starter' = "returned" /\ monitor' = "check"
  /\ UNCHANGED <<inference, logger>>

Starter ==
  /\ StartLogger \/ StartInference \/ StartMonitor
  /\ UNCHANGED <<running, alert_rx, journal, sent, printed, dropped>>

\* A thread leaves with its receiver; the last one discards what is queued.
Leave(thread) ==
  IF Received({thread})
    THEN UNCHANGED <<alert_rx, dropped>>
    ELSE alert_rx' = <<>> /\ dropped' = dropped \union Range(alert_rx)

-----------------------------------------------------------------------------
InferenceCheck ==
  /\ inference = "check"
  /\ inference' = IF running THEN "receive" ELSE "exited"
  /\ UNCHANGED <<alert_rx, sent, dropped>>

\* No metrics within 50 ms, or a normal verdict.
InferenceQuiet ==
  /\ inference = "receive"
  /\ inference' = "check"
  /\ UNCHANGED <<alert_rx, sent, dropped>>

\* An anomalous verdict; a send without a receiver fails and is ignored.
InferenceAlert ==
  /\ inference = "receive" /\ sent < MaxAlerts
  /\ sent' = sent + 1
  /\ IF Received({}) THEN alert_rx' = Append(alert_rx, sent + 1) /\ UNCHANGED dropped
                     ELSE dropped' = dropped \union {sent + 1} /\ UNCHANGED alert_rx
  /\ inference' = "check"

Inference ==
  /\ InferenceCheck \/ InferenceQuiet \/ InferenceAlert
  /\ UNCHANGED <<running, starter, logger, monitor, journal, printed>>

-----------------------------------------------------------------------------
\* Connection::open, then CREATE TABLE: the thread returns if either fails.
LoggerOpen ==
  /\ \/ logger = "open" /\ logger' = "table"
     \/ logger = "table" /\ logger' = "file"
  /\ UNCHANGED <<alert_rx, dropped, journal>>

LoggerFails ==
  /\ logger \in {"open", "table"} \intersect Faults
  /\ logger' = "failed"
  /\ Leave("logger")
  /\ UNCHANGED journal

\* Without a text log the logger goes on with the database.
LoggerFile ==
  /\ logger = "file"
  /\ log_file' \in (IF "file" \in Faults THEN BOOLEAN ELSE {TRUE})
  /\ logger' = "receive"
  /\ UNCHANGED <<alert_rx, dropped, alert, anomalies, log, rejected, unwritten>>

LoggerReceive ==
  /\ logger = "receive" /\ alert_rx # <<>>
  /\ alert' = Head(alert_rx)
  /\ alert_rx' = Tail(alert_rx)
  /\ logger' = "row"
  /\ UNCHANGED <<dropped, log_file, anomalies, log, rejected, unwritten>>

\* Mutant of LoggerExit: the loop polls the flag like those of the others.
LoggerPolls ==
  /\ logger = "receive" /\ ~ running
  /\ logger' = "exited"
  /\ Leave("logger")
  /\ UNCHANGED journal

\* Mutant of LoggerExit: the end of the channel is taken for a default alert.
LoggerDefaults ==
  /\ logger = "receive" /\ alert_rx = <<>> /\ ~ Sending
  /\ logger' = "row"
  /\ UNCHANGED <<alert_rx, dropped, journal>>

\* recv fails once the channel is empty and has no sender.
LoggerExit ==
  /\ logger = "receive" /\ alert_rx = <<>> /\ ~ Sending
  /\ logger' = "exited"
  /\ Leave("logger")
  /\ UNCHANGED journal

\* What follows the insertion: the line, if there is a text log.
Recorded == IF log_file THEN "line" ELSE "receive"

\* Mutant of AfterRow: a failed insertion skips the rest.
AfterRowSkips(inserted) ==
  IF inserted THEN logger' = Recorded /\ alert' = (IF log_file THEN alert ELSE 0)
              ELSE logger' = "receive" /\ alert' = 0

\* A failed insertion is only reported.
AfterRow(inserted) ==
  logger' = Recorded /\ alert' = (IF log_file THEN alert ELSE 0)

LoggerRow ==
  /\ logger = "row"
  /\ \/ /\ anomalies' = Append(anomalies, alert)
        /\ AfterRow(TRUE)
        /\ UNCHANGED rejected
     \/ /\ "row" \in Faults
        /\ rejected' = rejected \union {alert}
        /\ AfterRow(FALSE)
        /\ UNCHANGED anomalies
  /\ UNCHANGED <<alert_rx, dropped, log_file, log, unwritten>>

LoggerLine ==
  /\ logger = "line"
  /\ \/ log' = Append(log, alert) /\ UNCHANGED unwritten
     \/ "line" \in Faults /\ unwritten' = unwritten \union {alert} /\ UNCHANGED log
  /\ logger' = "receive" /\ alert' = 0
  /\ UNCHANGED <<alert_rx, dropped, log_file, anomalies, rejected>>

Logger ==
  /\ \/ LoggerOpen \/ LoggerFails \/ LoggerFile \/ LoggerReceive
     \/ LoggerExit \/ LoggerRow \/ LoggerLine
  /\ UNCHANGED <<running, starter, inference, monitor, sent, printed>>

-----------------------------------------------------------------------------
MonitorCheck ==
  /\ monitor = "check"
  /\ IF running THEN monitor' = "receive" /\ UNCHANGED <<alert_rx, dropped>>
                ELSE monitor' = "exited" /\ Leave("monitor")
  /\ UNCHANGED printed

\* Mutant of MonitorReport: as if both receivers were given every alert.
MonitorPeeks ==
  /\ monitor = "receive" /\ alert_rx # <<>>
  /\ printed' = printed \union {Head(alert_rx)}
  /\ monitor' = "check"
  /\ UNCHANGED <<alert_rx, dropped>>

\* The alert the monitor receives is printed, and gone from the channel.
MonitorReport ==
  /\ monitor = "receive" /\ alert_rx # <<>>
  /\ printed' = printed \union {Head(alert_rx)}
  /\ alert_rx' = Tail(alert_rx)
  /\ monitor' = "check"
  /\ UNCHANGED dropped

MonitorTimeout ==
  /\ monitor = "receive" /\ alert_rx = <<>>
  /\ monitor' = "check"
  /\ UNCHANGED <<alert_rx, dropped, printed>>

\* The health report changes nothing the other threads see.
Monitor ==
  /\ MonitorCheck \/ MonitorReport \/ MonitorTimeout
  /\ UNCHANGED <<running, starter, inference, logger, journal, sent>>

-----------------------------------------------------------------------------
Next == Interrupt \/ Starter \/ Inference \/ Logger \/ Monitor

\* The scheduler runs every thread; nobody has to press Ctrl+C.
Fairness == WF_vars(Starter) /\ WF_vars(Inference) /\ WF_vars(Logger) /\ WF_vars(Monitor)

Spec == Init /\ [][Next]_vars /\ Fairness

-----------------------------------------------------------------------------
FlagType == running \in BOOLEAN /\ log_file \in BOOLEAN

ThreadType ==
  /\ starter \in {"logger", "inference", "monitor", "returned"}
  /\ inference \in {"unborn", "check", "receive", "exited"}
  /\ logger \in {"unborn", "open", "table", "file", "receive", "row", "line"} \union Ended
  /\ monitor \in {"unborn", "check", "receive", "exited"}
  /\ logger = "unborn" <=> starter = "logger"
  /\ inference = "unborn" <=> starter \in {"logger", "inference"}
  /\ monitor = "unborn" <=> starter # "returned"

ChannelType ==
  /\ alert_rx \in Seq(Alert) /\ sent \in 0 .. MaxAlerts
  /\ printed \subseteq Alert /\ dropped \subseteq Alert

JournalType ==
  /\ anomalies \in Seq(Alert) /\ log \in Seq(Alert)
  /\ rejected \subseteq Alert /\ unwritten \subseteq Alert
  /\ IF logger \in {"row", "line"} THEN alert \in Alert ELSE alert = 0

\* The logger holds an alert exactly while it records it.
TypeOK == FlagType /\ ThreadType /\ ChannelType /\ JournalType

\* Alerts the logger has finished with, or works on after the insertion.
Attempted == Range(anomalies) \union rejected

\* Where an alert can be.
Parts == [printed   |-> printed,
          attempted |-> Attempted,
          inserting |-> IF logger = "row" THEN {alert} ELSE {},
          queued    |-> Range(alert_rx),
          dropped   |-> dropped]

Increasing(s) == \A i, j \in 1 .. Len(s) : i < j => s[i] < s[j]

\* The logger and the monitor share the channel without losing or doubling an
\* alert: those sent are the disjoint union of the printed, the logged, the
\* one being logged, the queued and the dropped, and the database lists its
\* part in the order of the verdicts.
EachAlertReadOnce ==
  /\ 1 .. sent = UNION {Parts[p] : p \in DOMAIN Parts}
  /\ \A p, q \in DOMAIN Parts : p # q => Parts[p] \intersect Parts[q] = {}
  /\ Increasing(alert_rx) /\ Increasing(anomalies) /\ Increasing(log)

\* An alert is lost only if the logger could not open its database: however
\* shutdown interleaves with the exits of inference, monitor and logger, the
\* logger still receives what has been sent.
LostOnlyWithoutLogger == dropped # {} => logger = "failed"

\* The text log backs up the database: it has every alert the logger is done
\* with, also those whose row was rejected, but for lines that failed.
LogBacksDatabase ==
  log_file => Attempted \ {alert} = Range(log) \union unwritten

\* "Forensic Logger: Writes alerts asynchronously into a local SQLite database
\* and plain-text log files" (README.md:21): when the logger has exited in
\* order and nothing failed, every alert sent is in the database.
EveryAlertLogged ==
  logger = "exited" /\ Faults = {} => Range(anomalies) = 1 .. sent

\* Every alert sent is at last read, or dropped for want of a reader; it does
\* not stay in the channel although both readers come and go.
AlertsHandled ==
  \A n \in Alert : n <= sent ~> n \in printed \union Attempted \union dropped

\* Once the flag is cleared the three threads exit: the logger's recv without
\* a timeout is released by the end of the inference thread.
AlertingStops == ~ running ~> {inference, logger, monitor} \subseteq Ended

\* How many steps may still be taken once the flag is cleared: a receive and what
\* follows it for each alert, one alert more from the inference thread if it is
\* past its check, and each thread's own way to its end.
StepsLeft ==
  3 * Len(alert_rx)
    + (CASE starter = "logger" -> 3 [] starter = "inference" -> 2
         [] starter = "monitor" -> 1 [] OTHER -> 0)
    + (CASE inference = "receive" -> 5 [] inference \in Ended -> 0 [] OTHER -> 1)
    + (CASE logger \in {"unborn", "open"} -> 4 [] logger \in {"table", "row"} -> 3
         [] logger \in {"file", "line"} -> 2 [] logger = "receive" -> 1 [] OTHER -> 0)
    + (CASE monitor = "receive" -> 2 [] monitor \in Ended -> 0 [] OTHER -> 1)

\* After the flag is cleared the channel only drains: whoever reads an alert,
\* whatever fails and whoever leaves first, every step is one of at most StepsLeft,
\* so neither a late alert nor a thread started late keeps the threads alive.
DrainingAdvances ==
  [][~ running => StepsLeft' \in Nat /\ StepsLeft' < StepsLeft]_vars
=============================================================================
