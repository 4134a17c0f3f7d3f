--------------------------- MODULE AlertingProofs ---------------------------
(***************************************************************************)
(* Alerting: for any number of alerts and any faults, the two readers of   *)
(* the channel neither lose nor double an alert, nothing is dropped while  *)
(* the logger has its database, and the text log backs up the database.    *)
(***************************************************************************)
EXTENDS Alerting, SequenceTheorems, TLAPS

Inserting == IF logger = "row" THEN {alert} ELSE {}

\* EachAlertReadOnce without the record: every alert sent is in one of five
\* places, and in no two.
Placed ==
  /\ 1 .. sent = printed \union Attempted \union Inserting \union Range(alert_rx) \union dropped
  /\ printed \intersect Attempted = {} /\ printed \intersect Inserting = {}
  /\ printed \intersect Range(alert_rx) = {} /\ printed \intersect dropped = {}
  /\ Attempted \intersect Inserting = {} /\ Attempted \intersect Range(alert_rx) = {}
  /\ Attempted \intersect dropped = {} /\ Inserting \intersect Range(alert_rx) = {}
  /\ Inserting \intersect dropped = {} /\ Range(alert_rx) \intersect dropped = {}

\* The alerts are in order along the channel, the logger's hands, the records.
Ordered ==
  /\ Increasing(alert_rx) /\ Increasing(anomalies) /\ Increasing(log)
  /\ \A a \in Range(anomalies) \union Range(log), x \in Range(alert_rx) : a < x
  /\ logger \in {"row", "line"} =>
       /\ \A x \in Range(alert_rx) : alert < x
       /\ \A a \in Range(log) : a < alert
       /\ logger = "row" => \A a \in Range(anomalies) : a < alert

\* A logger that has exited in order has left nobody behind to send.
Drained ==
  /\ LostOnlyWithoutLogger
  /\ logger = "exited" => starter = "returned" /\ inference = "exited" /\ alert_rx = <<>>

\* Nothing is recorded before the text log is opened, and a line follows its row.
Backed ==
  /\ LogBacksDatabase
  /\ logger \in {"unborn", "open", "table", "file"} =>
       Attempted = {} /\ Range(log) = {} /\ unwritten = {}
  /\ logger = "line" => alert \in Attempted
  /\ Range(log) \subseteq Attempted

AlertingInv == TypeOK /\ Placed /\ Ordered /\ Drained /\ Backed

-----------------------------------------------------------------------------
\* Appending adds one element to the range of a sequence.
LEMMA RangeAppend ==
  ASSUME NEW S, NEW s \in Seq(S), NEW e \in S
  PROVE  Append(s, e) \in Seq(S) /\ Range(Append(s, e)) = Range(s) \union {e}
<1> DEFINE t == Append(s, e)
<1>1. t \in Seq(S) /\ Len(t) = Len(s) + 1 /\ t[Len(s) + 1] = e
  OBVIOUS
<1>2. \A i \in 1 .. Len(s) : t[i] = s[i]
  OBVIOUS
<1>3. DOMAIN t = 1 .. Len(s) + 1 /\ DOMAIN s = 1 .. Len(s) /\ Len(s) \in Nat
  BY <1>1
<1> HIDE DEF t
<1> QED
  BY <1>1, <1>2, <1>3 DEF Range, t

\* The head and the range of the tail make up the range of a sequence.
LEMMA RangeTail ==
  ASSUME NEW S, NEW s \in Seq(S), s # <<>>
  PROVE  /\ Tail(s) \in Seq(S) /\ Head(s) \in S
         /\ Range(s) = {Head(s)} \union Range(Tail(s))
<1>1. Len(s) \in Nat \ {0} /\ DOMAIN s = 1 .. Len(s) /\ Head(s) = s[1]
  OBVIOUS
<1>2. Tail(s) \in Seq(S) /\ Len(Tail(s)) = Len(s) - 1 /\ DOMAIN Tail(s) = 1 .. Len(s) - 1
  BY <1>1
<1>3. \A i \in 1 .. Len(s) - 1 : Tail(s)[i] = s[i + 1]
  OBVIOUS
<1>4. Range(Tail(s)) \subseteq Range(s) /\ Head(s) \in Range(s)
  BY <1>1, <1>2, <1>3 DEF Range
<1>5. \A x \in Range(s) : x = Head(s) \/ x \in Range(Tail(s))
  <2>1. TAKE x \in Range(s)
  <2>2. PICK i \in 1 .. Len(s) : x = s[i]
    BY <1>1 DEF Range
  <2>3. CASE i = 1
    BY <1>1, <2>2, <2>3
  <2>4. CASE i # 1
    <3>1. i - 1 \in 1 .. Len(s) - 1 /\ (i - 1) + 1 = i
      BY <1>1, <2>4
    <3>2. x = Tail(s)[i - 1]
      BY <1>3, <2>2, <3>1
    <3> QED
      BY <1>2, <3>1, <3>2 DEF Range
  <2> QED
    BY <2>3, <2>4
<1> QED
  BY <1>1, <1>2, <1>4, <1>5

\* A larger element may be appended to an increasing sequence.
LEMMA IncreasingAppend ==
  ASSUME NEW s \in Seq(Nat), NEW e \in Nat, Increasing(s), \A x \in Range(s) : x < e
  PROVE  Increasing(Append(s, e))
<1>1. \A i \in 1 .. Len(s) : s[i] \in Range(s) /\ Append(s, e)[i] = s[i]
  BY DEF Range
<1>2. Len(Append(s, e)) = Len(s) + 1 /\ Append(s, e)[Len(s) + 1] = e /\ Len(s) \in Nat
  OBVIOUS
<1> QED
  BY <1>1, <1>2 DEF Increasing

\* The tail of an increasing sequence increases from above the head.
LEMMA IncreasingTail ==
  ASSUME NEW s \in Seq(Nat), s # <<>>, Increasing(s)
  PROVE  Increasing(Tail(s)) /\ \A x \in Range(Tail(s)) : Head(s) < x
<1>1. Len(s) \in Nat \ {0} /\ Head(s) = s[1] /\ Len(Tail(s)) = Len(s) - 1
  OBVIOUS
<1>2. \A i \in 1 .. Len(s) - 1 : Tail(s)[i] = s[i + 1]
  OBVIOUS
<1>3. DOMAIN Tail(s) = 1 .. Len(s) - 1
  BY <1>1
<1>4. \A i, j \in 1 .. Len(s) : i < j => s[i] < s[j]
  BY DEF Increasing
<1>5. Increasing(Tail(s))
  BY <1>1, <1>2, <1>4 DEF Increasing
<1>6. \A i \in 1 .. Len(s) - 1 : s[1] < s[i + 1]
  BY <1>1, <1>4
<1> QED
  BY <1>1, <1>2, <1>3, <1>5, <1>6 DEF Range

-----------------------------------------------------------------------------
\* The channel's range is of alerts.
LEMMA ChannelRange ==
  ASSUME ChannelType PROVE Range(alert_rx) \subseteq Alert
BY DEF ChannelType, Range

\* Alerts are numbers.
LEMMA AlertNumbers ==
  ASSUME NEW s \in Seq(Alert) PROVE s \in Seq(Nat) /\ Range(s) \subseteq Nat
<1>1. Alert \subseteq Nat
  BY DEF Alert
<1>2. s \in Seq(Nat)
  BY <1>1, SeqMonotonic, Zenon
<1>3. Range(s) \subseteq Nat
  BY <1>2 DEF Range
<1> QED
  BY <1>2, <1>3

\* A thread that leaves keeps the channel or drops all of it.
LEMMA LeaveKeeps ==
  ASSUME ChannelType, NEW thread, Leave(thread)
  PROVE  /\ \/ alert_rx' = alert_rx /\ dropped' = dropped
            \/ alert_rx' = <<>> /\ dropped' = dropped \union Range(alert_rx)
         /\ alert_rx' \in Seq(Alert) /\ dropped' \subseteq Alert
<1>1. \/ alert_rx' = alert_rx /\ dropped' = dropped
      \/ alert_rx' = <<>> /\ dropped' = dropped \union Range(alert_rx)
  BY DEF Leave
<1>2. alert_rx \in Seq(Alert) /\ <<>> \in Seq(Alert) /\ dropped \subseteq Alert
  BY DEF ChannelType
<1>3. Range(alert_rx) \subseteq Alert
  BY ChannelRange
<1> QED
  BY <1>1, <1>2, <1>3

\* The types hold at first.
LEMMA TypeInit == Init => TypeOK
<1> SUFFICES ASSUME Init PROVE TypeOK
  OBVIOUS
<1>1. FlagType
  BY Zenon DEF Init, FlagType
<1>2. ThreadType
  BY DEF Init, ThreadType
<1>3. ChannelType
  BY AlertingAssumption DEF Init, ChannelType, Alert
<1>4. JournalType
  BY DEF Init, JournalType
<1> QED
  BY <1>1, <1>2, <1>3, <1>4 DEF TypeOK

\* Every step keeps the types.
LEMMA TypeStep == TypeOK /\ [Next]_vars => TypeOK'
<1> SUFFICES ASSUME TypeOK, [Next]_vars PROVE TypeOK'
  OBVIOUS
<1> USE DEF TypeOK
<1>1. CASE Interrupt
  <2>1. FlagType'
    BY <1>1, Zenon DEF Interrupt, FlagType, journal
  <2>2. ThreadType' /\ ChannelType' /\ JournalType'
    BY <1>1 DEF Interrupt, ThreadType, ChannelType, JournalType, journal
  <2> QED
    BY <2>1, <2>2
<1>2. CASE Starter
  <2>1. FlagType'
    BY <1>2, Zenon DEF Starter, FlagType, journal
  <2>2. ThreadType'
    BY <1>2 DEF Starter, StartLogger, StartInference, StartMonitor, ThreadType
  <2>3. ChannelType'
    BY <1>2 DEF Starter, ChannelType
  <2>4. JournalType'
    BY <1>2 DEF Starter, StartLogger, StartInference, StartMonitor, JournalType, journal, ThreadType
  <2> QED
    BY <2>1, <2>2, <2>3, <2>4
<1>3. CASE Inference
  <2>1. FlagType'
    BY <1>3, Zenon DEF Inference, FlagType, journal
  <2>2. ThreadType'
    BY <1>3 DEF Inference, InferenceCheck, InferenceQuiet, InferenceAlert, ThreadType
  <2>3. ChannelType'
    <3>1. CASE InferenceAlert
      <4>1. sent + 1 \in Alert /\ sent' = sent + 1 /\ sent' \in 0 .. MaxAlerts
        BY <3>1, AlertingAssumption DEF InferenceAlert, ChannelType, Alert
      <4>2. Append(alert_rx, sent + 1) \in Seq(Alert)
        BY <4>1 DEF ChannelType
      <4> QED
        BY <1>3, <3>1, <4>1, <4>2 DEF Inference, InferenceAlert, ChannelType
    <3>2. CASE InferenceCheck \/ InferenceQuiet
      BY <1>3, <3>2 DEF Inference, InferenceCheck, InferenceQuiet, ChannelType
    <3> QED
      BY <1>3, <3>1, <3>2 DEF Inference
  <2>4. JournalType'
    BY <1>3 DEF Inference, JournalType, journal
  <2> QED
    BY <2>1, <2>2, <2>3, <2>4
<1>4. CASE Logger
  <2>1. FlagType'
    <3>1. CASE LoggerFile
      <4>1. log_file' \in BOOLEAN
        BY <3>1 DEF LoggerFile
      <4>2. running' \in BOOLEAN
        BY <1>4, Zenon DEF Logger, FlagType
      <4> QED
        BY <4>1, <4>2 DEF FlagType
    <3>2. CASE ~ LoggerFile
      <4>1. running' = running /\ log_file' = log_file
        BY <1>4, <3>2 DEF Logger, LoggerOpen, LoggerFails, LoggerReceive, LoggerExit, LoggerRow,
                           LoggerLine, journal
      <4> QED
        BY <4>1, Zenon DEF FlagType
    <3> QED
      BY <3>1, <3>2
  <2>2. ThreadType'
    BY <1>4 DEF Logger, LoggerOpen, LoggerFails, LoggerFile, LoggerReceive, LoggerExit, LoggerRow,
                LoggerLine, AfterRow, Recorded, ThreadType, Ended
  <2>3. ChannelType'
    <3>1. CASE LoggerFails
      BY <1>4, <3>1, LeaveKeeps DEF Logger, LoggerFails, ChannelType
    <3>2. CASE LoggerExit
      BY <1>4, <3>2, LeaveKeeps DEF Logger, LoggerExit, ChannelType
    <3>3. CASE LoggerReceive
      BY <1>4, <3>3, RangeTail DEF Logger, LoggerReceive, ChannelType
    <3>4. CASE LoggerOpen \/ LoggerFile \/ LoggerRow \/ LoggerLine
      BY <1>4, <3>4 DEF Logger, LoggerOpen, LoggerFile, LoggerRow, LoggerLine, ChannelType
    <3> QED
      BY <1>4, <3>1, <3>2, <3>3, <3>4 DEF Logger
  <2>4. JournalType'
    <3>1. CASE LoggerReceive
      BY <3>1, RangeTail DEF LoggerReceive, ChannelType, JournalType
    <3>2. CASE LoggerRow
      <4>1. alert \in Alert /\ Append(anomalies, alert) \in Seq(Alert)
        BY <3>2, RangeAppend DEF LoggerRow, JournalType
      <4> QED
        BY <3>2, <4>1 DEF LoggerRow, AfterRow, Recorded, JournalType
    <3>3. CASE LoggerLine
      <4>1. alert \in Alert /\ Append(log, alert) \in Seq(Alert)
        BY <3>3, RangeAppend DEF LoggerLine, JournalType
      <4> QED
        BY <3>3, <4>1 DEF LoggerLine, JournalType
    <3>4. CASE LoggerOpen \/ LoggerFails \/ LoggerFile \/ LoggerExit
      BY <3>4 DEF LoggerOpen, LoggerFails, LoggerFile, LoggerExit, JournalType, journal
    <3> QED
      BY <1>4, <3>1, <3>2, <3>3, <3>4 DEF Logger
  <2> QED
    BY <2>1, <2>2, <2>3, <2>4
<1>5. CASE Monitor
  <2>1. FlagType'
    BY <1>5, Zenon DEF Monitor, FlagType, journal
  <2>2. ThreadType'
    BY <1>5 DEF Monitor, MonitorCheck, MonitorReport, MonitorTimeout, ThreadType
  <2>3. ChannelType'
    <3>1. CASE MonitorCheck
      BY <1>5, <3>1, LeaveKeeps DEF Monitor, MonitorCheck, ChannelType
    <3>2. CASE MonitorReport
      BY <1>5, <3>2, RangeTail DEF Monitor, MonitorReport, ChannelType
    <3>3. CASE MonitorTimeout
      BY <1>5, <3>3 DEF Monitor, MonitorTimeout, ChannelType
    <3> QED
      BY <1>5, <3>1, <3>2, <3>3 DEF Monitor
  <2>4. JournalType'
    BY <1>5 DEF Monitor, JournalType, journal
  <2> QED
    BY <2>1, <2>2, <2>3, <2>4
<1>6. CASE UNCHANGED vars
  <2>1. FlagType'
    BY <1>6, Zenon DEF vars, journal, FlagType
  <2>2. ThreadType' /\ ChannelType' /\ JournalType'
    BY <1>6 DEF vars, journal, ThreadType, ChannelType, JournalType
  <2> QED
    BY <2>1, <2>2
<1> QED
  BY <1>1, <1>2, <1>3, <1>4, <1>5, <1>6 DEF Next

-----------------------------------------------------------------------------
(* Every step moves alerts from place to place or sends a new one.         *)

\* Nothing is anywhere at first.
LEMMA InitAlerting == Init => Placed /\ Ordered /\ Drained /\ Backed
<1> SUFFICES ASSUME Init PROVE Placed /\ Ordered /\ Drained /\ Backed
  OBVIOUS
<1>1. Range(alert_rx) = {} /\ Range(anomalies) = {} /\ Range(log) = {}
  BY DEF Init, Range
<1>2. Attempted = {} /\ Inserting = {}
  BY <1>1 DEF Init, Attempted, Inserting
<1>3. 1 .. sent = {}
  BY DEF Init
<1>4. Increasing(alert_rx) /\ Increasing(anomalies) /\ Increasing(log)
  BY DEF Init, Increasing
<1> QED
  BY <1>1, <1>2, <1>3, <1>4 DEF Init, Placed, Ordered, Drained, Backed, LostOnlyWithoutLogger,
                                LogBacksDatabase

\* A thread that leaves keeps every alert in a place.
LEMMA LeavePlaces ==
  ASSUME AlertingInv, NEW thread, Leave(thread),
         UNCHANGED <<printed, anomalies, rejected, alert, sent, log>>,
         Inserting' = Inserting
  PROVE  /\ Placed'
         /\ Range(alert_rx') \subseteq Range(alert_rx) /\ Increasing(alert_rx')
<1>1. Attempted' = Attempted
  BY DEF Attempted
<1>2. CASE alert_rx' = alert_rx /\ dropped' = dropped
  BY <1>1, <1>2 DEF AlertingInv, Placed, Ordered, Increasing, Range
<1>3. CASE alert_rx' = <<>> /\ dropped' = dropped \union Range(alert_rx)
  <2>1. Range(alert_rx') = {} /\ Increasing(alert_rx')
    BY <1>3 DEF Range, Increasing
  <2> QED
    BY <1>1, <1>3, <2>1 DEF AlertingInv, Placed
<1> QED
  BY <1>2, <1>3, LeaveKeeps DEF AlertingInv, TypeOK

\* The new alert is larger than all that were sent.
LEMMA InferenceStep ==
  AlertingInv /\ Inference => Placed' /\ Ordered' /\ Drained' /\ Backed'
<1> SUFFICES ASSUME AlertingInv, Inference PROVE Placed' /\ Ordered' /\ Drained' /\ Backed'
  OBVIOUS
<1> USE DEF AlertingInv, TypeOK
<1>0. UNCHANGED <<running, starter, logger, monitor, alert, log_file, anomalies, log, rejected,
                  unwritten, printed>>
  BY DEF Inference, journal
<1>1. Attempted' = Attempted /\ Inserting' = Inserting
  BY <1>0 DEF Attempted, Inserting
<1>2. Backed'
  BY <1>0, <1>1 DEF Backed, LogBacksDatabase
<1>3. CASE InferenceCheck \/ InferenceQuiet
  <2>1. UNCHANGED <<alert_rx, sent, dropped>>
    BY <1>3 DEF InferenceCheck, InferenceQuiet
  <2>2. inference = "exited" => inference' = "exited"
    BY <1>3 DEF InferenceCheck, InferenceQuiet
  <2>3. Placed'
    BY <1>0, <1>1, <2>1 DEF Placed
  <2>4. Ordered'
    BY <1>0, <2>1 DEF Ordered, Increasing, Range
  <2>5. Drained'
    BY <1>0, <2>1, <2>2 DEF Drained, LostOnlyWithoutLogger
  <2> QED
    BY <1>2, <2>3, <2>4, <2>5
<1>4. CASE InferenceAlert
  <2> DEFINE new == sent + 1
  <2>1. sent \in Nat /\ new \in Alert /\ new \in Nat /\ sent' = new
    BY <1>4, AlertingAssumption DEF InferenceAlert, ChannelType, Alert
  <2>2. 1 .. new = (1 .. sent) \union {new} /\ \A n \in 1 .. sent : n < new /\ n \in Nat
    BY <2>1
  <2>3. new \notin 1 .. sent
    BY <2>1
  <2> HIDE DEF new
  <2>4. inference = "receive" /\ logger # "exited"
    BY <1>4 DEF InferenceAlert, Drained
  <2>5. CASE Received({})
    <3>1. alert_rx' = Append(alert_rx, new) /\ dropped' = dropped
      BY <1>4, <2>5 DEF InferenceAlert, new
    <3>2. Range(alert_rx') = Range(alert_rx) \union {new}
      BY <2>1, <3>1, RangeAppend DEF ChannelType
    <3>3. Placed'
      BY <1>0, <1>1, <2>1, <2>2, <2>3, <3>1, <3>2 DEF Placed
    <3>4. \A x \in Range(alert_rx) \union Attempted \union Inserting : x \in 1 .. sent
      BY DEF Placed
    <3>5. Increasing(alert_rx')
      <4>1. alert_rx \in Seq(Nat)
        BY AlertNumbers DEF ChannelType
      <4>2. \A x \in Range(alert_rx) : x < new
        BY <2>2, <3>4
      <4> QED
        BY <2>1, <3>1, <4>1, <4>2, IncreasingAppend DEF Ordered
    <3>6. \A a \in Range(anomalies) : a < new
      BY <2>2, <3>4 DEF Attempted
    <3>7. \A a \in Range(log) : a < new
      <4>1. Range(log) \subseteq Attempted
        BY DEF Backed
      <4> QED
        BY <4>1, <2>2, <3>4
    <3>8. logger \in {"row", "line"} => alert < new
      <4>1. logger \in {"row", "line"} => alert \in Attempted \union Inserting
        BY DEF Backed, Inserting
      <4> QED
        BY <4>1, <2>2, <3>4
    <3>9. Ordered'
      <4>1. Increasing(anomalies') /\ Increasing(log')
        BY <1>0 DEF Ordered
      <4>2. \A a \in Range(anomalies') \union Range(log'), x \in Range(alert_rx') : a < x
        BY <1>0, <3>2, <3>6, <3>7 DEF Ordered
      <4>3. logger' \in {"row", "line"} =>
              /\ \A x \in Range(alert_rx') : alert' < x
              /\ \A a \in Range(log') : a < alert'
              /\ logger' = "row" => \A a \in Range(anomalies') : a < alert'
        BY <1>0, <3>2, <3>8 DEF Ordered
      <4> QED
        BY <3>5, <4>1, <4>2, <4>3 DEF Ordered
    <3>10. Drained'
      BY <1>0, <2>4, <3>1 DEF Drained, LostOnlyWithoutLogger
    <3> QED
      BY <1>2, <3>3, <3>9, <3>10
  <2>6. CASE ~ Received({})
    <3>1. dropped' = dropped \union {new} /\ alert_rx' = alert_rx
      BY <1>4, <2>6 DEF InferenceAlert, new
    <3>2. Placed'
      BY <1>0, <1>1, <2>1, <2>2, <2>3, <3>1 DEF Placed
    <3>3. Ordered'
      BY <1>0, <3>1 DEF Ordered, Increasing, Range
    <3>4. logger = "failed"
      BY <2>4, <2>6 DEF Received, Ended
    <3>5. Drained'
      BY <1>0, <3>4 DEF Drained, LostOnlyWithoutLogger
    <3> QED
      BY <1>2, <3>2, <3>3, <3>5
  <2> QED
    BY <2>5, <2>6
<1> QED
  BY <1>3, <1>4 DEF Inference

\* The head of the channel goes to the logger, then to the records.
LEMMA LoggerStep ==
  AlertingInv /\ Logger => Placed' /\ Ordered' /\ Drained' /\ Backed'
<1> SUFFICES ASSUME AlertingInv, Logger PROVE Placed' /\ Ordered' /\ Drained' /\ Backed'
  OBVIOUS
<1> USE DEF AlertingInv, TypeOK
<1>0. UNCHANGED <<running, starter, inference, monitor, sent, printed>>
  BY DEF Logger
<1>1. CASE LoggerOpen
  <2>1. UNCHANGED <<alert_rx, dropped, alert, log_file, anomalies, log, rejected, unwritten>>
    BY <1>1 DEF LoggerOpen, journal
  <2>2. /\ logger' \in {"table", "file"} /\ logger \in {"open", "table"}
        /\ Inserting' = Inserting /\ Attempted' = Attempted
    BY <1>1, <2>1 DEF LoggerOpen, Inserting, Attempted
  <2>3. Placed'
    BY <1>0, <2>1, <2>2 DEF Placed
  <2>4. Ordered'
    BY <2>1, <2>2 DEF Ordered, Increasing, Range
  <2>5. Drained'
    BY <1>0, <2>1, <2>2 DEF Drained, LostOnlyWithoutLogger
  <2>6. Backed'
    BY <2>1, <2>2 DEF Backed, LogBacksDatabase
  <2> QED
    BY <2>3, <2>4, <2>5, <2>6
<1>2. CASE LoggerFails
  <2>1. UNCHANGED <<alert, log_file, anomalies, log, rejected, unwritten>> /\ Leave("logger")
    BY <1>2 DEF LoggerFails, journal
  <2>2. logger' = "failed" /\ logger \in {"open", "table"}
    BY <1>2 DEF LoggerFails
  <2>3. Inserting' = Inserting /\ Attempted' = Attempted
    BY <2>1, <2>2 DEF Inserting, Attempted
  <2>4. Placed' /\ Range(alert_rx') \subseteq Range(alert_rx) /\ Increasing(alert_rx')
    BY <1>0, <2>1, <2>3, LeavePlaces
  <2>5. Ordered'
    BY <2>1, <2>2, <2>4 DEF Ordered, Increasing, Range
  <2>6. Drained'
    BY <2>2 DEF Drained, LostOnlyWithoutLogger
  <2>7. Backed'
    BY <2>1, <2>2, <2>3 DEF Backed, LogBacksDatabase
  <2> QED
    BY <2>4, <2>5, <2>6, <2>7
<1>3. CASE LoggerFile
  <2>1. UNCHANGED <<alert_rx, dropped, alert, anomalies, log, rejected, unwritten>>
    BY <1>3 DEF LoggerFile
  <2>2. /\ logger' = "receive" /\ logger = "file"
        /\ Inserting' = Inserting /\ Attempted' = Attempted
    BY <1>3, <2>1 DEF LoggerFile, Inserting, Attempted
  <2>3. Placed'
    BY <1>0, <2>1, <2>2 DEF Placed
  <2>4. Ordered'
    BY <2>1, <2>2 DEF Ordered, Increasing, Range
  <2>5. Drained'
    BY <1>0, <2>1, <2>2 DEF Drained, LostOnlyWithoutLogger
  <2>6. Backed'
    BY <2>1, <2>2 DEF Backed, LogBacksDatabase
  <2> QED
    BY <2>3, <2>4, <2>5, <2>6
<1>4. CASE LoggerReceive
  <2>1. UNCHANGED <<dropped, log_file, anomalies, log, rejected, unwritten>>
    BY <1>4 DEF LoggerReceive
  <2>2. /\ logger = "receive" /\ logger' = "row" /\ alert = 0
        /\ alert_rx # <<>> /\ alert_rx \in Seq(Alert)
        /\ alert' = Head(alert_rx) /\ alert_rx' = Tail(alert_rx)
    BY <1>4 DEF LoggerReceive, JournalType, ChannelType
  <2>3. Range(alert_rx) = {alert'} \union Range(alert_rx') /\ alert' \in Alert
    BY <2>2, RangeTail
  <2>4. Increasing(alert_rx') /\ \A x \in Range(alert_rx') : alert' < x
    BY <2>2, AlertNumbers, IncreasingTail DEF Ordered
  <2>5. alert' \notin Range(alert_rx')
    <3>1. alert' \in Nat
      BY <2>3 DEF Alert
    <3> QED
      BY <2>4, <3>1
  <2>6. Inserting = {} /\ Inserting' = {alert'} /\ Attempted' = Attempted
    BY <2>1, <2>2 DEF Inserting, Attempted
  <2>7. Placed'
    BY <1>0, <2>1, <2>3, <2>5, <2>6 DEF Placed
  <2>8. Ordered'
    <3>1. Increasing(anomalies') /\ Increasing(log')
      BY <2>1 DEF Ordered
    <3>2. \A a \in Range(anomalies') \union Range(log'), x \in Range(alert_rx') : a < x
      BY <2>1, <2>3 DEF Ordered
    <3>3. \A a \in Range(anomalies') \union Range(log') : a < alert'
      BY <2>1, <2>3 DEF Ordered
    <3> QED
      BY <2>2, <2>4, <3>1, <3>2, <3>3 DEF Ordered
  <2>9. Drained'
    BY <2>1, <2>2 DEF Drained, LostOnlyWithoutLogger
  <2>10. Backed'
    <3>1. alert' \notin Attempted
      BY <2>3 DEF Placed
    <3>2. 0 \notin Attempted
      BY DEF Placed
    <3> QED
      BY <2>1, <2>2, <2>6, <3>1, <3>2 DEF Backed, LogBacksDatabase
  <2> QED
    BY <2>7, <2>8, <2>9, <2>10
<1>5. CASE LoggerExit
  <2>1. UNCHANGED <<alert, log_file, anomalies, log, rejected, unwritten>> /\ Leave("logger")
    BY <1>5 DEF LoggerExit, journal
  <2>2. /\ logger' = "exited" /\ logger = "receive" /\ alert_rx = <<>>
        /\ starter = "returned" /\ inference = "exited"
    BY <1>5 DEF LoggerExit, Sending, ThreadType, Ended
  <2>3. Inserting' = Inserting /\ Attempted' = Attempted
    BY <2>1, <2>2 DEF Inserting, Attempted
  <2>4. Placed' /\ Range(alert_rx') \subseteq Range(alert_rx) /\ Increasing(alert_rx')
    BY <1>0, <2>1, <2>3, LeavePlaces
  <2>5. Ordered'
    BY <2>1, <2>2, <2>4 DEF Ordered, Increasing, Range
  <2>6. alert_rx' = <<>> /\ dropped' = dropped
    <3>1. Range(alert_rx) = {}
      BY <2>2 DEF Range
    <3> QED
      BY <2>1, <2>2, <3>1, LeaveKeeps
  <2>7. Drained'
    BY <1>0, <2>2, <2>6 DEF Drained, LostOnlyWithoutLogger
  <2>8. Backed'
    BY <2>1, <2>2, <2>3 DEF Backed, LogBacksDatabase
  <2> QED
    BY <2>4, <2>5, <2>7, <2>8
<1>6. CASE LoggerRow
  <2>1. UNCHANGED <<alert_rx, dropped, log_file, log, unwritten>> /\ logger = "row"
    BY <1>6 DEF LoggerRow
  <2>2. alert \in Alert /\ alert \in Nat /\ alert_rx \in Seq(Alert) /\ anomalies \in Seq(Alert)
    BY <2>1 DEF JournalType, ChannelType, Alert
  <2>3. /\ logger' = IF log_file THEN "line" ELSE "receive"
        /\ alert' = IF log_file THEN alert ELSE 0
    BY <1>6 DEF LoggerRow, AfterRow, Recorded
  <2>4. \/ anomalies' = Append(anomalies, alert) /\ rejected' = rejected
        \/ anomalies' = anomalies /\ rejected' = rejected \union {alert}
    BY <1>6 DEF LoggerRow
  <2>5. Range(Append(anomalies, alert)) = Range(anomalies) \union {alert}
    BY <2>2, RangeAppend
  <2>6. Attempted' = Attempted \union {alert} /\ Inserting = {alert} /\ Inserting' = {}
    BY <2>1, <2>3, <2>4, <2>5 DEF Attempted, Inserting
  <2>7. Placed'
    BY <1>0, <2>1, <2>6 DEF Placed
  <2>8. Range(anomalies') \subseteq Range(anomalies) \union {alert}
    BY <2>4, <2>5
  <2>9. Increasing(anomalies')
    <3>1. CASE anomalies' = anomalies
      BY <3>1 DEF Ordered
    <3>2. CASE anomalies' = Append(anomalies, alert)
      <4>1. anomalies \in Seq(Nat) /\ \A a \in Range(anomalies) : a < alert
        BY <2>1, <2>2, AlertNumbers DEF Ordered
      <4> QED
        BY <2>2, <3>2, <4>1, IncreasingAppend DEF Ordered
    <3> QED
      BY <2>4, <3>1, <3>2
  <2>10. Ordered'
    <3>1. Increasing(alert_rx') /\ Increasing(log')
      BY <2>1 DEF Ordered
    <3>2. \A a \in Range(anomalies') \union Range(log'), x \in Range(alert_rx') : a < x
      BY <2>1, <2>8 DEF Ordered
    <3>3. logger' \in {"row", "line"} =>
            /\ \A x \in Range(alert_rx') : alert' < x
            /\ \A a \in Range(log') : a < alert'
            /\ logger' # "row"
      BY <2>1, <2>3 DEF Ordered
    <3> QED
      BY <2>9, <3>1, <3>2, <3>3 DEF Ordered
  <2>11. Drained'
    BY <1>0, <2>1, <2>3 DEF Drained, LostOnlyWithoutLogger
  <2>12. Backed'
    <3>1. alert \notin Attempted
      BY <2>6 DEF Placed
    <3> QED
      BY <2>1, <2>3, <2>6, <3>1 DEF Backed, LogBacksDatabase
  <2> QED
    BY <2>7, <2>10, <2>11, <2>12
<1>7. CASE LoggerLine
  <2>1. /\ UNCHANGED <<alert_rx, dropped, log_file, anomalies, rejected>>
        /\ logger = "line" /\ logger' = "receive" /\ alert' = 0
    BY <1>7 DEF LoggerLine
  <2>2. alert \in Alert /\ alert \in Nat /\ log \in Seq(Alert) /\ alert \in Attempted
    BY <2>1 DEF JournalType, Alert, Backed
  <2>3. \/ log' = Append(log, alert) /\ unwritten' = unwritten
        \/ log' = log /\ unwritten' = unwritten \union {alert}
    BY <1>7 DEF LoggerLine
  <2>4. Range(Append(log, alert)) = Range(log) \union {alert}
    BY <2>2, RangeAppend
  <2>5. Attempted' = Attempted /\ Inserting' = Inserting
    BY <2>1 DEF Attempted, Inserting
  <2>6. Placed'
    BY <1>0, <2>1, <2>5 DEF Placed
  <2>7. Range(log') \subseteq Range(log) \union {alert}
    BY <2>3, <2>4
  <2>8. Increasing(log')
    <3>1. CASE log' = log
      BY <3>1 DEF Ordered
    <3>2. CASE log' = Append(log, alert)
      <4>1. log \in Seq(Nat) /\ \A a \in Range(log) : a < alert
        BY <2>1, <2>2, AlertNumbers DEF Ordered
      <4> QED
        BY <2>2, <3>2, <4>1, IncreasingAppend DEF Ordered
    <3> QED
      BY <2>3, <3>1, <3>2
  <2>9. Ordered'
    <3>1. Increasing(alert_rx') /\ Increasing(anomalies')
      BY <2>1 DEF Ordered
    <3>2. \A a \in Range(anomalies') \union Range(log'), x \in Range(alert_rx') : a < x
      BY <2>1, <2>7 DEF Ordered
    <3> QED
      BY <2>1, <2>8, <3>1, <3>2 DEF Ordered
  <2>10. Drained'
    BY <1>0, <2>1 DEF Drained, LostOnlyWithoutLogger
  <2>11. Backed'
    <3>1. 0 \notin Attempted
      BY DEF Placed
    <3>2. log_file => Attempted = Range(log') \union unwritten'
      BY <2>2, <2>3, <2>4 DEF Backed, LogBacksDatabase
    <3> QED
      BY <2>1, <2>2, <2>5, <2>7, <3>1, <3>2 DEF Backed, LogBacksDatabase
  <2> QED
    BY <2>6, <2>9, <2>10, <2>11
<1> QED
  BY <1>1, <1>2, <1>3, <1>4, <1>5, <1>6, <1>7 DEF Logger

\* The monitor takes the head of the channel, or leaves with its receiver.
LEMMA MonitorStep ==
  AlertingInv /\ Monitor => Placed' /\ Ordered' /\ Drained' /\ Backed'
<1> SUFFICES ASSUME AlertingInv, Monitor PROVE Placed' /\ Ordered' /\ Drained' /\ Backed'
  OBVIOUS
<1> USE DEF AlertingInv, TypeOK
<1>1. UNCHANGED <<running, starter, inference, logger, alert, log_file, anomalies, log, rejected,
                  unwritten, sent>>
  BY DEF Monitor, journal
<1>2. Attempted' = Attempted /\ Inserting' = Inserting
  BY <1>1 DEF Attempted, Inserting
<1>3. Backed'
  BY <1>1, <1>2 DEF Backed, LogBacksDatabase
<1>4. ASSUME Range(alert_rx') \subseteq Range(alert_rx), Increasing(alert_rx')
      PROVE  Ordered'
  BY <1>1, <1>4 DEF Ordered
<1>5. CASE MonitorReport
  <2>1. /\ alert_rx # <<>> /\ alert_rx \in Seq(Alert) /\ alert_rx' = Tail(alert_rx)
        /\ printed' = printed \union {Head(alert_rx)} /\ dropped' = dropped
    BY <1>5 DEF MonitorReport, ChannelType
  <2>2. Range(alert_rx) = {Head(alert_rx)} \union Range(alert_rx') /\ Head(alert_rx) \in Alert
    BY <2>1, RangeTail
  <2>3. Increasing(alert_rx') /\ \A x \in Range(alert_rx') : Head(alert_rx) < x
    BY <2>1, AlertNumbers, IncreasingTail DEF Ordered
  <2>4. Head(alert_rx) \notin Range(alert_rx')
    <3>1. Head(alert_rx) \in Nat
      BY <2>2 DEF Alert
    <3> QED
      BY <2>3, <3>1
  <2>5. Placed'
    BY <1>1, <1>2, <2>1, <2>2, <2>4 DEF Placed
  <2>6. Ordered'
    BY <1>4, <2>2, <2>3
  <2>7. Drained'
    BY <1>1, <2>1 DEF Drained, LostOnlyWithoutLogger
  <2> QED
    BY <1>3, <2>5, <2>6, <2>7
<1>6. CASE MonitorCheck
  <2>1. printed' = printed
    BY <1>6 DEF MonitorCheck
  <2>2. CASE running
    <3>1. alert_rx' = alert_rx /\ dropped' = dropped
      BY <1>6, <2>2 DEF MonitorCheck
    <3>2. Placed'
      BY <1>1, <1>2, <2>1, <3>1 DEF Placed
    <3>3. Ordered'
      BY <1>4, <3>1 DEF Ordered
    <3>4. Drained'
      BY <1>1, <3>1 DEF Drained, LostOnlyWithoutLogger
    <3> QED
      BY <1>3, <3>2, <3>3, <3>4
  <2>3. CASE ~ running
    <3>1. Leave("monitor")
      BY <1>6, <2>3 DEF MonitorCheck
    <3>2. Placed' /\ Range(alert_rx') \subseteq Range(alert_rx) /\ Increasing(alert_rx')
      BY <1>1, <1>2, <2>1, <3>1, LeavePlaces
    <3>3. Drained'
      <4>1. CASE Received({"monitor"})
        BY <1>1, <3>1, <4>1 DEF Leave, Drained, LostOnlyWithoutLogger
      <4>2. CASE ~ Received({"monitor"})
        <5>1. logger \in Ended /\ alert_rx' = <<>> /\ dropped' = dropped \union Range(alert_rx)
          BY <3>1, <4>2 DEF Received, Leave
        <5>2. alert_rx = <<>> => Range(alert_rx) = {}
          BY DEF Range
        <5> QED
          BY <1>1, <5>1, <5>2 DEF Drained, LostOnlyWithoutLogger, Ended
      <4> QED
        BY <4>1, <4>2
    <3> QED
      BY <1>3, <1>4, <3>2, <3>3
  <2> QED
    BY <2>2, <2>3
<1>7. CASE MonitorTimeout
  <2>1. UNCHANGED <<alert_rx, dropped, printed>>
    BY <1>7 DEF MonitorTimeout
  <2>2. Placed'
    BY <1>1, <1>2, <2>1 DEF Placed
  <2>3. Ordered'
    BY <1>4, <2>1 DEF Ordered
  <2>4. Drained'
    BY <1>1, <2>1 DEF Drained, LostOnlyWithoutLogger
  <2> QED
    BY <1>3, <2>2, <2>3, <2>4
<1> QED
  BY <1>5, <1>6, <1>7 DEF Monitor

\* The flag and the starting of threads move no alert.
LEMMA OtherStep ==
  AlertingInv /\ (Interrupt \/ Starter \/ UNCHANGED vars)
    => Placed' /\ Ordered' /\ Drained' /\ Backed'
<1> SUFFICES ASSUME AlertingInv, Interrupt \/ Starter \/ UNCHANGED vars
             PROVE  Placed' /\ Ordered' /\ Drained' /\ Backed'
  OBVIOUS
<1> USE DEF AlertingInv, TypeOK
<1>1. UNCHANGED <<alert_rx, alert, log_file, anomalies, log, rejected, unwritten, sent, printed,
                  dropped>>
  BY DEF Interrupt, Starter, vars, journal
<1>2. /\ logger' = logger \/ (logger = "unborn" /\ logger' = "open")
      /\ starter = "returned" => starter' = "returned"
      /\ inference = "exited" => inference' = "exited"
  BY DEF Interrupt, Starter, StartLogger, StartInference, StartMonitor, vars, ThreadType
<1>3. Attempted' = Attempted /\ Inserting' = Inserting
  BY <1>1, <1>2 DEF Attempted, Inserting
<1>4. Placed'
  BY <1>1, <1>3 DEF Placed
<1>5. Ordered'
  BY <1>1, <1>2 DEF Ordered
<1>6. Drained'
  BY <1>1, <1>2 DEF Drained, LostOnlyWithoutLogger
<1>7. Backed'
  BY <1>1, <1>2, <1>3 DEF Backed, LogBacksDatabase
<1> QED
  BY <1>4, <1>5, <1>6, <1>7

\* Placed and Ordered are EachAlertReadOnce with the record written out.
LEMMA PlacedOnce == Placed /\ Ordered => EachAlertReadOnce
<1> SUFFICES ASSUME Placed, Ordered PROVE EachAlertReadOnce
  OBVIOUS
<1>1. DOMAIN Parts = {"printed", "attempted", "inserting", "queued", "dropped"}
  BY DEF Parts
<1>2. /\ Parts["printed"] = printed /\ Parts["attempted"] = Attempted
      /\ Parts["inserting"] = Inserting /\ Parts["queued"] = Range(alert_rx)
      /\ Parts["dropped"] = dropped
  BY DEF Parts, Inserting
<1>3. UNION {Parts[p] : p \in DOMAIN Parts}
        = printed \union Attempted \union Inserting \union Range(alert_rx) \union dropped
  BY <1>1, <1>2
<1>4. \A p, q \in DOMAIN Parts : p # q => Parts[p] \intersect Parts[q] = {}
  BY <1>1, <1>2 DEF Placed
<1> QED
  BY <1>3, <1>4 DEF EachAlertReadOnce, Placed, Ordered

\* For any number of alerts and any faults of the file system: every alert
\* sent is in one place, nothing is dropped while the logger has its database,
\* and the text log has what the logger is done with (main.rs:465-509, 571).
THEOREM AlertingInvariant ==
  Spec => [](TypeOK /\ EachAlertReadOnce /\ LostOnlyWithoutLogger /\ LogBacksDatabase)
<1>1. Init => AlertingInv
  BY TypeInit, InitAlerting DEF AlertingInv
<1>2. AlertingInv /\ [Next]_vars => AlertingInv'
  <2> SUFFICES ASSUME AlertingInv, [Next]_vars PROVE AlertingInv'
    OBVIOUS
  <2>1. TypeOK'
    BY TypeStep DEF AlertingInv
  <2>2. Placed' /\ Ordered' /\ Drained' /\ Backed'
    BY InferenceStep, LoggerStep, MonitorStep, OtherStep DEF Next
  <2> QED
    BY <2>1, <2>2 DEF AlertingInv
<1>3. AlertingInv => TypeOK /\ EachAlertReadOnce /\ LostOnlyWithoutLogger /\ LogBacksDatabase
  BY PlacedOnce DEF AlertingInv, Drained, Backed
<1> QED
  BY <1>1, <1>2, <1>3, PTL DEF Spec

-----------------------------------------------------------------------------
(* Shutdown.                                                               *)

\* Append and Tail change the length by one, and a thread that leaves adds none.
LEMMA ChannelLengths ==
  ASSUME ChannelType
  PROVE  /\ Len(alert_rx) \in Nat
         /\ \A n : Len(Append(alert_rx, n)) = Len(alert_rx) + 1
         /\ alert_rx # <<>> => Len(Tail(alert_rx)) = Len(alert_rx) - 1 /\ Len(alert_rx) > 0
         /\ Len(<<>>) = 0
BY DEF ChannelType

\* The terms of StepsLeft.
StarterSteps == CASE starter = "logger" -> 3 [] starter = "inference" -> 2
                  [] starter = "monitor" -> 1 [] OTHER -> 0
InferenceSteps == CASE inference = "receive" -> 5 [] inference \in Ended -> 0 [] OTHER -> 1
LoggerSteps == CASE logger \in {"unborn", "open"} -> 4 [] logger \in {"table", "row"} -> 3
                 [] logger \in {"file", "line"} -> 2 [] logger = "receive" -> 1 [] OTHER -> 0
MonitorSteps == CASE monitor = "receive" -> 2 [] monitor \in Ended -> 0 [] OTHER -> 1

\* They are numbers, before a step and after it.
StepTerms ==
  /\ StepsLeft = 3 * Len(alert_rx) + StarterSteps + InferenceSteps + LoggerSteps + MonitorSteps
  /\ Len(alert_rx) \in Nat /\ StarterSteps \in Nat /\ InferenceSteps \in Nat
  /\ LoggerSteps \in Nat /\ MonitorSteps \in Nat /\ StepsLeft \in Nat

LEMMA TermsAreNumbers == TypeOK => StepTerms
<1> SUFFICES ASSUME TypeOK PROVE StepTerms
  OBVIOUS
<1>1. Len(alert_rx) \in Nat
  BY ChannelLengths DEF TypeOK
<1>2. StarterSteps \in Nat /\ InferenceSteps \in Nat
  BY DEF StarterSteps, InferenceSteps
<1>3. LoggerSteps \in Nat /\ MonitorSteps \in Nat
  BY DEF LoggerSteps, MonitorSteps
<1>4. StepsLeft = 3 * Len(alert_rx) + StarterSteps + InferenceSteps + LoggerSteps + MonitorSteps
  BY Zenon DEF StepsLeft, StarterSteps, InferenceSteps, LoggerSteps, MonitorSteps
<1> QED
  BY <1>1, <1>2, <1>3, <1>4 DEF StepTerms

\* A thread is started on the starter's account.
LEMMA StarterAdvances ==
  ASSUME TypeOK, Starter
  PROVE  /\ StarterSteps' < StarterSteps
         /\ UNCHANGED <<InferenceSteps, LoggerSteps, MonitorSteps, alert_rx>>
BY DEF Starter, StartLogger, StartInference, StartMonitor, TypeOK, ThreadType, StarterSteps,
       InferenceSteps, LoggerSteps, MonitorSteps, Ended

\* The inference thread pays for the alert it sends.
LEMMA InferenceAdvances ==
  ASSUME TypeOK, ~ running, Inference
  PROVE  /\ 3 * Len(alert_rx') + InferenceSteps' < 3 * Len(alert_rx) + InferenceSteps
         /\ UNCHANGED <<StarterSteps, LoggerSteps, MonitorSteps>>
<1>1. UNCHANGED <<StarterSteps, LoggerSteps, MonitorSteps>>
  BY DEF Inference, StarterSteps, LoggerSteps, MonitorSteps
<1>2. \/ inference = "check" /\ inference' = "exited" /\ alert_rx' = alert_rx
      \/ inference = "receive" /\ inference' = "check"
           /\ (alert_rx' = alert_rx \/ alert_rx' = Append(alert_rx, sent + 1))
  BY DEF Inference, InferenceCheck, InferenceQuiet, InferenceAlert
<1>3. Len(alert_rx) \in Nat /\ Len(alert_rx') \in Nat /\ Len(alert_rx') <= Len(alert_rx) + 1
      /\ (inference = "check" => Len(alert_rx') = Len(alert_rx))
  BY <1>2, ChannelLengths DEF TypeOK
<1>4. \/ InferenceSteps = 1 /\ InferenceSteps' = 0 /\ inference = "check"
      \/ InferenceSteps = 5 /\ InferenceSteps' = 1
  BY <1>2 DEF InferenceSteps, Ended
<1> QED
  BY <1>1, <1>3, <1>4

\* The logger's alert was paid for in the channel.
LEMMA LoggerAdvances ==
  ASSUME TypeOK, Logger
  PROVE  /\ 3 * Len(alert_rx') + LoggerSteps' < 3 * Len(alert_rx) + LoggerSteps
         /\ UNCHANGED <<StarterSteps, InferenceSteps, MonitorSteps>>
<1>1. UNCHANGED <<StarterSteps, InferenceSteps, MonitorSteps>>
  BY DEF Logger, StarterSteps, InferenceSteps, MonitorSteps
<1>2. CASE LoggerReceive
  <2>1. logger = "receive" /\ logger' = "row" /\ alert_rx # <<>> /\ alert_rx' = Tail(alert_rx)
    BY <1>2 DEF LoggerReceive
  <2>2. Len(alert_rx) \in Nat /\ Len(alert_rx') = Len(alert_rx) - 1
    BY <2>1, ChannelLengths DEF TypeOK
  <2>3. LoggerSteps = 1 /\ LoggerSteps' = 3
    BY <2>1 DEF LoggerSteps
  <2> QED
    BY <1>1, <2>2, <2>3
<1>3. CASE ~ LoggerReceive
  <2>1. Len(alert_rx) \in Nat /\ Len(alert_rx') \in Nat /\ Len(alert_rx') <= Len(alert_rx)
    <3>1. alert_rx' = alert_rx \/ alert_rx' = <<>>
      BY <1>3 DEF Logger, LoggerOpen, LoggerFails, LoggerFile, LoggerExit, LoggerRow, LoggerLine, Leave
    <3> QED
      BY <3>1, ChannelLengths DEF TypeOK
  <2>2. LoggerSteps' < LoggerSteps
    <3>1. CASE LoggerOpen
      <4>1. \/ logger = "open" /\ logger' = "table"
            \/ logger = "table" /\ logger' = "file"
        BY <3>1 DEF LoggerOpen
      <4> QED
        BY <4>1 DEF LoggerSteps
    <3>4. CASE LoggerFile \/ LoggerExit
      <4>1. \/ logger = "file" /\ logger' = "receive"
            \/ logger = "receive" /\ logger' = "exited"
        BY <3>4 DEF LoggerFile, LoggerExit
      <4> QED
        BY <4>1 DEF LoggerSteps
    <3>2. CASE LoggerFails
      <4>1. logger \in {"open", "table"} /\ logger' = "failed"
        BY <3>2 DEF LoggerFails
      <4> QED
        BY <4>1 DEF LoggerSteps
    <3>3. CASE LoggerRow \/ LoggerLine
      <4>1. \/ logger = "row" /\ logger' \in {"line", "receive"}
            \/ logger = "line" /\ logger' = "receive"
        BY <3>3 DEF LoggerRow, LoggerLine, AfterRow, Recorded
      <4> QED
        BY <4>1 DEF LoggerSteps
    <3> QED
      BY <1>3, <3>1, <3>2, <3>3, <3>4 DEF Logger
  <2>3. LoggerSteps \in Nat /\ LoggerSteps' \in Nat
    BY DEF LoggerSteps
  <2> QED
    BY <1>1, <2>1, <2>2, <2>3
<1> QED
  BY <1>2, <1>3

\* The monitor empties the channel or leaves it alone.
LEMMA MonitorAdvances ==
  ASSUME TypeOK, ~ running, Monitor
  PROVE  /\ 3 * Len(alert_rx') + MonitorSteps' < 3 * Len(alert_rx) + MonitorSteps
         /\ UNCHANGED <<StarterSteps, InferenceSteps, LoggerSteps>>
<1>1. UNCHANGED <<StarterSteps, InferenceSteps, LoggerSteps>>
  BY DEF Monitor, StarterSteps, InferenceSteps, LoggerSteps
<1>2. \/ alert_rx' = alert_rx \/ alert_rx' = <<>>
      \/ alert_rx # <<>> /\ alert_rx' = Tail(alert_rx)
  <2>1. CASE MonitorCheck
    BY <2>1 DEF MonitorCheck, Leave
  <2>2. CASE MonitorReport \/ MonitorTimeout
    BY <2>2 DEF MonitorReport, MonitorTimeout
  <2> QED
    BY <2>1, <2>2 DEF Monitor
<1>3. Len(alert_rx) \in Nat /\ Len(alert_rx') \in Nat /\ Len(alert_rx') <= Len(alert_rx)
  BY <1>2, ChannelLengths DEF TypeOK
<1>4. \/ monitor = "check" /\ monitor' = "exited"
      \/ monitor = "receive" /\ monitor' = "check"
  BY DEF Monitor, MonitorCheck, MonitorReport, MonitorTimeout
<1>5. MonitorSteps' < MonitorSteps /\ MonitorSteps \in Nat /\ MonitorSteps' \in Nat
  BY <1>4 DEF MonitorSteps, Ended
<1> QED
  BY <1>1, <1>3, <1>5

\* For any number of alerts and any faults: after the flag is cleared no step is
\* taken beyond the StepsLeft of that moment (main.rs:465-509, 571).
THEOREM AlertingIsFinite == Spec => DrainingAdvances
<1>1. TypeOK /\ [Next]_vars =>
        [~ running => StepsLeft' \in Nat /\ StepsLeft' < StepsLeft]_vars
  <2> SUFFICES ASSUME TypeOK, [Next]_vars, vars' # vars, ~ running
               PROVE  StepsLeft' \in Nat /\ StepsLeft' < StepsLeft
    OBVIOUS
  <2>1. TypeOK'
    BY TypeStep
  <2>2. StepTerms /\ StepTerms'
    BY <2>1, TermsAreNumbers, PTL
  <2>3. Starter \/ Inference \/ Logger \/ Monitor
    BY DEF Next, Interrupt
  <2>4. 3 * Len(alert_rx') + StarterSteps' + InferenceSteps' + LoggerSteps' + MonitorSteps'
          < 3 * Len(alert_rx) + StarterSteps + InferenceSteps + LoggerSteps + MonitorSteps
    <3>1. CASE Starter
      BY <2>2, <3>1, StarterAdvances DEF StepTerms
    <3>2. CASE Inference
      <4>1. 3 * Len(alert_rx') + InferenceSteps' < 3 * Len(alert_rx) + InferenceSteps
        BY <3>2, InferenceAdvances
      <4>2. UNCHANGED <<StarterSteps, LoggerSteps, MonitorSteps>>
        BY <3>2, InferenceAdvances
      <4> QED
        BY ONLY <2>2, <4>1, <4>2 DEF StepTerms
    <3>3. CASE Logger
      <4>1. 3 * Len(alert_rx') + LoggerSteps' < 3 * Len(alert_rx) + LoggerSteps
        BY <3>3, LoggerAdvances
      <4>2. UNCHANGED <<StarterSteps, InferenceSteps, MonitorSteps>>
        BY <3>3, LoggerAdvances
      <4> QED
        BY ONLY <2>2, <4>1, <4>2 DEF StepTerms
    <3>4. CASE Monitor
      <4>1. 3 * Len(alert_rx') + MonitorSteps' < 3 * Len(alert_rx) + MonitorSteps
        BY <3>4, MonitorAdvances
      <4>2. UNCHANGED <<StarterSteps, InferenceSteps, LoggerSteps>>
        BY <3>4, MonitorAdvances
      <4> QED
        BY ONLY <2>2, <4>1, <4>2 DEF StepTerms
    <3> QED
      BY <2>3, <3>1, <3>2, <3>3, <3>4
  <2> QED
    BY <2>2, <2>4 DEF StepTerms
<1> QED
  BY <1>1, TypeInit, TypeStep, PTL DEF Spec, DrainingAdvances
=============================================================================
