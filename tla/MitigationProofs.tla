-------------------------- MODULE MitigationProofs --------------------------
(***************************************************************************)
(* Mitigation: the blocklist follows the verdicts, for every set of flows, *)
(* shards and configurations and without bounds on alerts and time.        *)
(***************************************************************************)
EXTENDS Mitigation, TLAPS

\* The verdict on ip has been given, and the inference thread has yet to lock
\* the shard to apply it.
Pending(ip) == inference.at # "idle" /\ inference.ip = ip

\* Every block bears the time of the latest verdict on its address, or that
\* verdict is about to be applied; what is about to be applied is the latest one,
\* and an insertion leaves room for its alert.
BlockInv ==
  /\ \A ip \in DOMAIN blocklist : blocklist[ip] = suspect[latest[ip]] \/ Pending(ip)
  /\ inference.at = "insert" =>
       inference.stamp = suspect[latest[inference.ip]] /\ alerts < MaxAlerts
  /\ inference.at = "remove" => suspect[latest[inference.ip]] = Never

\* Unless the latest verdict on an address is normal, it is the youngest one.
LatestIsYoungest ==
  \A k \in Keys :
    suspect[latest[SrcIp(k)]] # Never => suspect[k] <= suspect[latest[SrcIp(k)]]

\* SuspectsTracked while a verdict is on its way.
Tracked ==
  \A k \in Keys : Fresh(k) =>
    \/ SrcIp(k) \in DOMAIN blocklist \/ Pending(SrcIp(k))
    \/ suspect[latest[SrcIp(k)]] = Never
    \/ SrcIp(k) \in raced

\* What the handler is about to remove had outlived some TTL.
ExpiredLookup ==
  server.at = "expire" => \E c \in Configs : clock - server.stamp >= c.ttl

TrackInv == LatestIsYoungest /\ Tracked /\ ExpiredLookup

MitigationInv == TypeOK /\ BlockInv /\ TrackInv

\* The reported address of a judged flow is one of the addresses.
LEMMA SrcIpType == \A k \in Keys : SrcIp(k) \in IPs
BY DEF IPs

\* The map and the history are empty at first.
LEMMA InitBlocks == Init => MitigationInv
<1> SUFFICES ASSUME Init PROVE MitigationInv
  OBVIOUS
<1>1. DOMAIN blocklist = {} /\ DOMAIN stats.listed = {}
  BY DEF Init, NoListing
<1>2. BlocklistType /\ BlockInv
  BY <1>1 DEF Init, Judging, BlocklistType, BlockInv
<1>3. SharedType
  <2>1. reloading \in BOOLEAN
    BY Zenon DEF Init
  <2>2. clock \in 0 .. MaxTime /\ alerts \in 0 .. MaxAlerts /\ config \in Configs
    BY MitigationAssumption DEF Init
  <2> QED
    BY <2>1, <2>2 DEF SharedType
<1>4. InferenceType
  BY DEF Init, InferenceType, Judging
<1>5. ServerType /\ GuardType
  BY DEF Init, ServerType, GuardType, Listening, Checking
<1>6. StatsType
  BY <1>1, MitigationAssumption DEF Init, StatsType, NoListing
<1>7. HistoryType
  <2>1. reloaded \in BOOLEAN
    BY Zenon DEF Init
  <2>2. answer \in {Unanswered, 200, 403} /\ right \subseteq {200, 403} /\ raced \subseteq IPs
    BY DEF Init
  <2>3. suspect \in [Keys -> Never .. clock]
    BY DEF Init, Never
  <2>4. \A ip \in IPs : latest[ip] \in Keys /\ SrcIp(latest[ip]) = ip
    BY DEF Init, IPs
  <2>5. latest \in [IPs -> Keys]
    <3>1. latest = [ip \in IPs |-> latest[ip]]
      BY DEF Init
    <3> QED
      BY <2>4, <3>1
  <2>6. listable.always \subseteq listable.ever /\ listable.ever \subseteq IPs
    BY DEF Init, Nobody
  <2> QED
    BY <2>1, <2>2, <2>3, <2>4, <2>5, <2>6 DEF HistoryType
<1>8. TrackInv
  <2>1. \A k \in Keys : suspect[k] = Never /\ SrcIp(k) \in IPs
    BY SrcIpType DEF Init
  <2>2. \A k \in Keys : latest[SrcIp(k)] \in Keys
    BY <1>7, SrcIpType DEF HistoryType
  <2> QED
    BY <2>1, <2>2 DEF Init, Listening, TrackInv, LatestIsYoungest, Tracked, Fresh, ExpiredLookup
<1> QED
  BY <1>2, <1>3, <1>4, <1>5, <1>6, <1>7, <1>8 DEF MitigationInv, TypeOK

\* Whatever a step adds to the answers of a request is an answer, and what it
\* adds to a listing is a blocked address.
LEMMA ObservedType ==
  ASSUME right \subseteq {200, 403}, listable.always \subseteq listable.ever,
         listable.ever \subseteq IPs, (DOMAIN blocklist)' \subseteq IPs, Observe
  PROVE  /\ right' \subseteq {200, 403}
         /\ listable'.always \subseteq listable'.ever /\ listable'.ever \subseteq IPs
<1>1. RightNow' \in {200, 403}
  BY DEF RightNow, RightAnswer
<1>2. right' \subseteq {200, 403}
  <2>1. CASE server'.at \notin Checking
    BY <2>1 DEF Observe, ObserveCheck
  <2>2. CASE server'.at \in Checking /\ server.at = "idle"
    BY <1>1, <2>2 DEF Observe, ObserveCheck
  <2>3. CASE server'.at \in Checking /\ server.at = "ttl"
    BY <1>1, <2>3 DEF Observe, ObserveCheck
  <2>4. CASE server'.at \in Checking /\ server.at \notin {"idle", "ttl"}
    BY <2>4 DEF Observe, ObserveCheck
  <2> QED
    BY <2>1, <2>2, <2>3, <2>4
<1>3. CASE server'.at # "scan"
  BY <1>2, <1>3 DEF Observe, ObserveListing, Nobody
<1>4. CASE server'.at = "scan" /\ server.at # "scan"
  BY <1>2, <1>4 DEF Observe, ObserveListing
<1>5. CASE server'.at = "scan" /\ server.at = "scan"
  BY <1>2, <1>5 DEF Observe, ObserveListing
<1> QED
  BY <1>3, <1>4, <1>5

-----------------------------------------------------------------------------
(* The detector's steps.                                                   *)

\* They keep the types.
LEMMA InferenceKeepsType == MitigationInv /\ Inference => TypeOK'
<1> SUFFICES ASSUME MitigationInv, Inference PROVE TypeOK'
  OBVIOUS
<1> USE DEF MitigationInv, TypeOK
<1>1. UNCHANGED <<config, reloading, clock, server, stats, guard, answer, reloaded>>
  BY DEF Inference
<1>2. ServerType' /\ GuardType' /\ StatsType'
  BY <1>1 DEF ServerType, GuardType, StatsType
<1>3. clock \in Nat /\ 0 \in 0 .. clock /\ clock \in 0 .. clock
  BY MitigationAssumption DEF SharedType
<1>4. ASSUME BlocklistType', alerts' \in 0 .. MaxAlerts, raced' \subseteq IPs, InferenceType',
             suspect' \in [Keys -> Never .. clock], latest' \in [IPs -> Keys],
             \A ip \in IPs : SrcIp(latest'[ip]) = ip
      PROVE  TypeOK'
  <2>1. SharedType'
    BY <1>1, <1>4 DEF SharedType
  <2>2. (DOMAIN blocklist)' \subseteq IPs
    BY <1>4 DEF BlocklistType
  <2>3. /\ right' \subseteq {200, 403}
        /\ listable'.always \subseteq listable'.ever /\ listable'.ever \subseteq IPs
    <3>1. /\ right \subseteq {200, 403} /\ listable.always \subseteq listable.ever
          /\ listable.ever \subseteq IPs /\ Observe
      BY DEF HistoryType, Inference
    <3> QED
      BY <2>2, <3>1, ObservedType
  <2>4. HistoryType'
    BY <1>1, <1>4, <2>3 DEF HistoryType
  <2> QED
    BY <1>2, <1>4, <2>1, <2>4
<1>5. suspect \in [Keys -> Never .. clock] /\ latest \in [IPs -> Keys] /\ raced \subseteq IPs
      /\ (\A ip \in IPs : SrcIp(latest[ip]) = ip) /\ alerts \in 0 .. MaxAlerts
  BY DEF HistoryType, SharedType
<1>6. CASE Insert
  <2>1. inference.ip \in IPs /\ inference.stamp \in 0 .. clock /\ inference.at = "insert"
    BY <1>6 DEF Insert, InferenceType
  <2>2. BlocklistType'
    BY <1>1, <1>6, <2>1 DEF Insert, With, BlocklistType
  <2>3. alerts' \in 0 .. MaxAlerts
    BY <1>5, <1>6, <2>1, MitigationAssumption DEF Insert, BlockInv
  <2>4. InferenceType'
    BY <1>1, <1>3, <1>6 DEF Insert, InferenceType, Judging
  <2>5. raced' \subseteq IPs /\ UNCHANGED <<suspect, latest>>
    BY <1>5, <1>6 DEF Insert
  <2> QED
    BY <1>4, <1>5, <2>2, <2>3, <2>4, <2>5
<1>7. CASE Unblock
  <2>1. BlocklistType'
    BY <1>1, <1>7 DEF Unblock, Without, BlocklistType
  <2>2. InferenceType'
    BY <1>1, <1>3, <1>7 DEF Unblock, InferenceType, Judging
  <2>3. UNCHANGED <<alerts, suspect, latest, raced>>
    BY <1>7 DEF Unblock
  <2> QED
    BY <1>4, <1>5, <2>1, <2>2, <2>3
<1>8. ASSUME NEW k \in Keys, Anomaly(k) \/ Normal(k) PROVE TypeOK'
  <2>1. SrcIp(k) \in IPs
    BY SrcIpType
  <2>2. UNCHANGED <<blocklist, alerts, raced>>
    BY <1>8 DEF Anomaly, Normal
  <2>3. BlocklistType'
    BY <1>1, <2>2 DEF BlocklistType
  <2>4. InferenceType'
    BY <1>1, <1>3, <1>8, <2>1 DEF Anomaly, Normal, InferenceType
  <2>5. suspect' \in [Keys -> Never .. clock]
    <3>1. clock \in Never .. clock /\ Never \in Never .. clock
      BY <1>3 DEF Never
    <3>2. suspect' = [suspect EXCEPT ![k] = clock] \/ suspect' = [suspect EXCEPT ![k] = Never]
      BY <1>8 DEF Anomaly, Normal
    <3> QED
      BY <1>5, <3>1, <3>2
  <2>6. latest' = [latest EXCEPT ![SrcIp(k)] = k]
    BY <1>8 DEF Anomaly, Normal
  <2>7. latest' \in [IPs -> Keys] /\ \A ip \in IPs : SrcIp(latest'[ip]) = ip
    BY <1>5, <2>1, <2>6
  <2> QED
    BY <1>4, <1>5, <2>2, <2>3, <2>4, <2>5, <2>7
<1> QED
  BY <1>6, <1>7, <1>8 DEF Inference, Apply

\* The blocks stay those of the latest verdicts.
LEMMA InferenceKeepsBlocks == MitigationInv /\ Inference => BlockInv'
<1> SUFFICES ASSUME MitigationInv, Inference PROVE BlockInv'
  OBVIOUS
<1>1. BlockInv /\ InferenceType /\ HistoryType /\ BlocklistType
  BY DEF MitigationInv, TypeOK
<1>2. CASE Insert
  <2>1. inference.at = "insert" /\ inference.ip \in IPs
    BY <1>1, <1>2 DEF Insert, InferenceType
  <2> DEFINE new == With(inference.ip, inference.stamp)
  <2>2. \A i \in DOMAIN new : new[i] = suspect[latest[i]]
    BY <1>1, <2>1 DEF With, BlockInv, Pending
  <2>3. blocklist' = new /\ UNCHANGED <<suspect, latest>> /\ inference'.at = "idle"
    BY <1>2 DEF Insert, Judging
  <2> QED
    BY <2>2, <2>3 DEF BlockInv
<1>3. CASE Unblock
  <2> DEFINE new == Without(inference.ip)
  <2>1. \A i \in DOMAIN new : new[i] = suspect[latest[i]]
    BY <1>1 DEF Without, BlockInv, Pending
  <2>2. blocklist' = new /\ UNCHANGED <<suspect, latest>> /\ inference'.at = "idle"
    BY <1>3 DEF Unblock, Judging
  <2> QED
    BY <2>1, <2>2 DEF BlockInv
<1>4. ASSUME NEW k \in Keys, Anomaly(k) PROVE BlockInv'
  <2>1. /\ inference.at = "idle" /\ alerts < MaxAlerts /\ UNCHANGED <<blocklist, alerts>>
        /\ inference' = [at |-> "insert", ip |-> SrcIp(k), stamp |-> clock]
        /\ suspect' = [suspect EXCEPT ![k] = clock] /\ latest' = [latest EXCEPT ![SrcIp(k)] = k]
    BY <1>4 DEF Anomaly
  <2>2. SrcIp(k) \in IPs /\ latest'[SrcIp(k)] = k /\ suspect'[k] = clock
    BY <1>1, <2>1, SrcIpType DEF HistoryType
  <2>3. ASSUME NEW i \in DOMAIN blocklist, i # SrcIp(k)
        PROVE  blocklist[i] = suspect'[latest'[i]]
    <3>1. i \in IPs /\ blocklist[i] = suspect[latest[i]]
      BY <1>1, <2>1, <2>3 DEF BlockInv, Pending, BlocklistType
    <3>2. latest[i] # k /\ latest'[i] = latest[i] /\ latest[i] \in Keys
      BY <1>1, <2>1, <2>3, <3>1 DEF HistoryType
    <3>3. suspect'[latest[i]] = suspect[latest[i]]
      BY <1>1, <2>1, <3>2 DEF HistoryType
    <3> QED
      BY <3>1, <3>2, <3>3
  <2> QED
    BY <2>1, <2>2, <2>3 DEF BlockInv, Pending
<1>5. ASSUME NEW k \in Keys, Normal(k) PROVE BlockInv'
  <2>1. /\ inference.at = "idle" /\ UNCHANGED <<blocklist, alerts>>
        /\ inference' = IF SrcIp(k) \in DOMAIN blocklist
                          THEN [at |-> "remove", ip |-> SrcIp(k), stamp |-> 0] ELSE inference
        /\ suspect' = [suspect EXCEPT ![k] = Never] /\ latest' = [latest EXCEPT ![SrcIp(k)] = k]
    BY <1>5 DEF Normal
  <2>2. SrcIp(k) \in IPs /\ latest'[SrcIp(k)] = k /\ suspect'[k] = Never
    BY <1>1, <2>1, SrcIpType DEF HistoryType
  <2>3. ASSUME NEW i \in DOMAIN blocklist, i # SrcIp(k)
        PROVE  blocklist[i] = suspect'[latest'[i]]
    <3>1. i \in IPs /\ blocklist[i] = suspect[latest[i]]
      BY <1>1, <2>1, <2>3 DEF BlockInv, Pending, BlocklistType
    <3>2. latest[i] # k /\ latest'[i] = latest[i] /\ latest[i] \in Keys
      BY <1>1, <2>1, <2>3, <3>1 DEF HistoryType
    <3>3. suspect'[latest[i]] = suspect[latest[i]]
      BY <1>1, <2>1, <3>2 DEF HistoryType
    <3> QED
      BY <3>1, <3>2, <3>3
  <2> QED
    BY <2>1, <2>2, <2>3 DEF BlockInv, Pending
<1> QED
  BY <1>2, <1>3, <1>4, <1>5 DEF Inference, Apply

\* A fresh verdict stays tracked: its own insertion is on its way, and a verdict
\* on another flow of the address becomes the latest one.
LEMMA InferenceKeepsTrack == MitigationInv /\ Inference => TrackInv'
<1> SUFFICES ASSUME MitigationInv, Inference PROVE TrackInv'
  OBVIOUS
<1>1. BlockInv /\ TrackInv /\ InferenceType /\ HistoryType /\ SharedType
  BY DEF MitigationInv, TypeOK
<1>2. UNCHANGED <<clock, server>> /\ clock \in Nat
  BY <1>1, MitigationAssumption DEF Inference, SharedType
<1>3. ExpiredLookup'
  BY <1>1, <1>2 DEF TrackInv, ExpiredLookup
<1>4. ASSUME UNCHANGED <<suspect, latest>>
      PROVE  LatestIsYoungest' /\ \A k \in Keys : Fresh(k)' => Fresh(k)
  BY <1>1, <1>2, <1>4 DEF TrackInv, LatestIsYoungest, Fresh
<1>5. CASE Insert
  <2>1. /\ UNCHANGED <<suspect, latest>> /\ raced' = raced \ {inference.ip}
        /\ DOMAIN blocklist' = DOMAIN blocklist \union {inference.ip}
        /\ inference' = Judging
    BY <1>5 DEF Insert, With
  <2>2. Tracked'
    BY <1>1, <1>4, <2>1 DEF TrackInv, Tracked, Pending
  <2> QED
    BY <1>3, <1>4, <2>1, <2>2 DEF TrackInv
<1>6. CASE Unblock
  <2>1. /\ UNCHANGED <<suspect, latest, raced>> /\ inference.at = "remove"
        /\ DOMAIN blocklist' = DOMAIN blocklist \ {inference.ip}
    BY <1>6 DEF Unblock, Without
  <2>2. suspect[latest[inference.ip]] = Never
    BY <1>1, <2>1 DEF BlockInv
  <2>3. Tracked'
    BY <1>1, <1>4, <2>1, <2>2 DEF TrackInv, Tracked, Pending
  <2> QED
    BY <1>3, <1>4, <2>1, <2>3 DEF TrackInv
<1>7. ASSUME NEW k \in Keys, Anomaly(k) \/ Normal(k) PROVE LatestIsYoungest' /\ Tracked'
  <2>1. /\ inference.at = "idle" /\ UNCHANGED <<blocklist, raced>>
        /\ latest' = [latest EXCEPT ![SrcIp(k)] = k]
    BY <1>7 DEF Anomaly, Normal
  <2>2. PICK t : /\ suspect' = [suspect EXCEPT ![k] = t]
                 /\ \/ t = clock /\ inference'.at = "insert" /\ inference'.ip = SrcIp(k)
                    \/ t = Never
    BY <1>7 DEF Anomaly, Normal
  <2>3. /\ SrcIp(k) \in IPs /\ latest'[SrcIp(k)] = k /\ suspect'[k] = t
        /\ \A j \in Keys : j # k => suspect'[j] = suspect[j]
    BY <1>1, <2>1, <2>2, SrcIpType DEF HistoryType
  <2>4. ASSUME NEW j \in Keys, SrcIp(j) = SrcIp(k)
        PROVE  t = Never \/ (t = clock /\ suspect'[j] <= clock /\ Pending(SrcIp(j))')
    <3>1. t # Never => suspect'[j] = clock \/ suspect'[j] = suspect[j]
      BY <2>2, <2>3
    <3>2. suspect[j] <= clock
      BY <1>1, <1>2 DEF HistoryType, Never
    <3> QED
      BY <1>2, <2>2, <2>4, <3>1, <3>2 DEF Pending
  <2>5. ASSUME NEW j \in Keys, SrcIp(j) # SrcIp(k)
        PROVE  /\ latest'[SrcIp(j)] = latest[SrcIp(j)] /\ suspect'[j] = suspect[j]
               /\ suspect'[latest[SrcIp(j)]] = suspect[latest[SrcIp(j)]]
    <3>1. SrcIp(j) \in IPs /\ latest[SrcIp(j)] \in Keys /\ latest[SrcIp(j)] # k
      BY <1>1, <2>5, SrcIpType DEF HistoryType
    <3>2. latest'[SrcIp(j)] = latest[SrcIp(j)]
      BY <1>1, <2>1, <2>5, <3>1 DEF HistoryType
    <3> QED
      BY <2>3, <2>5, <3>1, <3>2
  <2>6. LatestIsYoungest'
    BY <1>1, <2>3, <2>4, <2>5 DEF TrackInv, LatestIsYoungest
  <2>7. ASSUME NEW j \in Keys, Fresh(j)'
        PROVE  \/ SrcIp(j) \in DOMAIN blocklist' \/ Pending(SrcIp(j))'
               \/ suspect'[latest'[SrcIp(j)]] = Never
               \/ SrcIp(j) \in raced'
    <3>1. CASE SrcIp(j) = SrcIp(k)
      BY <2>3, <2>4, <3>1
    <3>2. CASE SrcIp(j) # SrcIp(k)
      <4>1. Fresh(j)
        BY <1>2, <2>5, <2>7, <3>2 DEF Fresh
      <4>2. ~ Pending(SrcIp(j))
        BY <2>1 DEF Pending
      <4> QED
        BY <1>1, <2>1, <2>5, <3>2, <4>1, <4>2 DEF TrackInv, Tracked
    <3> QED
      BY <3>1, <3>2
  <2>8. Tracked'
    BY <2>7 DEF Tracked
  <2> QED
    BY <2>6, <2>8
<1> QED
  BY <1>3, <1>5, <1>6, <1>7 DEF Inference, Apply, TrackInv

LEMMA InferenceKeeps == MitigationInv /\ Inference => MitigationInv'
BY InferenceKeepsType, InferenceKeepsBlocks, InferenceKeepsTrack DEF MitigationInv

-----------------------------------------------------------------------------
(* The web server's steps.                                                 *)

\* They keep the types: at most they remove an entry.
LEMMA ServerKeepsType == MitigationInv /\ Server => TypeOK'
<1> SUFFICES ASSUME MitigationInv, Server PROVE TypeOK'
  OBVIOUS
<1> USE DEF MitigationInv, TypeOK
<1>1. UNCHANGED <<config, reloading, clock>> /\ UNCHANGED verdicts
  BY DEF Server
<1>2. clock \in Nat /\ 0 \in 0 .. clock
  BY MitigationAssumption DEF SharedType
<1>3. SharedType' /\ InferenceType'
  BY <1>1 DEF SharedType, InferenceType, verdicts
<1>4. ASSUME Expire
      PROVE  BlocklistType' /\ raced' \subseteq IPs /\ ServerType' /\ GuardType' /\ StatsType'
  <2>1. BlocklistType'
    BY <1>1, <1>4 DEF Expire, Without, BlocklistType
  <2>2. ServerType' /\ GuardType' /\ StatsType'
    BY <1>1, <1>4 DEF Expire, ServerType, GuardType, StatsType, Checking
  <2>3. raced' \subseteq IPs
    BY <1>4 DEF Expire, HistoryType, ServerType, Checking
  <2> QED
    BY <2>1, <2>2, <2>3
<1>5. ASSUME ~ Expire PROVE BlocklistType' /\ UNCHANGED <<blocklist, raced>>
  <2>1. UNCHANGED <<blocklist, raced>>
    BY <1>5 DEF Server, Serve, JudgeAge, Answer, ScanShard, Respond, Stats, Lookup
  <2> QED
    BY <1>1, <2>1 DEF BlocklistType
<1>6. BlocklistType' /\ raced' \subseteq IPs
  BY <1>4, <1>5 DEF HistoryType
<1>7. ServerType' /\ GuardType' /\ StatsType'
  <2>1. CASE JudgeAge
    BY <1>1, <2>1 DEF JudgeAge, ServerType, GuardType, StatsType, Checking
  <2>2. CASE Answer
    BY <1>1, <1>2, <2>2 DEF Answer, ServerType, GuardType, StatsType, Listening, Checking
  <2>3. CASE ScanShard
    <3>1. UNCHANGED <<server, guard>>
      BY <2>3 DEF ScanShard
    <3>2. ServerType' /\ GuardType'
      BY <1>1, <3>1 DEF ServerType, GuardType
    <3> DEFINE more == InShard(stats.next)
    <3>3. /\ stats'.ttl = stats.ttl /\ stats'.next = stats.next + 1
          /\ stats'.listed = Listed(more) /\ stats.next <= Shards
      BY <2>3 DEF ScanShard, Extended
    <3>4. stats.next \in 1 .. Shards + 1 /\ Shards \in Nat /\ stats.ttl \in Nat
      BY MitigationAssumption DEF StatsType
    <3>5. \A ip \in more : ip \in IPs /\ Shard[ip] = stats.next /\ Remaining(ip) \in 0 .. stats.ttl
      <4>1. \A ip \in more : ip \in IPs /\ Shard[ip] = stats.next /\ blocklist[ip] \in 0 .. clock
        BY DEF InShard, BlocklistType
      <4> QED
        BY <1>2, <3>4, <4>1 DEF Remaining
    <3>6. \A ip \in DOMAIN stats.listed : Shard[ip] \in 1 .. Shards
      BY MitigationAssumption DEF StatsType
    <3> HIDE DEF more
    <3>7. DOMAIN Listed(more) = DOMAIN stats.listed \union more
      BY DEF Listed
    <3>8. \A ip \in DOMAIN Listed(more) : Listed(more)[ip] \in 0 .. stats.ttl
      BY <3>5 DEF Listed, StatsType
    <3>9. \A ip \in DOMAIN Listed(more) : ip \in IPs /\ Shard[ip] < stats.next + 1
      BY <3>4, <3>5, <3>6, <3>7 DEF StatsType
    <3>10. stats'.ttl \in {0} \union {c.ttl : c \in Configs}
      BY <3>3 DEF StatsType
    <3>11. stats'.next \in 1 .. Shards + 1
      BY <3>3, <3>4
    <3> QED
      BY <3>2, <3>3, <3>8, <3>9, <3>10, <3>11 DEF StatsType
  <2>4. CASE Respond
    <3>1. StatsType'
      BY <2>4, MitigationAssumption DEF Respond, NoListing, StatsType
    <3> QED
      BY <1>1, <1>2, <2>4, <3>1 DEF Respond, ServerType, GuardType, Listening, Checking
  <2>5. CASE Stats
    <3>1. StatsType'
      BY <2>5, MitigationAssumption DEF Stats, StatsType, SharedType
    <3> QED
      BY <1>1, <1>2, <2>5, <3>1 DEF Stats, ServerType, GuardType, Listening, Checking
  <2>6. ASSUME NEW ip \in IPs, Lookup(ip) PROVE ServerType' /\ GuardType' /\ StatsType'
    BY <1>1, <1>2, <2>6
       DEF Lookup, ServerType, GuardType, StatsType, Listening, BlocklistType, Checking
  <2> QED
    BY <1>4, <2>1, <2>2, <2>3, <2>4, <2>5, <2>6 DEF Server, Serve
<1>8. HistoryType'
  <2>1. /\ right' \subseteq {200, 403}
        /\ listable'.always \subseteq listable'.ever /\ listable'.ever \subseteq IPs
    <3>1. /\ right \subseteq {200, 403} /\ listable.always \subseteq listable.ever
          /\ listable.ever \subseteq IPs /\ Observe
      BY DEF HistoryType, Server
    <3>2. (DOMAIN blocklist)' \subseteq IPs
      BY <1>6 DEF BlocklistType
    <3> QED
      BY <3>1, <3>2, ObservedType
  <2>2. answer' \in {Unanswered, 200, 403}
    BY DEF Server, Serve, JudgeAge, Expire, Answer, ScanShard, Respond, Stats, Lookup, HistoryType
  <2>3. reloaded' \in BOOLEAN
    <3>1. reloaded' = reloaded \/ reloaded' = FALSE
      BY DEF Server, Serve, JudgeAge, Expire, Answer, ScanShard, Respond, Stats, Lookup
    <3> QED
      BY <3>1, Zenon DEF HistoryType
  <2> QED
    BY <1>1, <1>6, <2>1, <2>2, <2>3 DEF HistoryType, verdicts
<1> QED
  BY <1>3, <1>6, <1>7, <1>8

\* Only an expiry touches a block, and it takes one that is not fresh or is noted
\* as raced.
LEMMA ServerKeepsBlocks == MitigationInv /\ Server => BlockInv' /\ TrackInv'
<1> SUFFICES ASSUME MitigationInv, Server PROVE BlockInv' /\ TrackInv'
  OBVIOUS
<1>1. UNCHANGED <<config, reloading, clock>> /\ UNCHANGED verdicts
  BY DEF Server
<1>2. TypeOK /\ BlockInv /\ TrackInv
  BY DEF MitigationInv
<1>3. /\ LatestIsYoungest' /\ \A k \in Keys : (Fresh(k)' <=> Fresh(k))
      /\ \A ip \in IPs : (Pending(ip)' <=> Pending(ip))
  BY <1>1, <1>2 DEF verdicts, TrackInv, LatestIsYoungest, Fresh, Pending
<1>4. CASE Expire
  <2>1. /\ server.at = "expire" /\ server'.at = "answer"
        /\ DOMAIN blocklist' = DOMAIN blocklist \ {server.ip}
        /\ \A i \in DOMAIN blocklist' : blocklist'[i] = blocklist[i]
    BY <1>4, <1>2 DEF Expire, Without, TypeOK, ServerType, Checking
  <2>2. raced' = IF server.ip \in DOMAIN blocklist /\ blocklist[server.ip] # server.stamp
                   THEN raced \union {server.ip} ELSE raced
    BY <1>4 DEF Expire
  <2>3. BlockInv'
    BY <1>1, <1>2, <2>1 DEF BlockInv, Pending, verdicts
  <2>4. ASSUME NEW k \in Keys, Fresh(k), SrcIp(k) = server.ip, server.ip \in DOMAIN blocklist,
               blocklist[server.ip] = server.stamp, ~ Pending(server.ip),
               suspect[latest[server.ip]] # Never
        PROVE  FALSE
    <3>1. suspect[latest[server.ip]] = server.stamp
      BY <1>2, <2>4 DEF BlockInv
    <3>2. suspect[k] <= server.stamp
      BY <1>2, <2>4, <3>1 DEF TrackInv, LatestIsYoungest
    <3>3. PICK c \in Configs : clock - server.stamp >= c.ttl
      BY <1>2, <2>1 DEF TrackInv, ExpiredLookup
    <3>4. clock - suspect[k] < c.ttl
      BY <2>4 DEF Fresh
    <3>5. clock \in Int /\ server.stamp \in Int /\ suspect[k] \in Int /\ c.ttl \in Int
      BY <1>2, MitigationAssumption
         DEF TypeOK, SharedType, ServerType, HistoryType, Never
    <3> QED
      BY <3>2, <3>3, <3>4, <3>5
  <2>5. Tracked'
    <3> SUFFICES ASSUME NEW k \in Keys, Fresh(k)
                 PROVE  \/ SrcIp(k) \in DOMAIN blocklist' \/ Pending(SrcIp(k))
                        \/ suspect[latest[SrcIp(k)]] = Never
                        \/ SrcIp(k) \in raced'
      BY <1>1, <1>3, SrcIpType DEF Tracked, verdicts
    <3>1. \/ SrcIp(k) \in DOMAIN blocklist \/ Pending(SrcIp(k))
          \/ suspect[latest[SrcIp(k)]] = Never
          \/ SrcIp(k) \in raced
      BY <1>2 DEF TrackInv, Tracked
    <3> QED
      BY <2>1, <2>2, <2>4, <3>1
  <2>6. ExpiredLookup'
    BY <2>1 DEF ExpiredLookup
  <2> QED
    BY <1>3, <2>3, <2>5, <2>6 DEF TrackInv
<1>5. CASE ~ Expire
  <2>1. UNCHANGED <<blocklist, raced>>
    BY <1>5 DEF Server, Serve, JudgeAge, Answer, ScanShard, Respond, Stats, Lookup
  <2>2. BlockInv'
    BY <1>1, <1>2, <2>1 DEF BlockInv, Pending, verdicts
  <2>3. Tracked'
    BY <1>1, <1>2, <1>3, <2>1, SrcIpType DEF TrackInv, Tracked, verdicts
  <2>4. ExpiredLookup'
    <3>1. CASE JudgeAge
      <4>1. /\ server.at = "ttl"
            /\ server' = IF clock - server.stamp < config.ttl
                           THEN [server EXCEPT !.at = "answer", !.blocked = TRUE]
                           ELSE [server EXCEPT !.at = "expire"]
        BY <3>1 DEF JudgeAge
      <4>2. /\ config \in Configs /\ config.ttl \in Int /\ clock \in Int /\ server.stamp \in Int
            /\ server \in [at : {"idle", "scan"} \union Checking, ip : IPs \union {NoIp},
                           stamp : 0 .. clock, blocked : BOOLEAN]
        BY <1>2, MitigationAssumption DEF TypeOK, SharedType, ServerType
      <4>3. server'.at = "expire" => server'.stamp = server.stamp /\ clock - server.stamp >= config.ttl
        BY <4>1, <4>2
      <4> QED
        BY <1>1, <4>2, <4>3 DEF ExpiredLookup
    <3>2. CASE ~ JudgeAge
      <4>1. CASE Answer \/ ScanShard \/ Respond \/ Stats
        BY <4>1 DEF Answer, ScanShard, Respond, Stats, Listening, ExpiredLookup
      <4>2. ASSUME NEW ip \in IPs, Lookup(ip) PROVE ExpiredLookup'
        BY <4>2 DEF Lookup, Listening, ExpiredLookup
      <4> QED
        BY <1>5, <3>2, <4>1, <4>2 DEF Server, Serve
    <3> QED
      BY <3>1, <3>2
  <2> QED
    BY <1>3, <2>2, <2>3, <2>4 DEF TrackInv
<1> QED
  BY <1>4, <1>5

LEMMA ServerKeeps == MitigationInv /\ Server => MitigationInv'
BY ServerKeepsType, ServerKeepsBlocks DEF MitigationInv

-----------------------------------------------------------------------------
\* Neither the watcher nor the passing of time touches the blocklist; time only
\* makes verdicts less fresh.
LEMMA OthersKeep == MitigationInv /\ (Watcher \/ Tick) => MitigationInv'
<1> SUFFICES ASSUME MitigationInv, Watcher \/ Tick PROVE MitigationInv'
  OBVIOUS
<1> USE DEF MitigationInv, TypeOK
<1>1. UNCHANGED <<blocklist, server, stats, guard, answer, raced>> /\ UNCHANGED verdicts
  BY DEF Watcher, Tick
<1>2. /\ right' \subseteq {200, 403}
      /\ listable'.always \subseteq listable'.ever /\ listable'.ever \subseteq IPs
  <2>1. /\ right \subseteq {200, 403} /\ listable.always \subseteq listable.ever
        /\ listable.ever \subseteq IPs /\ Observe
    BY DEF HistoryType, Watcher, Tick
  <2>2. (DOMAIN blocklist)' \subseteq IPs
    BY <1>1 DEF BlocklistType
  <2> QED
    BY <2>1, <2>2, ObservedType
<1>3. reloaded' \in BOOLEAN /\ SharedType'
  <2>1. reloaded' \in BOOLEAN
    <3>1. reloaded' = (server.at \in Checking) \/ reloaded' = reloaded
      BY DEF Watcher, Reload, Release, Tick
    <3>2. CASE server.at \in Checking
      BY <3>1, <3>2, Zenon DEF HistoryType
    <3>3. CASE server.at \notin Checking
      <4>1. (server.at \in Checking) = FALSE
        BY <3>3
      <4> QED
        BY <3>1, <4>1, Zenon DEF HistoryType
    <3> QED
      BY <3>2, <3>3
  <2>2. reloading' \in BOOLEAN
    BY Zenon DEF Watcher, Reload, Release, Tick, SharedType
  <2>3. clock' \in 0 .. MaxTime /\ config' \in Configs /\ alerts' = alerts
    BY <1>1, MitigationAssumption DEF Watcher, Reload, Release, Tick, SharedType, verdicts
  <2> QED
    BY <2>1, <2>2, <2>3 DEF SharedType
<1>4. clock \in Nat /\ clock' \in Nat /\ clock <= clock'
  BY MitigationAssumption DEF Watcher, Tick, Reload, Release, SharedType
<1>5. BlocklistType' /\ BlockInv' /\ GuardType' /\ StatsType'
  BY <1>1, <1>4 DEF BlocklistType, BlockInv, Pending, GuardType, StatsType, verdicts
<1>6. InferenceType' /\ ServerType'
  BY <1>1, <1>4 DEF InferenceType, ServerType, verdicts
<1>7. HistoryType'
  <2>1. suspect' \in [Keys -> Never .. clock']
    BY <1>1, <1>4 DEF HistoryType, Never, verdicts
  <2> QED
    BY <1>1, <1>2, <1>3, <2>1 DEF HistoryType, verdicts
<1>8. TrackInv'
  <2>1. \A k \in Keys : suspect[k] \in Int
    BY <1>4 DEF HistoryType, Never
  <2>2. \A c \in Configs : c.ttl \in Int
    BY MitigationAssumption
  <2>3. server.stamp \in Int
    BY <1>4 DEF ServerType
  <2>4. UNCHANGED <<suspect, latest, inference>>
    BY <1>1 DEF verdicts
  <2>5. \A k \in Keys : Fresh(k)' => Fresh(k)
    BY <1>4, <2>1, <2>2, <2>4 DEF Fresh
  <2>6. LatestIsYoungest'
    BY <2>4 DEF TrackInv, LatestIsYoungest
  <2>7. Tracked'
    BY <1>1, <2>4, <2>5 DEF TrackInv, Tracked, Pending
  <2>8. ExpiredLookup'
    BY <1>1, <1>4, <2>2, <2>3 DEF TrackInv, ExpiredLookup
  <2> QED
    BY <2>6, <2>7, <2>8 DEF TrackInv
<1> QED
  BY <1>3, <1>5, <1>6, <1>7, <1>8

\* A step that changes nothing keeps the invariant.
LEMMA StutterKeepsBlocks == MitigationInv /\ UNCHANGED vars => MitigationInv'
BY DEF MitigationInv, BlockInv, Pending, TrackInv, LatestIsYoungest, Tracked, Fresh, ExpiredLookup,
       TypeOK, BlocklistType, SharedType, InferenceType, ServerType, StatsType, GuardType,
       HistoryType, vars, verdicts, request

\* For any flows, shards, configurations and bounds: between verdicts, every
\* entry of the blocklist stems from the latest verdict on its address, which
\* was anomalous, and bears its time, whatever requests, reloads and expiries
\* interleave with the inference thread (main.rs, nginx.rs).
THEOREM BlocklistInvariant == Spec => [](TypeOK /\ BlocksFollowVerdicts)
<1>1. Init => MitigationInv
  BY InitBlocks
<1>2. MitigationInv /\ [Next]_vars => MitigationInv'
  BY InferenceKeeps, ServerKeeps, OthersKeep, StutterKeepsBlocks DEF Next
<1>3. MitigationInv => TypeOK /\ BlocksFollowVerdicts
  BY DEF MitigationInv, TypeOK, BlocklistType, HistoryType, BlockInv, BlocksFollowVerdicts, Pending, SrcIp
<1> QED
  BY <1>1, <1>2, <1>3, PTL DEF Spec

\* For any flows, shards and configurations: the address of a flow judged
\* anomalous within every TTL is blocked, but for the two exceptions that
\* SuspectsTracked names (main.rs:541, nginx.rs:84).
THEOREM SuspectsInvariant == Spec => []SuspectsTracked
<1>1. Init => MitigationInv
  BY InitBlocks
<1>2. MitigationInv /\ [Next]_vars => MitigationInv'
  BY InferenceKeeps, ServerKeeps, OthersKeep, StutterKeepsBlocks DEF Next
<1>3. MitigationInv => SuspectsTracked
  BY DEF MitigationInv, TrackInv, Tracked, SuspectsTracked, Pending
<1> QED
  BY <1>1, <1>2, <1>3, PTL DEF Spec

-----------------------------------------------------------------------------
(* What the web server answers.                                            *)

\* An entry that is looked at cannot change.  What is decided was right when it
\* was decided, and stays what is answered unless the mode is replaced.
CheckInv ==
  /\ server.at = "ttl" =>
       server.ip \in DOMAIN blocklist /\ blocklist[server.ip] = server.stamp
  /\ server.at = "expire" => 200 \in right
  /\ server.at = "answer" /\ ~ server.blocked => 200 \in right
  /\ server.at = "answer" /\ server.blocked /\ ~ reloaded =>
       (IF config.mode = "mitigate" THEN 403 ELSE 200) \in right

\* The shards a listing has visited are listed as far as they were blocked all
\* the time, and what is listed was blocked at some time.
ListInv ==
  server.at = "scan" =>
    /\ listable.always \subseteq DOMAIN blocklist /\ DOMAIN blocklist \subseteq listable.ever
    /\ \A ip \in listable.always : Shard[ip] < stats.next => ip \in DOMAIN stats.listed
    /\ DOMAIN stats.listed \subseteq listable.ever

RequestInv == MitigationInv /\ CheckInv /\ ListInv

LEMMA InitRequests == Init => RequestInv
BY InitBlocks DEF Init, RequestInv, CheckInv, ListInv, Listening

\* The right answer does not depend on the steps of other threads but through
\* the entry, the time and the configuration.
LEMMA CheckKeeps == RequestInv /\ Next => CheckInv'
<1> SUFFICES ASSUME RequestInv, Next PROVE CheckInv'
  OBVIOUS
<1>1. CheckInv /\ BlocklistType /\ SharedType /\ ServerType /\ GuardType /\ InferenceType
  BY DEF RequestInv, MitigationInv, TypeOK
<1>2. ObserveCheck
  BY DEF Next, Inference, Server, Watcher, Tick, Observe
<1>3. ASSUME UNCHANGED server,
             UNCHANGED <<config, reloaded>> \/ (server.at \in Checking => reloaded'),
             server.at = "ttl" => server.ip \in DOMAIN blocklist' /\ blocklist'[server.ip] = server.stamp
      PROVE  CheckInv'
  <2>1. server.at \in {"expire", "answer"} => right' = right
    BY <1>2, <1>3 DEF ObserveCheck, Checking
  <2> QED
    BY <1>1, <1>3, <2>1 DEF CheckInv, Checking
<1>4. CASE Inference
  <2>1. UNCHANGED <<server, config, reloaded>>
    BY <1>4 DEF Inference
  <2>2. ASSUME server.at = "ttl"
        PROVE  server.ip \in DOMAIN blocklist' /\ blocklist'[server.ip] = server.stamp
    <3>1. server.ip \in DOMAIN blocklist /\ blocklist[server.ip] = server.stamp
          /\ guard = {Shard[server.ip]}
      BY <1>1, <2>2 DEF CheckInv, GuardType
    <3>2. CASE Insert
      <4>1. inference.ip # server.ip /\ blocklist' = With(inference.ip, inference.stamp)
        BY <3>1, <3>2 DEF Insert, Writable
      <4> QED
        BY <3>1, <4>1 DEF With
    <3>3. CASE Unblock
      <4>1. inference.ip # server.ip /\ blocklist' = Without(inference.ip)
        BY <3>1, <3>3 DEF Unblock, Writable
      <4> QED
        BY <3>1, <4>1 DEF Without
    <3>4. ASSUME NEW k \in Keys, Anomaly(k) \/ Normal(k) PROVE UNCHANGED blocklist
      BY <3>4 DEF Anomaly, Normal
    <3> QED
      BY <1>4, <3>1, <3>2, <3>3, <3>4 DEF Inference, Apply
  <2> QED
    BY <1>3, <2>1, <2>2
<1>5. CASE Watcher
  <2>1. UNCHANGED <<server, blocklist>>
    BY <1>5 DEF Watcher
  <2>2. UNCHANGED <<config, reloaded>> \/ (server.at \in Checking => reloaded')
    BY <1>5 DEF Watcher, Reload, Release
  <2> QED
    BY <1>1, <1>3, <2>1, <2>2 DEF CheckInv
<1>6. CASE Tick
  <2>1. UNCHANGED <<server, blocklist, config, reloaded>>
    BY <1>6 DEF Tick
  <2> QED
    BY <1>1, <1>3, <2>1 DEF CheckInv
<1>7. CASE Server
  <2>1. UNCHANGED <<config, clock>>
    BY <1>7 DEF Server
  <2>2. CASE Stats \/ Answer \/ Respond \/ ScanShard
    <3>1. server'.at \in {"idle", "scan"}
      BY <2>2 DEF Stats, Answer, Respond, ScanShard, Listening
    <3> QED
      BY <3>1 DEF CheckInv
  <2>3. CASE Expire
    <3>1. server'.at = "answer" /\ server'.blocked = server.blocked /\ server.at = "expire"
      BY <1>1, <2>3 DEF Expire, ServerType
    <3>2. right' = right
      BY <1>2, <3>1 DEF ObserveCheck, Checking
    <3>3. ~ server.blocked
      BY <1>1, <3>1 DEF ServerType
    <3> QED
      BY <1>1, <3>1, <3>2, <3>3 DEF CheckInv
  <2>4. CASE JudgeAge
    <3>1. /\ server.at = "ttl" /\ server'.at \in {"answer", "expire"} /\ UNCHANGED blocklist
          /\ server'.ip = server.ip
          /\ server'.at = "answer" => server'.blocked /\ clock - server.stamp < config.ttl
          /\ server'.at = "expire" => ~ (clock - server.stamp < config.ttl)
      BY <1>1, <2>4 DEF JudgeAge, ServerType
    <3>2. server.ip \in DOMAIN blocklist /\ blocklist[server.ip] = server.stamp
      BY <1>1, <3>1 DEF CheckInv
    <3>3. RightNow' \in right'
      BY <1>2, <3>1 DEF ObserveCheck, Checking
    <3>4. RightNow' = IF clock - server.stamp < config.ttl /\ config.mode = "mitigate"
                        THEN 403 ELSE 200
      BY <2>1, <3>1, <3>2 DEF RightNow, RightAnswer
    <3> QED
      BY <2>1, <3>1, <3>3, <3>4 DEF CheckInv
  <2>5. ASSUME NEW ip \in IPs, Lookup(ip) PROVE CheckInv'
    <3>1. /\ server.at = "idle" /\ UNCHANGED blocklist
          /\ server' = IF ip \in DOMAIN blocklist
                         THEN [Listening EXCEPT !.at = "ttl", !.ip = ip, !.stamp = blocklist[ip]]
                         ELSE [Listening EXCEPT !.at = "answer", !.ip = ip]
      BY <2>5 DEF Lookup
    <3>2. CASE ip \in DOMAIN blocklist
      BY <3>1, <3>2 DEF CheckInv, Listening
    <3>3. CASE ip \notin DOMAIN blocklist
      <4>1. server'.at = "answer" /\ server'.ip = ip /\ ~ server'.blocked
        BY <3>1, <3>3 DEF Listening
      <4>2. RightNow' = 200
        BY <3>1, <3>3, <4>1 DEF RightNow, RightAnswer
      <4>3. RightNow' \in right'
        BY <1>2, <3>1, <4>1 DEF ObserveCheck, Checking
      <4> QED
        BY <4>1, <4>2, <4>3 DEF CheckInv
    <3> QED
      BY <3>2, <3>3
  <2> QED
    BY <1>7, <2>2, <2>3, <2>4, <2>5 DEF Server, Serve
<1> QED
  BY <1>4, <1>5, <1>6, <1>7 DEF Next

LEMMA ListKeeps == RequestInv /\ Next => ListInv'
<1> SUFFICES ASSUME RequestInv, Next, server'.at = "scan" PROVE ListInv'
  BY DEF ListInv
<1>1. ListInv /\ StatsType /\ ServerType /\ HistoryType
  BY DEF RequestInv, MitigationInv, TypeOK
<1>2. ObserveListing
  BY DEF Next, Inference, Server, Watcher, Tick, Observe
<1>3. CASE server.at # "scan"
  <2>1. Stats
    <3>1. CASE Inference \/ Watcher \/ Tick
      BY <1>3, <3>1 DEF Inference, Watcher, Tick
    <3>2. CASE JudgeAge \/ Expire
      BY <1>1, <3>2 DEF JudgeAge, Expire, ServerType
    <3>3. CASE Answer \/ ScanShard \/ Respond
      BY <1>3, <3>3 DEF Answer, ScanShard, Respond, Listening
    <3>4. ASSUME NEW ip \in IPs, Lookup(ip) PROVE FALSE
      BY <3>4 DEF Lookup, Listening
    <3> QED
      BY <3>1, <3>2, <3>3, <3>4 DEF Next, Server, Serve
  <2>2. /\ DOMAIN stats'.listed = {} /\ stats'.next = 1
    BY <2>1 DEF Stats
  <2>3. listable'.ever = DOMAIN blocklist' /\ listable'.always = DOMAIN blocklist'
    BY <1>2, <1>3 DEF ObserveListing
  <2>4. \A ip \in DOMAIN blocklist' : ~ (Shard[ip] < 1)
    <3>1. TypeOK'
      BY InferenceKeeps, ServerKeeps, OthersKeep DEF Next, RequestInv, MitigationInv
    <3>2. DOMAIN blocklist' \subseteq IPs
      BY <3>1 DEF TypeOK, BlocklistType
    <3> QED
      BY <3>2, MitigationAssumption
  <2> QED
    BY <2>2, <2>3, <2>4 DEF ListInv
<1>4. CASE server.at = "scan"
  <2>1. /\ listable'.ever = listable.ever \union DOMAIN blocklist'
        /\ listable'.always = listable.always \intersect DOMAIN blocklist'
    BY <1>2, <1>4 DEF ObserveListing
  <2>2. CASE UNCHANGED stats
    BY <1>1, <1>4, <2>1, <2>2 DEF ListInv
  <2>3. CASE ~ UNCHANGED stats
    <3>1. ScanShard
      BY <1>4, <2>3 DEF Next, Inference, Watcher, Tick, Server, Serve, JudgeAge, Expire, Answer,
                        Stats, Respond, Lookup, Listening
    <3> DEFINE more == InShard(stats.next)
    <3>2. /\ stats'.listed = Listed(more) /\ stats'.next = stats.next + 1 /\ UNCHANGED blocklist
      BY <3>1 DEF ScanShard, Extended
    <3>3. DOMAIN stats'.listed = DOMAIN stats.listed \union more
      BY <3>2 DEF Listed
    <3>4. more = {ip \in DOMAIN blocklist : Shard[ip] = stats.next}
      BY DEF InShard
    <3>5. \A ip \in listable.always : Shard[ip] \in Int /\ stats.next \in Int
      BY <1>1, MitigationAssumption DEF HistoryType, StatsType
    <3> HIDE DEF more
    <3>6. \A ip \in listable'.always : Shard[ip] < stats'.next => ip \in DOMAIN stats'.listed
      <4> SUFFICES ASSUME NEW ip \in listable.always, ip \in DOMAIN blocklist,
                          Shard[ip] < stats.next + 1
                   PROVE  ip \in DOMAIN stats.listed \union more
        BY <2>1, <3>2, <3>3
      <4>1. Shard[ip] < stats.next \/ Shard[ip] = stats.next
        BY <3>5
      <4> QED
        BY <1>1, <1>4, <3>4, <4>1 DEF ListInv
    <3> QED
      BY <1>1, <1>4, <2>1, <3>2, <3>3, <3>4, <3>6 DEF ListInv
  <2> QED
    BY <2>2, <2>3
<1> QED
  BY <1>3, <1>4

LEMMA RequestsKeep == RequestInv /\ [Next]_vars => RequestInv'
<1>1. RequestInv /\ Next => RequestInv'
  BY InferenceKeeps, ServerKeeps, OthersKeep, CheckKeeps, ListKeeps DEF Next, RequestInv
<1>2. RequestInv /\ UNCHANGED vars => RequestInv'
  <2> SUFFICES ASSUME RequestInv, UNCHANGED vars PROVE RequestInv'
    OBVIOUS
  <2>1. MitigationInv'
    BY StutterKeepsBlocks DEF RequestInv
  <2>2. CheckInv' /\ ListInv'
    BY DEF RequestInv, CheckInv, ListInv, vars, request
  <2> QED
    BY <2>1, <2>2 DEF RequestInv
<1> QED
  BY <1>1, <1>2

\* For any flows, shards and configurations: a /check is answered as was right at
\* some moment between its lookup and its decision, unless the configuration was
\* replaced during the request (nginx.rs:73-136).
THEOREM AnswersRight == Spec => AnswersRightUnlessReloaded
<1>1. RequestInv /\ [Next]_vars =>
        [server.at = "answer" /\ server'.at = "idle" => reloaded \/ answer' \in right]_vars
  <2> SUFFICES ASSUME RequestInv, Next, server.at = "answer", server'.at = "idle", ~ reloaded
               PROVE  answer' \in right
    OBVIOUS
  <2>1. Answer
    BY DEF Next, Inference, Watcher, Tick, Server, Serve, JudgeAge, Expire, Stats, ScanShard,
           Respond, Lookup
  <2> QED
    BY <2>1 DEF Answer, RequestInv, CheckInv
<1> QED
  BY <1>1, InitRequests, RequestsKeep, PTL DEF Spec, AnswersRightUnlessReloaded

\* For any shards and any verdicts and expiries during the iteration: /api/stats
\* shows what is blocked throughout and nothing that never was (nginx.rs:151-162).
THEOREM ListingsAreSnapshots == Spec => ListingIsSnapshot
<1>1. RequestInv /\ [Next]_vars =>
        [server.at = "scan" /\ server'.at = "idle" =>
           /\ listable.always \subseteq DOMAIN stats.listed
           /\ DOMAIN stats.listed \subseteq listable.ever]_vars
  <2> SUFFICES ASSUME RequestInv, Next, server.at = "scan", server'.at = "idle"
               PROVE  /\ listable.always \subseteq DOMAIN stats.listed
                      /\ DOMAIN stats.listed \subseteq listable.ever
    OBVIOUS
  <2>1. Respond
    BY DEF Next, Inference, Watcher, Tick, Server, Serve, JudgeAge, Expire, Stats, ScanShard,
           Answer, Lookup
  <2>2. \A ip \in listable.always : Shard[ip] < stats.next
    <3>1. stats.next > Shards /\ stats.next \in Nat /\ listable.always \subseteq IPs
      BY <2>1 DEF Respond, RequestInv, MitigationInv, TypeOK, StatsType, HistoryType
    <3> QED
      BY <3>1, MitigationAssumption
  <2> QED
    BY <2>2 DEF RequestInv, ListInv
<1> QED
  BY <1>1, InitRequests, RequestsKeep, PTL DEF Spec, ListingIsSnapshot
=============================================================================
