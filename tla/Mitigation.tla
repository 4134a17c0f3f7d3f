---------------------------- MODULE Mitigation -----------------------------
(***************************************************************************)
(* The blocklist between the detector and the web server: the verdicts of  *)
(* the inference thread (src/main.rs) insert and remove addresses; of the  *)
(* web server's one thread (src/mitigation/nginx.rs), `/check` reads them, *)
(* expires them and answers, and `/api/stats` lists them; the configuration*)
(* watcher replaces TTL and mode.                                          *)
(*                                                                         *)
(* The blocklist is a DashMap: a reference returned by `get` holds the     *)
(* read lock of its shard, `insert` and `remove` need its write lock, and  *)
(* an iteration holds the read lock of one shard after the other.          *)
(* MaxAlerts bounds the anomalous verdicts, MaxTime the clock.             *)
(***************************************************************************)
EXTENDS FlowKey, Integers

CONSTANTS Keys,      \* the flows the detector judges
          Shards,    \* how many shards the DashMap has,
          Shard,     \*   and the shard of each address
          Configs,   \* what config.toml may say: [ttl, mode]
          MaxAlerts,
          MaxTime

\* metrics.src_ip: compute_metrics reports a flow under its key's ip_min.
SrcIp(k) == k.ip_min

IPs == {SrcIp(k) : k \in Keys}

ASSUME MitigationAssumption ==
  /\ Keys \subseteq Key
  /\ Shards \in Nat /\ IPs \subseteq DOMAIN Shard
  /\ \A ip \in IPs : Shard[ip] \in 1 .. Shards
  /\ Configs \subseteq [ttl : Nat, mode : {"monitor", "mitigate"}] /\ Configs # {}
  /\ MaxAlerts \in Nat /\ MaxTime \in Nat

VARIABLES blocklist,   \* address -> Instant of its block
          config,      \* shared_config
          reloading,   \* the watcher holds the write lock of shared_config
          clock,
          alerts,      \* alerts sent to the logger's channel
          inference,   \* where the inference thread is, and its locals
          server,      \* where the web server is, and the locals of /check
          stats,       \* the locals of /api/stats
          guard,       \* the shards whose read lock /check holds
          answer,      \* the status code of the last answer, if it is out
          suspect,     \* history: per flow, when its latest verdict came if that
                       \*   was anomalous,
          latest,      \*   per address, the flow of the latest verdict,
          raced,       \*   addresses whose new block went with an expired one,
          right,       \*   answers that were right up to the request's decision,
          reloaded,    \*   whether the configuration changed during it,
          listable     \*   addresses blocked ever, and always, during a listing

verdicts == <<inference, alerts, suspect, latest>>
request == <<server, stats, guard, answer, raced, right, reloaded, listable>>
vars == <<blocklist, config, reloading, clock, verdicts, request>>

Without(ip) == [i \in DOMAIN blocklist \ {ip} |-> blocklist[i]]

With(ip, t) == [i \in DOMAIN blocklist \union {ip} |-> IF i = ip THEN t ELSE blocklist[i]]

NoIp == -1

Never == -1

Unanswered == 0

Judging == [at |-> "idle", ip |-> NoIp, stamp |-> 0]

Listening == [at |-> "idle", ip |-> NoIp, stamp |-> 0, blocked |-> FALSE]

NoListing == [ttl |-> 0, next |-> 1, listed |-> << >>]

Nobody == [ever |-> {}, always |-> {}]

Writable(ip) == Shard[ip] \notin guard

Init ==
  /\ blocklist = << >>
  /\ config \in Configs /\ reloading = FALSE
  /\ clock = 0 /\ alerts = 0
  /\ inference = Judging /\ server = Listening /\ stats = NoListing
  /\ guard = {} /\ answer = Unanswered
  /\ suspect = [k \in Keys |-> Never]
  /\ latest = [ip \in IPs |-> CHOOSE k \in Keys : SrcIp(k) = ip]
  /\ raced = {} /\ right = {} /\ reloaded = FALSE /\ listable = Nobody

\* The answer that is right for an address now: "403 Forbidden (if blocked
\* under mitigation mode)", where a block lasts block_list_ttl.
RightAnswer(ip) ==
  IF ip \in DOMAIN blocklist /\ clock - blocklist[ip] < config.ttl /\ config.mode = "mitigate"
    THEN 403 ELSE 200

RightNow == RightAnswer(server.ip)

Checking == {"ttl", "expire", "answer"}

\* Up to the decision on the entry (which is made with the lookup when there is
\* none), every step adds the answer that is right after it.
ObserveCheck ==
  right' = CASE server'.at \notin Checking -> {}
             [] server'.at \in Checking /\ server.at = "idle" -> {RightNow'}
             [] server'.at \in Checking /\ server.at = "ttl" -> right \union {RightNow'}
             [] OTHER -> right

\* Every step of a listing tells which addresses are blocked.
ObserveListing ==
  LET blocked == DOMAIN blocklist'
  IN listable' = CASE server'.at # "scan" -> Nobody
                   [] server'.at = "scan" /\ server.at # "scan" ->
                        [ever |-> blocked, always |-> blocked]
                   [] OTHER -> [ever |-> listable.ever \union blocked,
                                always |-> listable.always \intersect blocked]

Observe == ObserveCheck /\ ObserveListing

-----------------------------------------------------------------------------
(* The inference thread.                                                   *)

\* An anomalous verdict: Instant::now() is taken before the shard is locked.
Anomaly(k) ==
  /\ inference.at = "idle" /\ alerts < MaxAlerts
  /\ inference' = [at |-> "insert", ip |-> SrcIp(k), stamp |-> clock]
  /\ suspect' = [suspect EXCEPT ![k] = clock]
  /\ latest' = [latest EXCEPT ![SrcIp(k)] = k]
  /\ UNCHANGED <<blocklist, alerts, raced>>

\* Mutant of Insert: entry().or_insert, so that the first block counts.
InsertOnce ==
  /\ inference.at = "insert" /\ Writable(inference.ip)
  /\ blocklist' = IF inference.ip \in DOMAIN blocklist THEN blocklist
                   ELSE With(inference.ip, inference.stamp)
  /\ alerts' = alerts + 1
  /\ inference' = Judging
  /\ raced' = raced \ {inference.ip}
  /\ UNCHANGED <<suspect, latest>>

\* The insertion overwrites an older block; then the alert is sent.
Insert ==
  /\ inference.at = "insert" /\ Writable(inference.ip)
  /\ blocklist' = With(inference.ip, inference.stamp)
  /\ alerts' = alerts + 1
  /\ inference' = Judging
  /\ raced' = raced \ {inference.ip}
  /\ UNCHANGED <<suspect, latest>>

\* Mutant of Normal: a block is only lifted by its TTL.
NormalIgnored(k) ==
  /\ inference.at = "idle"
  /\ suspect' = [suspect EXCEPT ![k] = Never]
  /\ latest' = [latest EXCEPT ![SrcIp(k)] = k]
  /\ UNCHANGED <<inference, blocklist, alerts, raced>>

\* A normal verdict: contains_key, and only then remove.
Normal(k) ==
  /\ inference.at = "idle"
  /\ inference' = IF SrcIp(k) \in DOMAIN blocklist
                    THEN [at |-> "remove", ip |-> SrcIp(k), stamp |-> 0] ELSE inference
  /\ suspect' = [suspect EXCEPT ![k] = Never]
  /\ latest' = [latest EXCEPT ![SrcIp(k)] = k]
  /\ UNCHANGED <<blocklist, alerts, raced>>

Unblock ==
  /\ inference.at = "remove" /\ Writable(inference.ip)
  /\ blocklist' = Without(inference.ip)
  /\ inference' = Judging
  /\ UNCHANGED <<alerts, suspect, latest, raced>>

Apply == Insert \/ Unblock

Inference ==
  /\ Apply \/ \E k \in Keys : Anomaly(k) \/ Normal(k)
  /\ UNCHANGED <<config, reloading, clock, server, stats, guard, answer, reloaded>>
  /\ Observe

-----------------------------------------------------------------------------
(* GET /check                                                              *)

\* Mutant of Lookup: the Instant is copied and the reference dropped at once.
LookupCopies(ip) ==
  /\ server.at = "idle"
  /\ server' = IF ip \in DOMAIN blocklist
                 THEN [Listening EXCEPT !.at = "ttl", !.ip = ip, !.stamp = blocklist[ip]]
                 ELSE [Listening EXCEPT !.at = "answer", !.ip = ip]
  /\ reloaded' = FALSE
  /\ answer' = Unanswered
  /\ UNCHANGED <<blocklist, guard, stats, raced>>

\* blocklist.get: a hit keeps the shard read-locked.
Lookup(ip) ==
  /\ server.at = "idle"
  /\ server' = IF ip \in DOMAIN blocklist
                 THEN [Listening EXCEPT !.at = "ttl", !.ip = ip, !.stamp = blocklist[ip]]
                 ELSE [Listening EXCEPT !.at = "answer", !.ip = ip]
  /\ guard' = IF ip \in DOMAIN blocklist THEN {Shard[ip]} ELSE {}
  /\ reloaded' = FALSE
  /\ answer' = Unanswered
  /\ UNCHANGED <<blocklist, stats, raced>>

\* Mutant of JudgeAge: the expired reference is still held by the removal.
JudgeAgeHolding ==
  /\ server.at = "ttl" /\ ~ reloading
  /\ IF clock - server.stamp < config.ttl
       THEN server' = [server EXCEPT !.at = "answer", !.blocked = TRUE] /\ guard' = {}
       ELSE server' = [server EXCEPT !.at = "expire"] /\ UNCHANGED guard
  /\ UNCHANGED <<blocklist, answer, stats, raced, reloaded>>

\* The TTL is read under the reference, which is dropped after the comparison.
JudgeAge ==
  /\ server.at = "ttl" /\ ~ reloading
  /\ server' = IF clock - server.stamp < config.ttl
                 THEN [server EXCEPT !.at = "answer", !.blocked = TRUE]
                 ELSE [server EXCEPT !.at = "expire"]
  /\ guard' = {}
  /\ UNCHANGED <<blocklist, answer, stats, raced, reloaded>>

\* blocklist.remove, whatever the entry is by now.
Expire ==
  /\ server.at = "expire" /\ Writable(server.ip)
  /\ blocklist' = Without(server.ip)
  /\ server' = [server EXCEPT !.at = "answer"]
  /\ raced' = IF server.ip \in DOMAIN blocklist /\ blocklist[server.ip] # server.stamp
                THEN raced \union {server.ip} ELSE raced
  /\ UNCHANGED <<guard, answer, stats, reloaded>>

\* The mode is read again from the configuration.
Answer ==
  /\ server.at = "answer" /\ ~ reloading
  /\ answer' = IF server.blocked /\ config.mode = "mitigate" THEN 403 ELSE 200
  /\ server' = Listening
  /\ reloaded' = FALSE
  /\ UNCHANGED <<blocklist, guard, stats, raced>>

-----------------------------------------------------------------------------
(* GET /api/stats                                                          *)

\* Mode and TTL are read once, for the whole listing.
Stats ==
  /\ server.at = "idle" /\ ~ reloading
  /\ server' = [Listening EXCEPT !.at = "scan"]
  /\ stats' = [ttl |-> config.ttl, next |-> 1, listed |-> << >>]
  /\ answer' = Unanswered
  /\ UNCHANGED <<blocklist, guard, raced, reloaded>>

\* ttl.saturating_sub(elapsed)
Remaining(ip) ==
  LET elapsed == clock - blocklist[ip]
  IN IF stats.ttl > elapsed THEN stats.ttl - elapsed ELSE 0

InShard(i) == {ip \in DOMAIN blocklist : Shard[ip] = i}

Listed(more) ==
  [ip \in DOMAIN stats.listed \union more |->
     IF ip \in DOMAIN stats.listed THEN stats.listed[ip] ELSE Remaining(ip)]

Extended(more) == [ttl |-> stats.ttl, next |-> stats.next + 1, listed |-> Listed(more)]

\* Mutant of ScanShard: expired blocks are not shown.
ScanLive ==
  /\ server.at = "scan" /\ stats.next <= Shards
  /\ stats' = Extended({ip \in InShard(stats.next) : Remaining(ip) > 0})
  /\ UNCHANGED <<blocklist, guard, answer, server, raced, reloaded>>

\* The iteration visits one shard after the other; what it visits cannot change
\* while its read lock is held, and the step is not split further.
ScanShard ==
  /\ server.at = "scan" /\ stats.next <= Shards
  /\ stats' = Extended(InShard(stats.next))
  /\ UNCHANGED <<blocklist, guard, answer, server, raced, reloaded>>

Respond ==
  /\ server.at = "scan" /\ stats.next > Shards
  /\ server' = Listening
  /\ stats' = NoListing
  /\ answer' = 200
  /\ reloaded' = FALSE
  /\ UNCHANGED <<blocklist, guard, raced>>

Serve == JudgeAge \/ Expire \/ Answer \/ ScanShard \/ Respond

Server ==
  /\ Serve \/ Stats \/ \E ip \in IPs : Lookup(ip)
  /\ UNCHANGED <<config, reloading, clock, verdicts>>
  /\ Observe

-----------------------------------------------------------------------------
\* The watcher replaces the whole configuration under the write lock.
Reload ==
  /\ ~ reloading
  /\ config' \in Configs
  /\ reloading' = TRUE
  /\ reloaded' = (server.at \in Checking)

\* It releases the lock after printing.
Release ==
  /\ reloading
  /\ reloading' = FALSE
  /\ UNCHANGED <<config, reloaded>>

Watcher ==
  /\ Reload \/ Release
  /\ UNCHANGED <<blocklist, clock, verdicts, server, stats, guard, answer, raced>>
  /\ Observe

Tick ==
  /\ clock < MaxTime
  /\ clock' = clock + 1
  /\ UNCHANGED <<blocklist, config, reloading, verdicts>>
  /\ UNCHANGED <<server, stats, guard, answer, raced, reloaded>>
  /\ Observe

Next == Inference \/ Server \/ Watcher \/ Tick

\* Threads run, and the locks let a waiting thread in: DashMap and RwLock wake
\* whoever waits when they are released.  Nobody has to send a request.
Fairness ==
  /\ SF_vars(Inference /\ Apply)
  /\ SF_vars(Server /\ Serve)
  /\ WF_vars(Watcher /\ Release)

Spec == Init /\ [][Next]_vars /\ Fairness

-----------------------------------------------------------------------------
BlocklistType ==
  DOMAIN blocklist \subseteq IPs /\ \A ip \in DOMAIN blocklist : blocklist[ip] \in 0 .. clock

SharedType ==
  /\ config \in Configs /\ reloading \in BOOLEAN
  /\ clock \in 0 .. MaxTime /\ alerts \in 0 .. MaxAlerts

InferenceType ==
  /\ inference \in [at : {"idle", "insert", "remove"}, ip : IPs \union {NoIp}, stamp : 0 .. clock]
  /\ inference.at # "idle" => inference.ip \in IPs

ServerType ==
  /\ server \in [at : {"idle", "scan"} \union Checking, ip : IPs \union {NoIp},
                 stamp : 0 .. clock, blocked : BOOLEAN]
  /\ server.at \in Checking => server.ip \in IPs
  /\ server.blocked => server.at = "answer"

\* A listing shows blocks of the shards it has visited.
StatsType ==
  /\ stats.ttl \in {0} \union {c.ttl : c \in Configs}
  /\ stats.next \in 1 .. Shards + 1
  /\ DOMAIN stats.listed \subseteq {ip \in IPs : Shard[ip] < stats.next}
  /\ \A ip \in DOMAIN stats.listed : stats.listed[ip] \in 0 .. stats.ttl

GuardType == guard = IF server.at = "ttl" THEN {Shard[server.ip]} ELSE {}

HistoryType ==
  /\ answer \in {Unanswered, 200, 403} /\ right \subseteq {200, 403} /\ reloaded \in BOOLEAN
  /\ suspect \in [Keys -> Never .. clock]
  /\ latest \in [IPs -> Keys] /\ \A ip \in IPs : SrcIp(latest[ip]) = ip
  /\ raced \subseteq IPs
  /\ listable.always \subseteq listable.ever /\ listable.ever \subseteq IPs

\* The handler holds a shard exactly while it compares the age of an entry.
TypeOK ==
  /\ BlocklistType /\ SharedType /\ InferenceType
  /\ ServerType /\ StatsType /\ GuardType /\ HistoryType

\* Between verdicts an address is blocked only on account of a flow of which it
\* is the smaller endpoint, whose latest verdict is anomalous and is the latest
\* of all flows of the address, and since that verdict: an unblock is never
\* undone by an insertion that comes late, and no request revives or ages one.
BlocksFollowVerdicts ==
  inference.at = "idle" =>
    \A ip \in DOMAIN blocklist :
      latest[ip].ip_min = ip /\ blocklist[ip] = suspect[latest[ip]]

\* A verdict younger than any TTL that is ever configured.
Fresh(k) == suspect[k] # Never /\ \A c \in Configs : clock - suspect[k] < c.ttl

\* A flow judged anomalous a moment ago has its address blocked, with two
\* exceptions only: the latest verdict on the address is a normal one, of
\* another flow (main.rs:541), or the block went with an expired one that a
\* /check removed late (nginx.rs:84).
SuspectsTracked ==
  inference.at = "idle" =>
    \A k \in Keys : Fresh(k) =>
      \/ SrcIp(k) \in DOMAIN blocklist
      \/ suspect[latest[SrcIp(k)]] = Never
      \/ SrcIp(k) \in raced

\* "Always track anomalous IPs in the blocklist map" (main.rs:534): an address
\* whose latest verdict is anomalous and fresh is in the blocklist.
FreshBlocksTracked ==
  inference.at = "idle" =>
    \A ip \in IPs : Fresh(latest[ip]) => ip \in DOMAIN blocklist

\* /api/stats goes from shard to shard while blocks come and go, yet it shows
\* every address that stays blocked throughout, expired or not, and none that
\* was not blocked at some moment of the listing.
ListingIsSnapshot ==
  [][server.at = "scan" /\ server'.at = "idle" =>
       /\ listable.always \subseteq DOMAIN stats.listed
       /\ DOMAIN stats.listed \subseteq listable.ever]_vars

\* "Returns 200 OK (if allowed) or 403 Forbidden (if blocked under mitigation
\* mode)" (README.md:101): an answer was right at some moment between the
\* lookup and the response, however verdicts and the clock interleave with it,
\* unless the configuration was replaced meanwhile (TTL and mode are read
\* apart, so the answer may then mix the old one with the new).
AnswersRightUnlessReloaded ==
  [][server.at = "answer" /\ server'.at = "idle" => reloaded \/ answer' \in right]_vars

\* No lock is waited for forever: a verdict reaches the blocklist although a
\* request holds the shard, and a request that holds the shard or waits for
\* the configuration is answered.
LocksReleased ==
  /\ inference.at # "idle" ~> inference.at = "idle"
  /\ server.at # "idle" ~> server.at = "idle"
=============================================================================
