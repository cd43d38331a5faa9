------------------------------ MODULE ElasticPool ------------------------------
(***************************************************************************)
(* ElasticInferencePool (utils/elastic.py): the inference servers behind a *)
(* host name, discovered by DNS while the run goes on, and the LoRA        *)
(* adapter each of them must have loaded before it is given work.          *)
(*                                                                         *)
(* Two tasks of one event loop use the pool: the sync loop, and the weight *)
(* watcher through update_weights; a lock serialises them.  An action ends *)
(* at an await on HTTP, DNS or the lock.  Servers are processes of their   *)
(* own that join, leave, crash, boot without an adapter, or hang: accept a *)
(* request and never answer.  An adapter is the step of its weights, 0     *)
(* none; the adapter the pool wants carries name and path from the first   *)
(* update on (update_weights refuses others).                              *)
(*                                                                         *)
(* A load that fails may have taken effect all the same; one that takes    *)
(* effect later than the pool's next request to that server is left out.   *)
(***************************************************************************)
EXTENDS Integers, FiniteSets

CONSTANTS
    IPs,         \* addresses the host name may resolve to
    MaxStep,     \* bound on updates
    MaxEvents    \* bound on joins, departures, crashes, hangs and HTTP errors

ASSUME PoolAssumption ==
    /\ IsFiniteSet(IPs)
    /\ MaxStep \in Nat
    /\ MaxEvents \in Nat

VARIABLES
    \* servers and DNS
    dns,         \* addresses the name resolves to
    server,      \* "up", "down" or "hung"
    adapter,     \* adapter loaded
    unseen,      \* booted after the pool last read its adapter
    events,      \* bounded by MaxEvents
    \* the pool
    status,      \* of the addresses in _servers; "unknown" elsewhere
    desired,     \* step of _desired, 0: path is None
    lock,        \* who holds it: "free", "sync" or "update"
    job,         \* await of _sync_server_adapter a server is at
    \* sync
    phase,       \* its loop: "add", "remove", "check"
    discovered,
    todo,        \* addresses its loop has still to visit
    \* watcher
    asked,       \* update_weights called and not returned
    adopted,     \* policy.version
    stopped

serverVars == <<dns, server, adapter, unseen, events>>
syncVars == <<phase, discovered, todo>>
askVars == <<asked, adopted>>
poolVars == <<serverVars, status, desired, lock, job, syncVars, askVars, stopped>>

Known == {ip \in IPs : status[ip] # "unknown"}
Ready == {ip \in IPs : status[ip] = "ready"}
Busy == {ip \in IPs : job[ip] # "none"}

PoolInit ==
    /\ dns \in SUBSET IPs
    /\ server \in [IPs -> {"up", "down"}]
    /\ adapter = [ip \in IPs |-> 0] /\ unseen = [ip \in IPs |-> FALSE]
    /\ events = 0
    /\ status = [ip \in IPs |-> "unknown"] /\ desired = 0
    /\ lock = "free" /\ job = [ip \in IPs |-> "none"]
    /\ phase = "add" /\ discovered = {} /\ todo = {}
    /\ asked = FALSE /\ adopted = 0
    /\ stopped = FALSE

-----------------------------------------------------------------------------
(* Servers and DNS                                                         *)

Event ==
    /\ events < MaxEvents
    /\ events' = events + 1

JoinOrLeave(ip) ==
    /\ Event
    /\ dns' = IF ip \in dns THEN dns \ {ip} ELSE dns \cup {ip}
    /\ UNCHANGED <<server, adapter, unseen, status, desired, lock, job,
                   syncVars, askVars, stopped>>

Fails(ip) ==
    /\ Event
    /\ server[ip] # "down"
    /\ \E s \in {"down", "hung"} \ {server[ip]} : server' = [server EXCEPT ![ip] = s]
    /\ UNCHANGED <<dns, adapter, unseen, status, desired, lock, job, syncVars,
                   askVars, stopped>>

\* A server boots without an adapter; one that hung goes on.
Recovers(ip) ==
    /\ server[ip] # "up"
    /\ server' = [server EXCEPT ![ip] = "up"]
    /\ IF server[ip] = "down"
       THEN /\ adapter' = [adapter EXCEPT ![ip] = 0]
            /\ unseen' = [unseen EXCEPT ![ip] = TRUE]
       ELSE UNCHANGED <<adapter, unseen>>
    /\ UNCHANGED <<dns, events, status, desired, lock, job, syncVars,
                   askVars, stopped>>

\* A GET answers, or it raises: the server is down, or one more event.
Answers(ip) == server[ip] = "up" /\ UNCHANGED events
Raises(ip) == \/ server[ip] = "down" /\ UNCHANGED events
              \/ server[ip] = "up" /\ Event

-----------------------------------------------------------------------------
(* _sync_server_adapter                                                    *)

\* _adapter_matches_desired: the paths of a step are the same.
Matches(loaded) == desired = 0 \/ loaded = desired

\* _get_loaded_adapter: what the server has loaded, none if it raises.
ReadsAdapter(ip, loaded) ==
    \/ /\ Answers(ip)
       /\ loaded = adapter[ip]
       /\ unseen' = [unseen EXCEPT ![ip] = FALSE]
    \/ /\ Raises(ip)
       /\ loaded = 0
       /\ UNCHANGED unseen

Moves(ip, s, j) ==
    /\ status' = [status EXCEPT ![ip] = s]
    /\ job' = [job EXCEPT ![ip] = j]

Query(ip) ==
    /\ job[ip] = "query"
    /\ \E loaded \in 0..MaxStep :
        /\ ReadsAdapter(ip, loaded)
        /\ IF Matches(loaded) THEN Moves(ip, "ready", "none")
           ELSE Moves(ip, "syncing", "load")
    /\ UNCHANGED <<dns, server, adapter, desired, lock, syncVars, askVars, stopped>>

\* load_lora_adapter with its retries: each attempt, and all of them
\* together, are bounded in time, also where the server hangs.
Load(ip) ==
    /\ job[ip] = "load"
    /\ \/ /\ Answers(ip)
          /\ adapter' = [adapter EXCEPT ![ip] = desired]
          /\ job' = [job EXCEPT ![ip] = "verify"]
          /\ UNCHANGED status
       \/ /\ \/ Raises(ip)
             \/ server[ip] = "hung" /\ UNCHANGED events
          /\ adapter' \in IF server[ip] = "down" THEN {adapter}
                          ELSE {adapter, [adapter EXCEPT ![ip] = desired]}
          /\ Moves(ip, "unhealthy", "none")
    /\ UNCHANGED <<dns, server, unseen, desired, lock, syncVars, askVars, stopped>>

\* Mutant: the adapter just loaded is not read back.
VerifyTrusts(ip) ==
    /\ job[ip] = "verify"
    /\ \E loaded \in 0..MaxStep :
        /\ ReadsAdapter(ip, loaded)
        /\ Moves(ip, "ready", "none")
    /\ UNCHANGED <<dns, server, adapter, desired, lock, syncVars, askVars, stopped>>

Verify(ip) ==
    /\ job[ip] = "verify"
    /\ \E loaded \in 0..MaxStep :
        /\ ReadsAdapter(ip, loaded)
        /\ Moves(ip, IF Matches(loaded) THEN "ready" ELSE "unhealthy", "none")
    /\ UNCHANGED <<dns, server, adapter, desired, lock, syncVars, askVars, stopped>>

-----------------------------------------------------------------------------
(* sync: every sync_interval, and while wait_for_ready waits               *)

\* Takes the lock and resolves the name; a DNS error yields no address.
SyncBegin ==
    /\ ~ stopped
    /\ lock = "free"
    /\ lock' = "sync" /\ phase' = "add"
    /\ \/ discovered' = dns /\ UNCHANGED events
       \/ discovered' = {} /\ Event
    /\ todo' = discovered' \ Known
    /\ UNCHANGED <<dns, server, adapter, unseen, status, desired, job,
                   askVars, stopped>>

\* _check_server_health: GET /health and GET /v1/models.
Checks(ip, healthy) ==
    \/ healthy /\ Answers(ip)
    \/ ~ healthy /\ Raises(ip)

\* _add_server
Add(ip) ==
    /\ lock = "sync" /\ phase = "add" /\ Busy = {}
    /\ ip \in todo /\ todo' = todo \ {ip}
    /\ \E healthy \in BOOLEAN :
        /\ Checks(ip, healthy)
        /\ IF healthy THEN Moves(ip, "discovering", "query")
           ELSE UNCHANGED <<status, job>>
    /\ UNCHANGED <<dns, server, adapter, unseen, desired, lock, phase,
                   discovered, askVars, stopped>>

\* _remove_server
Remove(ip) ==
    /\ lock = "sync" /\ phase = "remove"
    /\ ip \in todo /\ todo' = todo \ {ip}
    /\ status' = [status EXCEPT ![ip] = "unknown"]
    /\ UNCHANGED <<serverVars, desired, lock, job, phase, discovered,
                   askVars, stopped>>

\* Mutant: a server that is not ready is left as it is.
NeedsAdapterNever(ip) == FALSE

\* A server that is ready is not asked for its adapter again.
NeedsAdapter(ip) == status[ip] # "ready"

Check(ip) ==
    /\ lock = "sync" /\ phase = "check" /\ Busy = {}
    /\ ip \in todo /\ todo' = todo \ {ip}
    /\ \E healthy \in BOOLEAN :
        /\ Checks(ip, healthy)
        /\ IF ~ healthy THEN Moves(ip, "unknown", "none")
           ELSE IF NeedsAdapter(ip) THEN Moves(ip, status[ip], "query")
           ELSE UNCHANGED <<status, job>>
    /\ UNCHANGED <<dns, server, adapter, unseen, desired, lock, phase,
                   discovered, askVars, stopped>>

\* A loop of sync has visited its last server: the next one begins, or
\* sync returns and releases the lock.
SyncNext ==
    /\ lock = "sync" /\ todo = {} /\ Busy = {}
    /\ \/ phase = "add" /\ phase' = "remove" /\ todo' = Known \ discovered
       \/ phase = "remove" /\ phase' = "check" /\ todo' = Known
       \/ phase = "check" /\ phase' = "add" /\ UNCHANGED todo
    /\ lock' = IF phase = "check" THEN "free" ELSE "sync"
    /\ discovered' = IF phase = "check" THEN {} ELSE discovered
    /\ UNCHANGED <<serverVars, status, desired, job, askVars, stopped>>

-----------------------------------------------------------------------------
(* update_weights and stop                                                 *)

\* The watcher adopts a version; the first once wait_for_ready has seen a
\* server ready.
UpdateAsked ==
    /\ ~ stopped /\ ~ asked
    /\ adopted < MaxStep
    /\ adopted > 0 \/ Ready # {}
    /\ asked' = TRUE
    /\ UNCHANGED <<serverVars, status, desired, lock, job, syncVars, adopted, stopped>>

\* Mutant: the lock is not taken.
UpdateBeginUnlocked ==
    /\ asked /\ lock # "update" /\ desired = adopted
    /\ desired' = adopted + 1
    /\ job' = [ip \in IPs |-> IF ip \in Known THEN "query" ELSE "none"]
    /\ lock' = "update"
    /\ UNCHANGED <<serverVars, status, syncVars, askVars, stopped>>

\* sync_weights has the lock: all servers known are synced side by side.
UpdateBegin ==
    /\ asked /\ lock = "free" /\ desired = adopted
    /\ desired' = adopted + 1
    /\ job' = [ip \in IPs |-> IF ip \in Known THEN "query" ELSE "none"]
    /\ lock' = "update"
    /\ UNCHANGED <<serverVars, status, syncVars, askVars, stopped>>

\* Mutant: it returns when every server is ready.
UpdateEndAllReady ==
    /\ lock = "update" /\ Busy = {} /\ Known = Ready
    /\ lock' = "free" /\ asked' = FALSE /\ adopted' = desired
    /\ UNCHANGED <<serverVars, status, desired, job, syncVars, stopped>>

\* gather has all results, failures among them: the version is adopted.
UpdateEnd ==
    /\ lock = "update" /\ Busy = {}
    /\ lock' = "free" /\ asked' = FALSE /\ adopted' = desired
    /\ UNCHANGED <<serverVars, status, desired, job, syncVars, stopped>>

\* Teardown: the watcher is stopped first, the sync task cancelled where it
\* is, then all servers are removed.
StopPool ==
    /\ ~ stopped /\ stopped' = TRUE
    /\ status' = [ip \in IPs |-> "unknown"] /\ job' = [ip \in IPs |-> "none"]
    /\ lock' = "free" /\ phase' = "add" /\ discovered' = {} /\ todo' = {}
    /\ asked' = FALSE
    /\ UNCHANGED <<serverVars, desired, adopted>>

-----------------------------------------------------------------------------
Sync(ip) == Query(ip) \/ Load(ip) \/ Verify(ip)

PoolNext ==
    \/ \E ip \in IPs :
        \/ JoinOrLeave(ip) \/ Fails(ip) \/ Recovers(ip)
        \/ Sync(ip) \/ Add(ip) \/ Remove(ip) \/ Check(ip)
    \/ SyncBegin \/ SyncNext
    \/ UpdateAsked \/ UpdateBegin \/ UpdateEnd
    \/ StopPool

PoolSpec == PoolInit /\ [][PoolNext]_poolVars

\* Tasks run and answers arrive; asyncio.Lock is first come, first served,
\* so update_weights is not overtaken by the sync loop for ever.
PoolFairSpec ==
    /\ PoolSpec
    /\ \A ip \in IPs :
        WF_poolVars(Query(ip)) /\ WF_poolVars(Load(ip)) /\ WF_poolVars(Verify(ip))
        /\ WF_poolVars(Add(ip)) /\ WF_poolVars(Remove(ip)) /\ WF_poolVars(Check(ip))
    /\ WF_poolVars(SyncBegin) /\ WF_poolVars(SyncNext)
    /\ SF_poolVars(UpdateBegin) /\ WF_poolVars(UpdateEnd)

-----------------------------------------------------------------------------
(* Properties                                                              *)

\* Types: a server is at an await of _sync_server_adapter only if it is known
\* and the lock is held, by sync one server at a time; the pool wants the
\* adopted version, or the next while it is adopted.
PoolTypeOK ==
    /\ dns \subseteq IPs /\ discovered \subseteq IPs /\ todo \subseteq IPs
    /\ server \in [IPs -> {"up", "down", "hung"}]
    /\ adapter \in [IPs -> 0..MaxStep] /\ unseen \in [IPs -> BOOLEAN]
    /\ events \in 0..MaxEvents
    /\ status \in [IPs -> {"unknown", "discovering", "syncing", "ready", "unhealthy"}]
    /\ job \in [IPs -> {"none", "query", "load", "verify"}]
    /\ lock \in {"free", "sync", "update"} /\ phase \in {"add", "remove", "check"}
    /\ asked \in BOOLEAN /\ stopped \in BOOLEAN
    /\ adopted \in 0..MaxStep /\ desired \in {adopted, adopted + 1}
    /\ Busy \subseteq Known
    /\ lock = "free" => Busy = {} /\ todo = {}
    /\ lock = "sync" => \A ip, jp \in Busy : ip = jp

\* A server the pool hands out has the adapter of the adopted version
\* loaded, whatever joined, crashed, hung or failed to load, unless it
\* restarted after the pool last read its adapter: sync asks a server that
\* is ready for its health only (elastic.py:442).
AdapterFresh ==
    \A ip \in Ready \ Busy :
        desired > 0 /\ ~ unseen[ip] => adapter[ip] = desired

NoneHangsForEver == \A ip \in IPs : []<>(server[ip] # "hung")

\* After the last disturbance the pool ends with exactly the servers that
\* DNS names and that are up, all of them ready.  The GETs of sync have no
\* timeout: a server that hangs for ever is excluded.
Converges ==
    NoneHangsForEver =>
        <>[](stopped \/ Ready = {ip \in dns : server[ip] = "up"})

\* update_weights returns, whatever fails on a server: no server holds back
\* the policy, unless it hangs for ever.
UpdateReturns == NoneHangsForEver => (asked ~> ~ asked)
=============================================================================
