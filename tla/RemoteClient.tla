---------------------------- MODULE RemoteClient ----------------------------
(***************************************************************************)
(* RemoteClient and ConnectionPool of crates/remote: how the editor keeps  *)
(* its connection to a remote host.  Every window has a client; clients of *)
(* the same host share a connection through the pool, and each runs its    *)
(* own proxy process over it.  A client is a state machine driven by four  *)
(* tasks: `new` or `reconnect`, which establish the connection, `monitor`, *)
(* which waits for the proxy to end, and `heartbeat`, which pings.  The    *)
(* message layer is RemoteChannel; here an answer of the server arrives or *)
(* does not.                                                               *)
(*                                                                         *)
(* The connection is SshRemoteConnection: `kill` sets its flag for good    *)
(* (Usable reads it as has_been_killed) and every client has a proxy of    *)
(* its own.  The other transports of the pool differ in just this and are  *)
(* not modelled: a DockerExecConnection counts as killed until its first   *)
(* start_proxy, and each start_proxy kills the proxy before it; a          *)
(* WslRemoteConnection is never killed.                                    *)
(***************************************************************************)
EXTENDS Integers, FiniteSets

CONSTANTS
  Clients,
  MAX_MISSED_HEARTBEATS,
  MAX_RECONNECT_ATTEMPTS,
  MaxFaults,        \* bound on faults: deaths, silences, late answers, failures
  Connections       \* identities of connections; one that nobody refers to is reused

ASSUME RemoteClientAssumption ==
  /\ MAX_MISSED_HEARTBEATS \in Nat \ {0} /\ MAX_RECONNECT_ATTEMPTS \in Nat
  /\ MaxFaults \in Nat
  /\ Connections \subseteq Nat \ {0} /\ IsFiniteSet(Clients)
  \* There is always one that nobody refers to.
  /\ IsFiniteSet(Connections) => Cardinality(Connections) > 2 * Cardinality(Clients) + 1

NoConnection == 0

\* `State`, without ReconnectFailed, which never outlives the update that sets it;
\* "None" is a state that was taken, "Absent" a client that `new` has not made, and
\* "Released" one that its project shut down and let go.
States == {"Absent", "Connecting", "Connected", "HeartbeatMissed", "Reconnecting",
           "ReconnectExhausted", "ServerNotRunning", "None", "Released"}
Final == {"ReconnectExhausted", "ServerNotRunning"}
Live == {"Connected", "HeartbeatMissed"}

\* Where `new` (pool, start, hello, ping) or the reconnect task (kill, killed, pool,
\* start, resync, then its result) of a client is.
Tasks == {"idle", "pool", "start", "hello", "ping",
          "kill", "killed", "resync", "connected", "failed"}

Client ==
  [state : States,
   missed_heartbeats : Nat,      \* the counter inside State::HeartbeatMissed
   connection : Connections \cup {NoConnection},   \* the remote_connection it holds
   awaits : Connections \cup {NoConnection},       \* the pool's attempt it shares
   task : Tasks, attempts : Nat,
   answer : BOOLEAN,             \* what `task` awaits is in the incoming queue
   proxy : {"none", "running", "ended", "not_running"},   \* the io task
   rejoined : BOOLEAN,           \* the proxy was started with reconnect = true
   monitor : BOOLEAN,            \* a monitor task awaits the proxy
   silent : BOOLEAN,             \* the proxy runs but nothing comes through any more
   heartbeat : {"off", "wait", "ping"}, missed : Nat,   \* the task and its counter
   timer : BOOLEAN,              \* its keepalive_timer is armed
   activity : BOOLEAN,           \* its connection_activity_rx holds an item
   disconnects : Nat]            \* history: Disconnected events emitted

VARIABLES
  client,        \* a Client for each of Clients
  pool, pooled,  \* the pool's entry: its kind, and the connection made or being made
  killed,        \* connections that were killed
  faults         \* count, for the bound

vars == <<client, pool, pooled, killed, faults>>

\* Clients, the pool and their tasks have their types; whatever fails, a reconnect knows
\* the connection it has to kill.
TypeOK ==
  /\ client \in [Clients -> Client]
  /\ pool \in {"none", "connecting", "connected"}
  /\ pooled \in Connections \cup {NoConnection} /\ killed \subseteq Connections
  /\ faults \in 0 .. MaxFaults

Absent(disconnects) ==
  [state |-> "Absent", missed_heartbeats |-> 0, connection |-> NoConnection,
   awaits |-> NoConnection, task |-> "idle", attempts |-> 0, answer |-> FALSE,
   proxy |-> "none", rejoined |-> FALSE, monitor |-> FALSE, silent |-> FALSE, heartbeat |-> "off", missed |-> 0,
   timer |-> FALSE, activity |-> FALSE, disconnects |-> disconnects]

Init ==
  /\ client = [c \in Clients |-> Absent(0)]
  /\ pool = "none" /\ pooled = NoConnection /\ killed = {} /\ faults = 0

-----------------------------------------------------------------------------
\* Transformations of one client, as in the code.

\* Dropping a proxy's tasks ends it without anybody being told.
DropProxy(r) ==
  [r EXCEPT !.proxy = "none", !.monitor = FALSE, !.silent = FALSE, !.rejoined = FALSE,
            !.activity = FALSE, !.answer = FALSE]
DropHeartbeat(r) == [r EXCEPT !.heartbeat = "off", !.missed = 0, !.timer = FALSE]

\* `state.take()`: Connected and HeartbeatMissed own the proxy, the heartbeat and a
\* reference to the connection; in the other states a running task owns them.
DropState(r) ==
  IF r.state \in Live
  THEN [DropHeartbeat(DropProxy(r)) EXCEPT !.connection = NoConnection, !.missed_heartbeats = 0]
  ELSE r

\* Mutant: only giving up is announced, not the missing server.
set_state_partly(r, state) ==
  [DropState(r) EXCEPT !.state = state,
                       !.disconnects = IF state = "ReconnectExhausted" THEN @ + 1 ELSE @]

\* Emits Disconnected for the two final states.
set_state(r, state) ==
  [DropState(r) EXCEPT !.state = state,
                       !.disconnects = IF state \in Final THEN @ + 1 ELSE @]

can_reconnect(r) == r.state \in Live

\* `reconnect` from Live states with n = 0, or from ReconnectFailed after n attempts.
reconnect(r, n) ==
  IF n + 1 > MAX_RECONNECT_ATTEMPTS
  THEN [set_state(r, "ReconnectExhausted") EXCEPT
          !.connection = NoConnection, !.task = "idle", !.attempts = 0]
  ELSE [set_state(r, "Reconnecting") EXCEPT
          !.connection = r.connection, !.task = "kill", !.attempts = n + 1]

\* State::Connected is made, with a fresh heartbeat task.
connected(r) ==
  [r EXCEPT !.state = "Connected", !.missed_heartbeats = 0, !.task = "idle", !.answer = FALSE,
            !.attempts = 0, !.heartbeat = "wait", !.missed = 0, !.timer = TRUE]

\* Mutant: after a missed beat the timer is not set again.
handle_heartbeat_result_once(r) ==
  LET next == CASE r.missed = 0 /\ r.state = "HeartbeatMissed" ->
                     [r EXCEPT !.state = "Connected", !.missed_heartbeats = 0]
                [] r.missed > 0 /\ r.state \in Live ->
                     [r EXCEPT !.state = "HeartbeatMissed", !.missed_heartbeats = @ + 1]
                [] OTHER -> r
  IN IF r.state = "Released" THEN DropHeartbeat(r)
     ELSE IF r.missed < MAX_MISSED_HEARTBEATS THEN next
     ELSE IF can_reconnect(next) THEN reconnect(next, 0) ELSE DropHeartbeat(next)

\* The rest of a turn of `heartbeat`; without its client the task ends.
handle_heartbeat_result(r) ==
  LET next == CASE r.missed = 0 /\ r.state = "HeartbeatMissed" ->
                     [r EXCEPT !.state = "Connected", !.missed_heartbeats = 0]
                [] r.missed > 0 /\ r.state \in Live ->
                     [r EXCEPT !.state = "HeartbeatMissed", !.missed_heartbeats = @ + 1]
                [] OTHER -> r
  IN IF r.state = "Released" THEN DropHeartbeat(r)
     ELSE IF r.missed < MAX_MISSED_HEARTBEATS THEN [next EXCEPT !.timer = TRUE]
     ELSE IF can_reconnect(next) THEN reconnect(next, 0) ELSE DropHeartbeat(next)

\* The rest of `new` or of the reconnect task once the pool gave it ssh connection k:
\* start_proxy, and for a reconnect the monitor and the flush of `resync`.
start_proxy(r, k) ==
  LET fresh == [DropProxy(r) EXCEPT !.connection = k, !.proxy = "running"] IN
  IF r.state = "Absent" THEN [fresh EXCEPT !.state = "Connecting", !.task = "hello"]
  ELSE [fresh EXCEPT !.rejoined = TRUE, !.monitor = TRUE, !.task = "resync"]

-----------------------------------------------------------------------------
\* A fault is counted; with `excused` it is what had to happen anyway.
Fault(excused) ==
  \/ excused /\ UNCHANGED faults
  \/ ~excused /\ faults < MaxFaults /\ faults' = faults + 1

Set(c, r) == client' = [client EXCEPT ![c] = r]

\* Who shares the attempt to make connection k.
Sharing(k) == {c \in Clients : client[c].task = "pool" /\ client[c].awaits = k}

\* Mutants: an attempt is not joined; a connection of another window is not used.
JoinableNever == FALSE
UsableNever == FALSE

\* ConnectionPool::connect.  An attempt that somebody still awaits is joined; a
\* connection that somebody holds and nobody killed (the flag of an ssh connection) is
\* used at once; an entry of any other kind is replaced by a new attempt.
Joinable == pool = "connecting" /\ Sharing(pooled) # {}
Usable ==
  pool = "connected" /\ pooled \notin killed /\ \E c \in Clients : client[c].connection = pooled
Unused ==
  Connections \ ({pooled} \cup {client[c].connection : c \in Clients}
                          \cup {client[c].awaits : c \in Clients})

await(c, k) == Set(c, [client[c] EXCEPT !.task = "pool", !.awaits = k])

pool_connect(c) ==
  \/ Joinable /\ await(c, pooled) /\ UNCHANGED <<pool, pooled, killed>>
  \/ Usable /\ Set(c, start_proxy(client[c], pooled)) /\ UNCHANGED <<pool, pooled, killed>>
  \/ /\ ~Joinable /\ ~Usable
     /\ LET k == CHOOSE k \in Unused : TRUE IN
        await(c, k) /\ pool' = "connecting" /\ pooled' = k /\ killed' = killed \ {k}

\* `connect` of a window that opens a remote project, then RemoteClient::new.
open(c) ==
  /\ client[c].state = "Absent" /\ client[c].task = "idle"
  /\ pool_connect(c)
  /\ UNCHANGED faults

\* The attempt succeeds, or fails; the clients that share it go on by themselves.
pool_ready(k) ==
  /\ Sharing(k) # {}
  /\ pool' = "connected" /\ pooled' = k
  /\ client' = [c \in Clients |->
       IF c \in Sharing(k)
       THEN [client[c] EXCEPT !.task = "start", !.connection = k, !.awaits = NoConnection]
       ELSE client[c]]
  /\ UNCHANGED <<killed, faults>>

pool_fails(k) ==
  /\ Sharing(k) # {} /\ Fault(FALSE)
  /\ pool' = "none" /\ pooled' = NoConnection
  /\ client' = [c \in Clients |->
       IF c \notin Sharing(k) THEN client[c]
       ELSE IF client[c].state = "Absent" THEN Absent(client[c].disconnects)
       ELSE [client[c] EXCEPT !.task = "failed", !.awaits = NoConnection]]
  /\ UNCHANGED killed

start(c) ==
  /\ client[c].task = "start"
  /\ Set(c, start_proxy(client[c], client[c].connection))
  /\ UNCHANGED <<pool, pooled, killed, faults>>

\* The user cancels, or `new` runs into its timeout: everything it holds is dropped.
abandon(c) ==
  /\ \/ client[c].state = "Absent" /\ client[c].task \in {"pool", "start"}
     \/ client[c].state = "Connecting"
  /\ Set(c, Absent(client[c].disconnects))
  /\ UNCHANGED <<pool, pooled, killed, faults>>

-----------------------------------------------------------------------------
\* The proxy and the network (external).

\* What `new` or `resync` awaits comes in, and counts as activity.
answer_arrives(c) ==
  /\ client[c].task \in {"hello", "ping", "resync"} /\ ~client[c].answer
  /\ client[c].proxy = "running" /\ ~client[c].silent
  /\ Set(c, [client[c] EXCEPT !.answer = TRUE, !.activity = TRUE])
  /\ UNCHANGED <<pool, pooled, killed, faults>>

\* Any other message of the server, an answer to a ping of the heartbeat included.
message_arrives(c) ==
  /\ client[c].proxy = "running" /\ ~client[c].silent /\ ~client[c].activity
  /\ Set(c, [client[c] EXCEPT !.activity = TRUE])
  /\ UNCHANGED <<pool, pooled, killed, faults>>

\* Its connection was killed, it crashed, or (reconnecting) it found no server.
proxy_ends(c) ==
  /\ client[c].proxy = "running"
  /\ \/ /\ Fault(client[c].connection \in killed)
        /\ Set(c, [client[c] EXCEPT !.proxy = "ended"])
     \/ /\ client[c].rejoined /\ UNCHANGED faults
        /\ Set(c, [client[c] EXCEPT !.proxy = "not_running"])
  /\ UNCHANGED <<pool, pooled, killed>>

falls_silent(c) ==
  /\ client[c].proxy = "running" /\ ~client[c].silent /\ Fault(FALSE)
  /\ Set(c, [client[c] EXCEPT !.silent = TRUE])
  /\ UNCHANGED <<pool, pooled, killed>>

-----------------------------------------------------------------------------
\* `new`, after RemoteStarted: the monitor is started, then a ping.
hello_done(c) ==
  /\ client[c].task = "hello" /\ client[c].answer
  /\ Set(c, [client[c] EXCEPT !.task = "ping", !.answer = FALSE, !.monitor = TRUE])
  /\ UNCHANGED <<pool, pooled, killed, faults>>

ping_done(c) ==
  /\ client[c].task = "ping" /\ client[c].answer
  /\ Set(c, connected(client[c]))
  /\ UNCHANGED <<pool, pooled, killed, faults>>

\* The reconnect task: `kill` marks the connection at once and awaits the process,
\* which may fail; then the pool is asked.
kill(c) ==
  /\ client[c].task = "kill"
  /\ killed' = killed \cup {client[c].connection}
  /\ \/ Set(c, [client[c] EXCEPT !.task = "killed"]) /\ UNCHANGED faults
     \/ Set(c, [client[c] EXCEPT !.task = "failed"]) /\ Fault(FALSE)
  /\ UNCHANGED <<pool, pooled>>

ask_pool(c) ==
  /\ client[c].task = "killed"
  /\ pool_connect(c)
  /\ UNCHANGED faults

resync_done(c) ==
  /\ client[c].task = "resync" /\ client[c].answer
  /\ Set(c, [client[c] EXCEPT !.task = "connected", !.answer = FALSE])
  /\ UNCHANGED <<pool, pooled, killed, faults>>

\* Mutant: no timer, the flush is awaited as long as the proxy runs.
resync_fails(c) ==
  /\ client[c].task = "resync" /\ ~client[c].answer /\ client[c].proxy # "running"
  /\ Set(c, [DropProxy(client[c]) EXCEPT !.task = "failed"])
  /\ UNCHANGED <<pool, pooled, killed, faults>>

resync_times_out(c) ==
  /\ client[c].task = "resync" /\ ~client[c].answer
  /\ Set(c, [DropProxy(client[c]) EXCEPT !.task = "failed"])
  /\ UNCHANGED <<pool, pooled, killed, faults>>

\* Mutant: the result counts whatever has become of the client.
finish_always(c) ==
  /\ client[c].task \in {"connected", "failed"}
  /\ Set(c, IF client[c].task = "connected" THEN connected(client[c])
            ELSE reconnect(client[c], client[c].attempts))
  /\ UNCHANGED <<pool, pooled, killed, faults>>

\* The result of the reconnect task counts only if the client still waits for it;
\* otherwise it is dropped with all it holds.
finish(c) ==
  LET r == client[c] IN
  /\ r.task \in {"connected", "failed"}
  /\ Set(c, IF r.state # "Reconnecting"
            THEN [DropProxy(r) EXCEPT
                    !.task = "idle", !.connection = NoConnection, !.attempts = 0]
            ELSE IF r.task = "connected" THEN connected(r)
            ELSE reconnect(r, r.attempts))
  /\ UNCHANGED <<pool, pooled, killed, faults>>

\* `monitor`: the proxy has ended.  The exit code for a missing server is final;
\* for any other end a reconnect is tried, and refused in some states.  A client that
\* was let go is not updated.
monitor_fires(c) ==
  LET r == [client[c] EXCEPT !.monitor = FALSE] IN
  /\ client[c].monitor /\ client[c].proxy \in {"ended", "not_running"}
  /\ Set(c, IF r.state = "Released" THEN r
            ELSE IF r.proxy = "not_running" THEN set_state(r, "ServerNotRunning")
            ELSE IF can_reconnect(r) THEN reconnect(r, 0)
            ELSE r)
  /\ UNCHANGED <<pool, pooled, killed, faults>>

-----------------------------------------------------------------------------
\* Mutant: activity resets the count of the task and the state is not told.
heartbeat_activity_untold(c) ==
  /\ client[c].heartbeat = "wait" /\ client[c].activity
  /\ Set(c, [client[c] EXCEPT !.activity = FALSE, !.timer = TRUE, !.missed = 0])
  /\ UNCHANGED <<pool, pooled, killed, faults>>

\* `heartbeat`, waiting: activity comes first, and re-arms the timer.
heartbeat_activity(c) ==
  LET r == [client[c] EXCEPT !.activity = FALSE, !.timer = TRUE] IN
  /\ client[c].heartbeat = "wait" /\ client[c].activity
  /\ Set(c, IF r.missed # 0 THEN handle_heartbeat_result([r EXCEPT !.missed = 0]) ELSE r)
  /\ UNCHANGED <<pool, pooled, killed, faults>>

\* The activity channel is closed: the task stops and leaves the rest to the monitor.
\* (Its senders are dropped when one of the io tasks ends, just before the status of the
\* proxy is known; the model has the two at once.)
heartbeat_closed(c) ==
  /\ client[c].heartbeat = "wait" /\ ~client[c].activity /\ client[c].proxy # "running"
  /\ Set(c, DropHeartbeat(client[c]))
  /\ UNCHANGED <<pool, pooled, killed, faults>>

heartbeat_tick(c) ==
  /\ client[c].heartbeat = "wait" /\ ~client[c].activity /\ client[c].proxy = "running"
  /\ client[c].timer
  /\ Set(c, [client[c] EXCEPT !.heartbeat = "ping", !.timer = FALSE])
  /\ UNCHANGED <<pool, pooled, killed, faults>>

\* Activity, or the end of the channel, comes before the answer to the ping is seen.
\* If nothing was missed the loop goes on without setting the timer.
heartbeat_pong(c) ==
  LET r == [client[c] EXCEPT !.activity = FALSE, !.heartbeat = "wait"] IN
  /\ client[c].heartbeat = "ping" /\ (client[c].activity \/ client[c].proxy # "running")
  /\ Set(c, IF r.missed # 0 THEN handle_heartbeat_result([r EXCEPT !.missed = 0]) ELSE r)
  /\ UNCHANGED <<pool, pooled, killed, faults>>

heartbeat_times_out(c) ==
  /\ client[c].heartbeat = "ping" /\ ~client[c].activity /\ client[c].proxy = "running"
  /\ Fault(client[c].silent)
  /\ Set(c, handle_heartbeat_result([client[c] EXCEPT !.missed = @ + 1, !.heartbeat = "wait"]))
  /\ UNCHANGED <<pool, pooled, killed>>

-----------------------------------------------------------------------------
\* The debugging commands, and the end of the project.  `force_heartbeat_timeout`
\* takes the state before it finds out that it is not Connected.
force_disconnect(c) ==
  /\ client[c].state \in Live /\ client[c].connection \notin killed
  /\ killed' = killed \cup {client[c].connection}
  /\ Fault(FALSE)
  /\ UNCHANGED <<client, pool, pooled>>

force_heartbeat_timeout(c, n) ==
  /\ client[c].state \notin {"Absent", "Connecting", "None", "Released"}
  /\ Set(c, IF client[c].state = "Connected" THEN reconnect(client[c], n)
            ELSE set_state(client[c], "None"))
  /\ Fault(FALSE)
  /\ UNCHANGED <<pool, pooled, killed>>

\* The project lets go of its client.  The state is taken; what a Connected one owns
\* lasts for 50 ms more, while the shutdown request goes out.  "Released" assumes that
\* nobody else holds the client: the agent server, context server and dap stores have
\* handles too, and are taken to go with their project.
shutdown_processes(c) ==
  /\ client[c].state \notin {"Absent", "Connecting", "Released"}
  /\ Set(c, IF client[c].state = "Connected" THEN [client[c] EXCEPT !.state = "Released"]
            ELSE set_state(client[c], "Released"))
  /\ UNCHANGED <<pool, pooled, killed, faults>>

processes_dropped(c) ==
  LET r == client[c] IN
  /\ r.state = "Released" /\ r.task = "idle" /\ r.connection # NoConnection
  /\ Set(c, [DropHeartbeat(DropProxy(r)) EXCEPT !.connection = NoConnection])
  /\ UNCHANGED <<pool, pooled, killed, faults>>

-----------------------------------------------------------------------------
Work(c) ==
  \/ start(c) \/ hello_done(c) \/ ping_done(c) \/ kill(c) \/ ask_pool(c) \/ resync_done(c)
  \/ resync_times_out(c) \/ finish(c) \/ monitor_fires(c) \/ processes_dropped(c)

Beat(c) ==
  \/ heartbeat_activity(c) \/ heartbeat_closed(c) \/ heartbeat_tick(c) \/ heartbeat_pong(c)
  \/ heartbeat_times_out(c)

Next ==
  \/ \E k \in Connections : pool_ready(k) \/ pool_fails(k)
  \/ \E c \in Clients :
       \/ open(c) \/ abandon(c) \/ Work(c) \/ Beat(c)
       \/ answer_arrives(c) \/ message_arrives(c) \/ proxy_ends(c) \/ falls_silent(c)
       \/ force_disconnect(c) \/ shutdown_processes(c)
       \/ \E n \in {0, MAX_RECONNECT_ATTEMPTS} : force_heartbeat_timeout(c, n)

Spec == Init /\ [][Next]_vars

\* The executor runs what is ready and timers expire; an attempt of the pool ends, and
\* the proxy of a killed connection dies.
Fairness ==
  /\ \A k \in Connections : WF_vars(pool_ready(k) \/ pool_fails(k))
  /\ \A c \in Clients :
       /\ WF_vars(Work(c)) /\ WF_vars(Beat(c))
       /\ WF_vars(client[c].connection \in killed /\ proxy_ends(c))

FairSpec == Spec /\ Fairness

-----------------------------------------------------------------------------
\* The clients of an ssh host share one connection: whatever kills, failures and retries
\* race, no two connections that were not killed are in use at a time.
OneConnection ==
  Cardinality({client[c].connection : c \in Clients} \ (killed \cup {NoConnection})) <= 1

\* The assertion of ConnectionPool::connect: an attempt that ends finds its own entry
\* in the pool, so it neither drops nor overwrites the connection of another.
EntryKept ==
  \A c \in Clients :
    client[c].task = "pool" => pool = "connecting" /\ pooled = client[c].awaits

\* A running heartbeat finds a state to take, and its own count of missed beats
\* agrees with the one the state shows.
BeatsAgree ==
  \A c \in Clients : client[c].heartbeat # "off" /\ client[c].state # "Released" =>
    /\ client[c].state = IF client[c].missed = 0 THEN "Connected" ELSE "HeartbeatMissed"
    /\ client[c].missed_heartbeats = client[c].missed

\* Observers hear of the end once: Disconnected is emitted exactly when a client
\* reaches a final state, and never twice.
ToldOnce ==
  \A c \in Clients :
    /\ client[c].disconnects <= 1
    /\ client[c].state \in Final => client[c].disconnects = 1

\* A disconnected client stays so: an answer that comes late, or a reconnect that
\* succeeds after all, does not revive it behind the observers' back.
FinalIsFinal ==
  [][\A c \in Clients :
       client[c].state \in Final => client'[c].state \in Final \cup {"None", "Released"}]_vars

\* A reconnect comes to an end: connected, given up, or no server.
ReconnectSettles ==
  \A c \in Clients : client[c].state = "Reconnecting" ~> client[c].state # "Reconnecting"

\* Once a beat was missed the rest are counted: a silent server leads to a reconnect.
BeatsLeadOn ==
  \A c \in Clients :
    (client[c].state = "HeartbeatMissed" /\ client[c].silent)
      ~> client[c].state # "HeartbeatMissed"

\* Heartbeat failures eventually trigger a reconnect: a client does not stay Connected
\* to a server that has fallen silent.
SilenceNoticed ==
  \A c \in Clients :
    (client[c].state \in Live /\ client[c].silent)
      ~> ~(client[c].state \in Live /\ client[c].silent)
=============================================================================
