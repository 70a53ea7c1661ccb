------------------------- MODULE RemoteClientProofs -------------------------
(***************************************************************************)
(* What holds of the clients of an ssh host and of their pool, for any     *)
(* number of windows, faults, heartbeats and reconnect attempts.           *)
(***************************************************************************)
EXTENDS RemoteClient, TLAPS, FiniteSetTheorems

-----------------------------------------------------------------------------
(* The inductive invariant *)

\* The stages of a client's task that have no proxy of their own.
Unstarted == {"kill", "killed", "pool", "start", "failed"}

\* Which task a client in a given state may have, and what the task holds.
Shape(r) ==
  /\ r.state \in Live => r.task = "idle" /\ r.connection # NoConnection
  /\ r.task \in {"start", "hello", "ping", "kill", "killed", "resync", "connected", "failed"}
       => r.connection # NoConnection
  /\ r.task = "pool" /\ r.state # "Absent" => r.connection # NoConnection
  /\ r.state = "Connecting" => r.task \in {"hello", "ping"}
  /\ r.task \in {"hello", "ping"}
       => r.state = "Connecting" /\ ~r.rejoined /\ r.proxy # "not_running"
  /\ r.task \in Unstarted \/ r.state = "Absent" => ~r.monitor
  /\ r.state \in {"Absent", "Connecting"} => r.disconnects = 0

\* The heartbeat of r and its state agree, as BeatsAgree says of every client.
Beats(r) ==
  r.heartbeat # "off" /\ r.state # "Released" =>
    /\ r.state = IF r.missed = 0 THEN "Connected" ELSE "HeartbeatMissed"
    /\ r.missed_heartbeats = r.missed

\* The end is told once, as ToldOnce says of every client, and nothing is left that
\* could tell it again: no monitor, and no task that would start one.
Told(r) ==
  /\ r.disconnects <= 1
  /\ r.state \in Final => r.disconnects = 1
  /\ r.disconnects = 1 => /\ r.state \in Final \cup {"None", "Released"}
                          /\ ~r.monitor
                          /\ r.task \in {"idle", "resync", "connected", "failed"}

\* What holds of one client, whatever the others do.
Sound(r) == r \in Client /\ Shape(r) /\ Beats(r) /\ Told(r)

\* A connection that a client holds and nobody killed is the one in the pool.
Held ==
  /\ pool # "none" => pooled \in Connections
  /\ \A c \in Clients :
       client[c].connection \notin killed \cup {NoConnection}
         => pool = "connected" /\ client[c].connection = pooled

\* The inductive invariant: each client is sound by itself, an attempt in flight has its
\* entry in the pool, and what a client refers to is the connection the pool knows.
IInv ==
  /\ TypeOK
  /\ \A c \in Clients : Sound(client[c])
  /\ EntryKept
  /\ Held

\* The fields that Sound reads, apart from the proxy.
Observed ==
  {"state", "missed_heartbeats", "connection", "awaits", "task", "missed",
   "disconnects", "rejoined", "monitor", "heartbeat"}

\* Client r becomes t by itself: it may let go of its connection but takes no other, it
\* joins no attempt of the pool, and if it had ended it stays so.
Kept(r, t) ==
  /\ Sound(t)
  /\ t.connection \in {r.connection, NoConnection}
  /\ t.task = "pool" => r.task = "pool" /\ t.awaits = r.awaits
  /\ r.state \in Final => t.state \in Final \cup {"None", "Released"}

-----------------------------------------------------------------------------
(* A new connection *)

\* The values of a function on the clients are at most as many as the clients.
LEMMA Values ==
  ASSUME NEW f
  PROVE  /\ IsFiniteSet({f[c] : c \in Clients})
         /\ Cardinality({f[c] : c \in Clients}) <= Cardinality(Clients)
<1> DEFINE T == {f[c] : c \in Clients}
           g == [c \in Clients |-> f[c]]
<1>1. g \in Surjection(Clients, T)
  BY DEF Surjection
<1> QED
  BY <1>1, FS_Surjection, RemoteClientAssumption DEF RemoteClientAssumption

\* There is always a connection that nobody refers to, for the pool's next attempt.
LEMMA UnusedExists ==
  Unused # {} /\ (CHOOSE k \in Unused : TRUE) \in Unused
<1> DEFINE held == {client[c].connection : c \in Clients}
           awaited == {client[c].awaits : c \in Clients}
           taken == {pooled} \cup held \cup awaited
           f == [c \in Clients |-> client[c].connection]
           g == [c \in Clients |-> client[c].awaits]
<1>1. held = {f[c] : c \in Clients} /\ awaited = {g[c] : c \in Clients}
  OBVIOUS
<1>2. /\ IsFiniteSet(held) /\ Cardinality(held) <= Cardinality(Clients)
      /\ IsFiniteSet(awaited) /\ Cardinality(awaited) <= Cardinality(Clients)
  <2> HIDE DEF held, awaited, f, g
  <2> QED  BY <1>1, Values
<1>3. IsFiniteSet({pooled}) /\ Cardinality({pooled}) = 1
  BY FS_Singleton
<1>4. Cardinality(held) \in Nat /\ Cardinality(awaited) \in Nat /\ Cardinality(Clients) \in Nat
  BY <1>2, FS_CardinalityType, RemoteClientAssumption DEF RemoteClientAssumption
<1>5. /\ IsFiniteSet(taken)
      /\ Cardinality(taken) <= 2 * Cardinality(Clients) + 1
  <2> HIDE DEF held, awaited
  <2>1. /\ IsFiniteSet({pooled} \cup held)
        /\ Cardinality({pooled} \cup held) =
             1 + Cardinality(held) - Cardinality({pooled} \cap held)
    BY <1>2, <1>3, FS_Union
  <2>2. Cardinality({pooled} \cap held) \in Nat
    BY <1>3, FS_Intersection, FS_CardinalityType
  <2>3. /\ IsFiniteSet(taken)
        /\ Cardinality(taken) = Cardinality({pooled} \cup held) + Cardinality(awaited)
             - Cardinality(({pooled} \cup held) \cap awaited)
    BY <1>2, <2>1, FS_Union
  <2>4. Cardinality(({pooled} \cup held) \cap awaited) \in Nat
    BY <2>1, FS_Intersection, FS_CardinalityType
  <2> QED
    BY <1>2, <1>4, <2>1, <2>2, <2>3, <2>4
<1>6. ~(Connections \subseteq taken)
  <2> HIDE DEF taken
  <2> SUFFICES ASSUME Connections \subseteq taken PROVE FALSE
    OBVIOUS
  <2>1. IsFiniteSet(Connections) /\ Cardinality(Connections) <= Cardinality(taken)
    BY <1>5, FS_Subset
  <2>2. Cardinality(Connections) \in Nat /\ Cardinality(taken) \in Nat
    BY <1>5, <2>1, FS_CardinalityType
  <2> QED
    BY <1>4, <1>5, <2>1, <2>2, RemoteClientAssumption DEF RemoteClientAssumption
<1> QED
  BY <1>6 DEF Unused

-----------------------------------------------------------------------------
(* What becomes of one client.  Each lemma is about the record that a handler *)
(* leaves behind.                                                             *)

\* A client that was given up, or has never been.
LEMMA SoundAbsent == Sound(Absent(0))
BY DEF Sound, Shape, Beats, Told, Client, Absent, States, Tasks, Live, Final, Unstarted

\* The proxy is dropped: only its fields change.
LEMMA DroppedProxy ==
  ASSUME NEW r \in Client
  PROVE  /\ DropProxy(r) \in Client
         /\ ~DropProxy(r).monitor /\ ~DropProxy(r).rejoined /\ DropProxy(r).proxy = "none"
         /\ \A x \in {"state", "missed_heartbeats", "connection", "awaits", "task", "attempts",
                      "heartbeat", "missed", "timer", "disconnects"} : DropProxy(r)[x] = r[x]
BY DEF DropProxy, Client

\* The heartbeat task is dropped: only its fields change.
LEMMA DroppedHeartbeat ==
  ASSUME NEW r \in Client
  PROVE  /\ DropHeartbeat(r) \in Client
         /\ DropHeartbeat(r).heartbeat = "off"
         /\ \A x \in {"state", "missed_heartbeats", "connection", "awaits", "task", "attempts",
                      "monitor", "disconnects"} : DropHeartbeat(r)[x] = r[x]
BY DEF DropHeartbeat, Client

\* A state is taken: what it owned is gone.
LEMMA DroppedState ==
  ASSUME NEW r \in Client
  PROVE  /\ DropState(r) \in Client
         /\ DropState(r).disconnects = r.disconnects
         /\ DropState(r).task = r.task /\ DropState(r).awaits = r.awaits
         /\ DropState(r).connection \in {r.connection, NoConnection}
         /\ r.state \in Live => ~DropState(r).monitor /\ DropState(r).heartbeat = "off"
         /\ r.state \notin Live => DropState(r) = r
<1> DEFINE d == DropHeartbeat(DropProxy(r))
<1>1. /\ d \in Client /\ d.disconnects = r.disconnects /\ d.task = r.task
      /\ d.awaits = r.awaits
      /\ ~d.monitor /\ d.heartbeat = "off"
  BY DroppedProxy, DroppedHeartbeat
<1> HIDE DEF d
<1>2. /\ [d EXCEPT !.connection = NoConnection, !.missed_heartbeats = 0] \in Client
      /\ [d EXCEPT !.connection = NoConnection, !.missed_heartbeats = 0].disconnects
           = d.disconnects
      /\ [d EXCEPT !.connection = NoConnection, !.missed_heartbeats = 0].task = d.task
      /\ [d EXCEPT !.connection = NoConnection, !.missed_heartbeats = 0].awaits = d.awaits
      /\ [d EXCEPT !.connection = NoConnection, !.missed_heartbeats = 0].connection
           = NoConnection
      /\ [d EXCEPT !.connection = NoConnection, !.missed_heartbeats = 0].monitor = d.monitor
      /\ [d EXCEPT !.connection = NoConnection, !.missed_heartbeats = 0].heartbeat
           = d.heartbeat
  BY <1>1 DEF Client
<1> QED
  BY <1>1, <1>2 DEF DropState, d

\* The new state is in place, and an end is counted.
LEMMA SetState ==
  ASSUME NEW r \in Client, NEW s \in States
  PROVE  /\ set_state(r, s) \in Client
         /\ set_state(r, s).state = s
         /\ set_state(r, s).disconnects = r.disconnects + (IF s \in Final THEN 1 ELSE 0)
         /\ \A x \in {"task", "monitor", "heartbeat", "missed", "missed_heartbeats",
                      "connection", "awaits"} : set_state(r, s)[x] = DropState(r)[x]
<1> DEFINE d == DropState(r)
           n == r.disconnects + (IF s \in Final THEN 1 ELSE 0)
           e == [d EXCEPT !.state = s, !.disconnects = n]
<1>1. d \in Client /\ d.disconnects = r.disconnects
  BY DroppedState
<1>2. n \in Nat /\ n = IF s \in Final THEN d.disconnects + 1 ELSE d.disconnects
  BY <1>1 DEF Client
<1>3. set_state(r, s) = e
  BY <1>2 DEF set_state
<1> HIDE DEF d, n
<1>4. e \in Client /\ e.state = s /\ e.disconnects = n
  BY <1>1, <1>2 DEF Client
<1>5. \A x \in {"task", "monitor", "heartbeat", "missed", "missed_heartbeats", "connection",
                "awaits"} :
        e[x] = d[x]
  BY <1>1 DEF Client
<1> HIDE DEF e
<1> QED
  BY <1>3, <1>4, <1>5 DEF d, n

\* A reconnect, or the end after the last attempt, from a state that allows one.
LEMMA KeptReconnect ==
  ASSUME NEW r, Sound(r), NEW n \in Nat,
         r.state \in Live \/ (r.state = "Reconnecting" /\ r.task = "failed")
  PROVE  Kept(r, reconnect(r, n))
<1> DEFINE x == set_state(r, "ReconnectExhausted")
           y == set_state(r, "Reconnecting")
           gone == [x EXCEPT !.connection = NoConnection, !.task = "idle", !.attempts = 0]
           again == [y EXCEPT !.connection = r.connection, !.task = "kill",
                              !.attempts = n + 1]
<1>1. /\ r \in Client /\ r.disconnects = 0 /\ r.connection # NoConnection
      /\ ~DropState(r).monitor /\ DropState(r).heartbeat = "off" /\ r.state \notin Final
  BY DroppedState DEF Sound, Shape, Told, Beats, Live, Final, Unstarted, Client
<1>2. /\ x \in Client /\ x.state = "ReconnectExhausted" /\ x.disconnects = 1
      /\ ~x.monitor /\ x.heartbeat = "off"
      /\ y \in Client /\ y.state = "Reconnecting" /\ y.disconnects = 0
      /\ ~y.monitor /\ y.heartbeat = "off"
  <2>1. "ReconnectExhausted" \in States \cap Final /\ "Reconnecting" \in States \ Final
    BY DEF States, Final
  <2> QED
    BY <1>1, <2>1, SetState
<1>3. reconnect(r, n) = IF n + 1 > MAX_RECONNECT_ATTEMPTS THEN gone ELSE again
  BY DEF reconnect
<1> HIDE DEF x, y
<1>4. /\ gone \in Client /\ gone.state = "ReconnectExhausted" /\ gone.disconnects = 1
      /\ ~gone.monitor /\ gone.heartbeat = "off" /\ gone.task = "idle"
      /\ gone.connection = NoConnection
  BY <1>2 DEF Client, Tasks
<1>5. /\ again \in Client /\ again.state = "Reconnecting" /\ again.disconnects = 0
      /\ ~again.monitor /\ again.heartbeat = "off" /\ again.task = "kill"
      /\ again.connection = r.connection
  <2>1. n + 1 \in Nat /\ r.connection \in Connections \cup {NoConnection}
    BY <1>1 DEF Client
  <2> QED
    BY <1>2, <2>1 DEF Client, Tasks
<1> HIDE DEF gone, again
<1>6. Kept(r, gone)
  BY <1>1, <1>4 DEF Kept, Sound, Shape, Beats, Told, Live, Final, Unstarted
<1>7. Kept(r, again)
  BY <1>1, <1>5 DEF Kept, Sound, Shape, Beats, Told, Live, Final, Unstarted
<1> QED
  BY <1>3, <1>6, <1>7

\* A client that is connected anew.
LEMMA KeptConnected ==
  ASSUME NEW r, Sound(r),
         \/ r.state = "Connecting" /\ r.task = "ping"
         \/ r.state = "Reconnecting" /\ r.task = "connected"
  PROVE  Kept(r, connected(r))
<1> DEFINE e == connected(r)
<1>1. r \in Client /\ r.disconnects = 0 /\ r.connection # NoConnection /\ r.state \notin Final
  BY DEF Sound, Shape, Told, Final, Unstarted, Client
<1>2. /\ e \in Client /\ e.state = "Connected" /\ e.missed_heartbeats = 0 /\ e.task = "idle"
      /\ e.heartbeat = "wait" /\ e.missed = 0 /\ e.disconnects = r.disconnects
      /\ e.connection = r.connection
  BY <1>1 DEF connected, Client, Tasks, States
<1> HIDE DEF e
<1> QED
  BY <1>1, <1>2 DEF e, Kept, Sound, Shape, Beats, Told, Live, Final, Unstarted

\* A client whose new proxy has been started over connection k.
LEMMA StartedProxy ==
  ASSUME NEW r, Sound(r), NEW k \in Connections,
         r.task \in {"start", "killed"} \/ (r.state = "Absent" /\ r.task = "idle")
  PROVE  /\ Sound(start_proxy(r, k))
         /\ start_proxy(r, k).connection = k
         /\ start_proxy(r, k).task \in {"hello", "resync"}
         /\ r.state \notin Final
<1> DEFINE d == DropProxy(r)
           f == [d EXCEPT !.connection = k, !.proxy = "running"]
           new == [f EXCEPT !.state = "Connecting", !.task = "hello"]
           old == [f EXCEPT !.rejoined = TRUE, !.monitor = TRUE, !.task = "resync"]
<1>1. /\ d \in Client /\ d.state = r.state /\ d.disconnects = r.disconnects
      /\ d.heartbeat = r.heartbeat /\ d.missed = r.missed
      /\ d.missed_heartbeats = r.missed_heartbeats /\ ~d.monitor /\ d.task = r.task
      /\ ~d.rejoined
  BY DroppedProxy DEF Sound
<1> HIDE DEF d
<1>2. /\ f \in Client /\ f.state = r.state /\ f.disconnects = r.disconnects
      /\ f.heartbeat = r.heartbeat /\ f.missed = r.missed
      /\ f.missed_heartbeats = r.missed_heartbeats /\ ~f.monitor /\ f.task = r.task
      /\ f.connection = k /\ ~f.rejoined /\ f.proxy = "running"
  BY <1>1 DEF Client
<1>3. k # NoConnection
  BY RemoteClientAssumption DEF RemoteClientAssumption, NoConnection
<1>4. start_proxy(r, k) = IF r.state = "Absent" THEN new ELSE old
  BY DEF start_proxy, d
<1> HIDE DEF f
<1>5. /\ new \in Client /\ new.state = "Connecting" /\ new.task = "hello"
      /\ new.disconnects = r.disconnects /\ new.heartbeat = r.heartbeat /\ ~new.monitor
      /\ new.connection = k /\ ~new.rejoined /\ new.proxy = "running"
  BY <1>2 DEF Client, Tasks, States
<1>6. /\ old \in Client /\ old.state = r.state /\ old.task = "resync"
      /\ old.disconnects = r.disconnects /\ old.heartbeat = r.heartbeat
      /\ old.connection = k /\ old.missed = r.missed
      /\ old.missed_heartbeats = r.missed_heartbeats
  BY <1>2 DEF Client, Tasks
<1> HIDE DEF new, old
<1>7. r.state = "Absent" => Sound(new)
  BY <1>3, <1>5 DEF Sound, Shape, Beats, Told, Live, Final, Unstarted
<1>8. r.disconnects \in Nat /\ r.state \notin Final /\ r.disconnects = 0
  BY DEF Sound, Shape, Told, Final, Client, Unstarted
<1>9. r.state # "Absent" => Sound(old)
  BY <1>3, <1>6, <1>8 DEF Sound, Shape, Beats, Told, Live, Final, Unstarted
<1> QED
  BY <1>4, <1>5, <1>6, <1>7, <1>8, <1>9

\* A turn of the heartbeat: r has the task's new count, and the state is told.
LEMMA KeptBeat ==
  ASSUME NEW r, r \in Client, Shape(r), Told(r), r.state \in Live \cup {"Released"},
         r.missed = 0 => r.state \in {"HeartbeatMissed", "Released"},
         r.missed > 0 /\ r.state \in Live => r.missed_heartbeats + 1 = r.missed
  PROVE  Kept(r, handle_heartbeat_result(r))
<1> DEFINE one == [r EXCEPT !.state = "Connected", !.missed_heartbeats = 0]
           n == r.missed_heartbeats + 1
           two == [r EXCEPT !.state = "HeartbeatMissed", !.missed_heartbeats = n]
           next == IF r.missed = 0 THEN one ELSE two
           armed == [next EXCEPT !.timer = TRUE]
<1>1. CASE r.state = "Released"
  <2> DEFINE d == DropHeartbeat(r)
  <2>1. /\ d \in Client /\ d.heartbeat = "off"
        /\ d.state = r.state /\ d.connection = r.connection /\ d.awaits = r.awaits
        /\ d.task = r.task /\ d.monitor = r.monitor /\ d.disconnects = r.disconnects
    BY DroppedHeartbeat
  <2>2. handle_heartbeat_result(r) = d
    BY <1>1 DEF handle_heartbeat_result
  <2> HIDE DEF d
  <2> QED
    BY <1>1, <2>1, <2>2 DEF Kept, Sound, Shape, Beats, Told, Live, Final, Unstarted
<1>2. CASE r.state \in Live
  <2>1. r.missed \in Nat /\ r.missed_heartbeats \in Nat /\ n \in Nat
    BY DEF Client
  <2>2. /\ r.missed = 0 => r.state = "HeartbeatMissed"
        /\ r.missed > 0 <=> r.missed # 0
        /\ r.state # "Released"
        /\ r.missed # 0 => n = r.missed
        /\ r.task = "idle" /\ r.disconnects = 0 /\ r.connection # NoConnection
    BY <1>2, <2>1 DEF Live, Shape, Told, Final, Client
  <2>3. handle_heartbeat_result(r) =
          IF r.missed < MAX_MISSED_HEARTBEATS THEN armed
          ELSE IF can_reconnect(next) THEN reconnect(next, 0) ELSE DropHeartbeat(next)
    BY <1>2, <2>1, <2>2 DEF handle_heartbeat_result
  <2>4. /\ one \in Client /\ one.state = "Connected" /\ one.missed_heartbeats = 0
        /\ one.missed = r.missed /\ one.task = "idle" /\ one.connection = r.connection
        /\ one.disconnects = r.disconnects
    BY <2>2 DEF Client, States
  <2>5. /\ two \in Client /\ two.state = "HeartbeatMissed" /\ two.missed_heartbeats = n
        /\ two.missed = r.missed /\ two.task = "idle" /\ two.connection = r.connection
        /\ two.disconnects = r.disconnects
    <3> HIDE DEF n
    <3> QED  BY <2>1, <2>2 DEF Client, States
  <2> HIDE DEF one, two, n
  <2>6. /\ next \in Client
        /\ next.state = IF r.missed = 0 THEN "Connected" ELSE "HeartbeatMissed"
        /\ next.missed_heartbeats = r.missed
        /\ next.missed = r.missed /\ next.task = "idle" /\ next.connection = r.connection
        /\ next.disconnects = 0
    BY <2>2, <2>4, <2>5
  <2> HIDE DEF next
  <2>7. Sound(next) /\ next.state \in Live
    BY <2>2, <2>6 DEF Sound, Shape, Beats, Told, Live, Final, Unstarted
  <2>8. /\ armed \in Client
        /\ armed.state = next.state
        /\ armed.missed_heartbeats = next.missed_heartbeats
        /\ armed.missed = next.missed /\ armed.task = "idle"
        /\ armed.connection = r.connection /\ armed.disconnects = 0
    BY <2>6 DEF Client
  <2> HIDE DEF armed
  <2>9. Kept(r, armed)
    BY <1>2, <2>2, <2>6, <2>7, <2>8 DEF Kept, Sound, Shape, Beats, Told, Live, Final, Unstarted
  <2>10. Kept(next, reconnect(next, 0))
    BY <2>7, KeptReconnect
  <2>11. Kept(r, reconnect(next, 0))
    BY <1>2, <2>6, <2>10 DEF Kept, Live, Final
  <2> QED
    BY <2>3, <2>7, <2>9, <2>11 DEF can_reconnect
<1> QED
  BY <1>1, <1>2

\* Fields that the invariant does not constrain are changed, a monitor or a heartbeat
\* task ends, or a proxy that was started to rejoin finds no server.
LEMMA KeptTouched ==
  ASSUME NEW r, NEW t, Sound(r), t \in Client,
         t.state = r.state, t.missed_heartbeats = r.missed_heartbeats,
         t.connection = r.connection, t.awaits = r.awaits, t.task = r.task,
         t.missed = r.missed, t.disconnects = r.disconnects, t.rejoined = r.rejoined,
         t.monitor => r.monitor,
         t.heartbeat # "off" => r.heartbeat # "off",
         t.proxy = "not_running" => r.proxy = "not_running" \/ r.rejoined
  PROVE  Kept(r, t)
<1>1. Shape(t)
  BY DEF Sound, Shape
<1>2. Beats(t)
  BY DEF Sound, Beats
<1>3. Told(t)
  BY DEF Sound, Told
<1> QED
  BY <1>1, <1>2, <1>3 DEF Sound, Told, Kept

\* The state is taken for good, or after the only Disconnected event.
LEMMA KeptSetState ==
  ASSUME NEW r, Sound(r), NEW s \in {"ServerNotRunning", "None", "Released"},
         r.state \notin {"Absent", "Connecting", "Released"},
         s = "ServerNotRunning" => r.disconnects = 0 /\ ~r.monitor /\ r.task \notin Unstarted
  PROVE  Kept(r, set_state(r, s))
<1> DEFINE e == set_state(r, s)
           d == DropState(r)
<1>1. /\ r \in Client /\ s \in States
      /\ d.disconnects = r.disconnects /\ d.task = r.task /\ d.awaits = r.awaits
      /\ d.connection \in {r.connection, NoConnection}
      /\ r.state \in Live => ~d.monitor /\ d.heartbeat = "off"
      /\ r.state \notin Live => d = r
  BY DroppedState DEF Sound, States
<1>2. /\ e \in Client /\ e.state = s
      /\ e.disconnects = r.disconnects + (IF s \in Final THEN 1 ELSE 0)
      /\ e.task = d.task /\ e.monitor = d.monitor /\ e.heartbeat = d.heartbeat
      /\ e.connection = d.connection /\ e.awaits = d.awaits
  BY <1>1, SetState
<1> HIDE DEF e, d
<1>3. e.disconnects = (IF s = "ServerNotRunning" THEN 1 ELSE r.disconnects)
  BY <1>1, <1>2 DEF Final, Client
<1>4. d.heartbeat = "off"
  BY <1>1 DEF Sound, Beats, Live
<1>5. /\ r.task \in Tasks /\ r.task \notin {"hello", "ping"}
      /\ r.state \in Live => r.task = "idle"
  BY <1>1 DEF Sound, Shape, Client
<1>6. d.monitor => r.monitor
  BY <1>1 DEF Client
<1>7. Shape(e)
  BY <1>1, <1>2, <1>3, <1>5, <1>6 DEF Sound, Shape, Live, Unstarted
<1>8. Beats(e)
  BY <1>1, <1>2, <1>4 DEF Sound, Beats, Live
<1>9. Told(e)
  BY <1>1, <1>2, <1>3, <1>5, <1>6 DEF Sound, Told, Tasks, Unstarted, Final, Live
<1> QED
  BY <1>1, <1>2, <1>7, <1>8, <1>9 DEF e, Kept, Sound, Final

-----------------------------------------------------------------------------
(* The steps *)

\* What FinalIsFinal says of one step.
StaysFinal ==
  \A c \in Clients :
    client[c].state \in Final => client'[c].state \in Final \cup {"None", "Released"}

\* A fault is counted within its bound.
LEMMA FaultCounted ==
  ASSUME TypeOK, NEW b, Fault(b)
  PROVE  faults' \in 0 .. MaxFaults
BY RemoteClientAssumption DEF TypeOK, Fault, RemoteClientAssumption

\* A step of one client by itself, which may also kill a connection.
LEMMA StepKept ==
  ASSUME IInv, NEW c \in Clients, NEW t, Kept(client[c], t), Set(c, t),
         UNCHANGED <<pool, pooled>>, killed \subseteq killed', killed' \subseteq Connections,
         faults' \in 0 .. MaxFaults
  PROVE  IInv' /\ StaysFinal
<1>1. /\ client \in [Clients -> Client] /\ t \in Client
      /\ client' = [client EXCEPT ![c] = t]
  BY DEF IInv, TypeOK, Kept, Sound, Set
<1>2. /\ client' \in [Clients -> Client] /\ client'[c] = t
      /\ \A d \in Clients : d # c => client'[d] = client[d]
  <2> HIDE DEF Client
  <2> QED  BY <1>1
<1>3. TypeOK'
  BY <1>2 DEF IInv, TypeOK
<1>4. \A d \in Clients : Sound(client'[d])
  BY <1>2 DEF IInv, Kept
<1>5. EntryKept'
  BY <1>2 DEF IInv, EntryKept, Kept
<1>6. Held'
  BY <1>2 DEF IInv, Held, Kept
<1>7. StaysFinal
  <2> SUFFICES ASSUME NEW d \in Clients, client[d].state \in Final
               PROVE  client'[d].state \in Final \cup {"None", "Released"}
    BY DEF StaysFinal
  <2> QED
    BY <1>2 DEF Kept
<1> QED
  BY <1>3, <1>4, <1>5, <1>6, <1>7 DEF IInv

\* A window's client takes connection k of the pool and starts its proxy.
LEMMA StepStarted ==
  ASSUME IInv, NEW c \in Clients, NEW t, Sound(t), Set(c, t), t.task # "pool",
         t.connection = pooled, pool = "connected", client[c].state \notin Final,
         UNCHANGED <<pool, pooled, killed, faults>>
  PROVE  IInv' /\ StaysFinal
<1>1. /\ client' \in [Clients -> Client] /\ client'[c] = t
      /\ \A d \in Clients : d # c => client'[d] = client[d]
  <2>1. client \in [Clients -> Client] /\ t \in Client
    BY DEF IInv, TypeOK, Sound
  <2> HIDE DEF Client
  <2> QED  BY <2>1 DEF Set
<1>2. TypeOK'
  BY <1>1 DEF IInv, TypeOK
<1>3. \A d \in Clients : Sound(client'[d])
  BY <1>1 DEF IInv
<1>4. EntryKept'
  BY <1>1 DEF IInv, EntryKept
<1>5. Held'
  BY <1>1 DEF IInv, Held
<1>6. StaysFinal
  BY <1>1 DEF StaysFinal
<1> QED
  BY <1>2, <1>3, <1>4, <1>5, <1>6 DEF IInv

\* The proxy and the network.
LEMMA StepNetwork ==
  ASSUME IInv, NEW c \in Clients,
         answer_arrives(c) \/ message_arrives(c) \/ proxy_ends(c) \/ falls_silent(c)
  PROVE  IInv' /\ StaysFinal
<1> DEFINE r == client[c]
<1>1. /\ Sound(r) /\ r \in Client /\ TypeOK
      /\ killed \subseteq killed /\ killed \subseteq Connections /\ faults \in 0 .. MaxFaults
  BY DEF IInv, Sound, TypeOK
<1>2. CASE answer_arrives(c)
  <2> DEFINE t == [r EXCEPT !.answer = TRUE, !.activity = TRUE]
  <2>1. Set(c, t) /\ UNCHANGED <<pool, pooled, killed, faults>>
    BY <1>2 DEF answer_arrives
  <2> HIDE DEF r
  <2>2. Kept(r, t)
    <3>1. t \in Client /\ t.proxy = r.proxy /\ \A x \in Observed : t[x] = r[x]
      BY <1>1 DEF Client, Observed
    <3> HIDE DEF t
    <3> QED  BY <1>1, <3>1, KeptTouched DEF Observed
  <2> HIDE DEF t
  <2> QED  BY <1>1, <2>1, <2>2, StepKept DEF r
<1>3. CASE message_arrives(c)
  <2> DEFINE t == [r EXCEPT !.activity = TRUE]
  <2>1. Set(c, t) /\ UNCHANGED <<pool, pooled, killed, faults>>
    BY <1>3 DEF message_arrives
  <2> HIDE DEF r
  <2>2. Kept(r, t)
    <3>1. t \in Client /\ t.proxy = r.proxy /\ \A x \in Observed : t[x] = r[x]
      BY <1>1 DEF Client, Observed
    <3> HIDE DEF t
    <3> QED  BY <1>1, <3>1, KeptTouched DEF Observed
  <2> HIDE DEF t
  <2> QED  BY <1>1, <2>1, <2>2, StepKept DEF r
<1>4. CASE proxy_ends(c)
  <2> DEFINE t == [r EXCEPT !.proxy = "ended"]
             u == [r EXCEPT !.proxy = "not_running"]
  <2>1. /\ UNCHANGED <<pool, pooled, killed>>
        /\ \/ Set(c, t) /\ Fault(r.connection \in killed)
           \/ Set(c, u) /\ UNCHANGED faults /\ r.rejoined
    BY <1>4 DEF proxy_ends
  <2>2. faults' \in 0 .. MaxFaults
    BY <1>1, <2>1, FaultCounted
  <2> HIDE DEF r
  <2>3. Kept(r, t)
    <3>1. t \in Client /\ t.proxy # "not_running" /\ \A x \in Observed : t[x] = r[x]
      BY <1>1 DEF Client, Observed
    <3> HIDE DEF t
    <3> QED  BY <1>1, <3>1, KeptTouched DEF Observed
  <2>4. r.rejoined => Kept(r, u)
    BY <1>1, KeptTouched DEF Client
  <2> HIDE DEF t, u
  <2> QED  BY <1>1, <2>1, <2>2, <2>3, <2>4, StepKept DEF r
<1>5. CASE falls_silent(c)
  <2> DEFINE t == [r EXCEPT !.silent = TRUE]
  <2>1. Set(c, t) /\ UNCHANGED <<pool, pooled, killed>> /\ Fault(FALSE)
    BY <1>5 DEF falls_silent
  <2>2. faults' \in 0 .. MaxFaults
    BY <1>1, <2>1, FaultCounted
  <2> HIDE DEF r
  <2>3. Kept(r, t)
    <3>1. t \in Client /\ t.proxy = r.proxy /\ \A x \in Observed : t[x] = r[x]
      BY <1>1 DEF Client, Observed
    <3> HIDE DEF t
    <3> QED  BY <1>1, <3>1, KeptTouched DEF Observed
  <2> HIDE DEF t
  <2> QED  BY <1>1, <2>1, <2>2, <2>3, StepKept DEF r
<1> QED
  BY <1>2, <1>3, <1>4, <1>5

\* `new` and the reconnect task, apart from what they ask of the pool.
LEMMA StepTask ==
  ASSUME IInv, NEW c \in Clients,
         \/ abandon(c) \/ start(c) \/ hello_done(c) \/ ping_done(c) \/ kill(c)
         \/ resync_done(c) \/ resync_times_out(c) \/ finish(c)
  PROVE  IInv' /\ StaysFinal
<1> DEFINE r == client[c]
<1>1. /\ Sound(r) /\ r \in Client /\ TypeOK
      /\ killed \subseteq killed /\ killed \subseteq Connections /\ faults \in 0 .. MaxFaults
  BY DEF IInv, Sound, TypeOK
<1>2. CASE abandon(c)
  <2>1. /\ Set(c, Absent(r.disconnects)) /\ UNCHANGED <<pool, pooled, killed, faults>>
        /\ r.state \in {"Absent", "Connecting"}
    BY <1>2 DEF abandon
  <2> HIDE DEF r
  <2>2. r.disconnects = 0 /\ Sound(Absent(0))
    BY <1>1, <2>1, SoundAbsent DEF Sound, Shape
  <2>3. Kept(r, Absent(0))
    BY <2>1, <2>2 DEF Kept, Final, Absent
  <2> QED  BY <1>1, <2>1, <2>2, <2>3, StepKept DEF r
<1>3. CASE start(c)
  <2> DEFINE t == start_proxy(r, r.connection)
  <2>1. Set(c, t) /\ UNCHANGED <<pool, pooled, killed, faults>> /\ r.task = "start"
    BY <1>3 DEF start
  <2> HIDE DEF r
  <2>2. r.connection \in Connections
    BY <1>1, <2>1 DEF Sound, Shape, Client
  <2>3. Kept(r, t)
    BY <1>1, <2>1, <2>2, StartedProxy DEF Kept
  <2> HIDE DEF t
  <2> QED  BY <1>1, <2>1, <2>3, StepKept DEF r
<1>4. CASE hello_done(c)
  <2> DEFINE t == [r EXCEPT !.task = "ping", !.answer = FALSE, !.monitor = TRUE]
  <2>1. Set(c, t) /\ UNCHANGED <<pool, pooled, killed, faults>> /\ r.task = "hello"
    BY <1>4 DEF hello_done
  <2> HIDE DEF r
  <2>2. /\ t \in Client /\ t.state = r.state /\ t.task = "ping" /\ t.connection = r.connection
        /\ t.disconnects = r.disconnects /\ t.heartbeat = r.heartbeat
        /\ t.missed = r.missed /\ t.missed_heartbeats = r.missed_heartbeats
        /\ t.rejoined = r.rejoined /\ t.proxy = r.proxy
    BY <1>1 DEF Client, Tasks
  <2> HIDE DEF t
  <2>3. /\ r.state = "Connecting" /\ r.disconnects = 0 /\ r.connection # NoConnection
        /\ ~r.rejoined /\ r.proxy # "not_running"
    BY <1>1, <2>1 DEF Sound, Shape
  <2>4. Sound(t)
    BY <1>1, <2>2, <2>3 DEF Sound, Shape, Beats, Told, Live, Final, Unstarted
  <2>5. Kept(r, t)
    BY <2>2, <2>3, <2>4 DEF Kept, Final
  <2> QED  BY <1>1, <2>1, <2>5, StepKept DEF r
<1>5. CASE ping_done(c)
  <2>1. Set(c, connected(r)) /\ UNCHANGED <<pool, pooled, killed, faults>> /\ r.task = "ping"
    BY <1>5 DEF ping_done
  <2> HIDE DEF r
  <2>2. Kept(r, connected(r))
    BY <1>1, <2>1, KeptConnected DEF Sound, Shape
  <2> QED  BY <1>1, <2>1, <2>2, StepKept DEF r
<1>6. CASE kill(c)
  <2> DEFINE t(s) == [r EXCEPT !.task = s]
  <2>1. /\ UNCHANGED <<pool, pooled>> /\ r.task = "kill" /\ killed' = killed \cup {r.connection}
        /\ \/ Set(c, t("killed")) /\ UNCHANGED faults
           \/ Set(c, t("failed")) /\ Fault(FALSE)
    BY <1>6 DEF kill
  <2>2. faults' \in 0 .. MaxFaults
    BY <1>1, <2>1, FaultCounted
  <2> HIDE DEF r
  <2>3. r.connection \in Connections
    BY <1>1, <2>1 DEF Sound, Shape, Client
  <2>4. ASSUME NEW s \in {"killed", "failed"} PROVE Kept(r, t(s))
    <3>1. /\ t(s) \in Client /\ t(s).state = r.state /\ t(s).task = s
          /\ t(s).connection = r.connection
          /\ t(s).disconnects = r.disconnects /\ t(s).heartbeat = r.heartbeat
          /\ t(s).missed = r.missed /\ t(s).missed_heartbeats = r.missed_heartbeats
          /\ t(s).monitor = r.monitor
      BY <1>1 DEF Client, Tasks
    <3> HIDE DEF t
    <3>2. Sound(t(s))
      BY <1>1, <2>1, <3>1 DEF Sound, Shape, Beats, Told, Live, Final, Unstarted
    <3> QED  BY <1>1, <2>1, <3>1, <3>2 DEF Kept, Final, Sound, Told
  <2> HIDE DEF t
  <2>5. killed \subseteq killed' /\ killed' \subseteq Connections
    BY <1>1, <2>1, <2>3
  <2>6. Kept(r, t("killed")) /\ Kept(r, t("failed"))
    BY <2>4
  <2> QED  BY <2>1, <2>2, <2>5, <2>6, StepKept DEF r
<1>7. CASE resync_done(c)
  <2> DEFINE t == [r EXCEPT !.task = "connected", !.answer = FALSE]
  <2>1. Set(c, t) /\ UNCHANGED <<pool, pooled, killed, faults>> /\ r.task = "resync"
    BY <1>7 DEF resync_done
  <2> HIDE DEF r
  <2>2. /\ t \in Client /\ t.state = r.state /\ t.task = "connected"
        /\ t.connection = r.connection
        /\ t.disconnects = r.disconnects /\ t.heartbeat = r.heartbeat
        /\ t.missed = r.missed /\ t.missed_heartbeats = r.missed_heartbeats
        /\ t.monitor = r.monitor
    BY <1>1 DEF Client, Tasks
  <2> HIDE DEF t
  <2>3. Sound(t)
    BY <1>1, <2>1, <2>2 DEF Sound, Shape, Beats, Told, Live, Final, Unstarted
  <2>4. Kept(r, t)
    BY <2>2, <2>3 DEF Kept
  <2> QED  BY <1>1, <2>1, <2>4, StepKept DEF r
<1>8. CASE resync_times_out(c)
  <2> DEFINE d == DropProxy(r)
             t == [d EXCEPT !.task = "failed"]
  <2>1. Set(c, t) /\ UNCHANGED <<pool, pooled, killed, faults>> /\ r.task = "resync"
    BY <1>8 DEF resync_times_out
  <2> HIDE DEF r
  <2>2. /\ d \in Client /\ d.state = r.state /\ d.connection = r.connection
        /\ d.disconnects = r.disconnects /\ d.heartbeat = r.heartbeat
        /\ d.missed = r.missed /\ d.missed_heartbeats = r.missed_heartbeats /\ ~d.monitor
    BY <1>1, DroppedProxy
  <2> HIDE DEF d
  <2>3. /\ t \in Client /\ t.state = r.state /\ t.task = "failed"
        /\ t.connection = r.connection
        /\ t.disconnects = r.disconnects /\ t.heartbeat = r.heartbeat
        /\ t.missed = r.missed /\ t.missed_heartbeats = r.missed_heartbeats /\ ~t.monitor
    BY <2>2 DEF Client, Tasks
  <2> HIDE DEF t
  <2>4. Sound(t)
    BY <1>1, <2>1, <2>3 DEF Sound, Shape, Beats, Told, Live, Final, Unstarted
  <2>5. Kept(r, t)
    BY <2>3, <2>4 DEF Kept
  <2> QED  BY <1>1, <2>1, <2>5, StepKept DEF r
<1>9. CASE finish(c)
  <2> DEFINE d == DropProxy(r)
             t == [d EXCEPT !.task = "idle", !.connection = NoConnection, !.attempts = 0]
             u == IF r.state # "Reconnecting" THEN t
                  ELSE IF r.task = "connected" THEN connected(r) ELSE reconnect(r, r.attempts)
  <2>1. /\ Set(c, u) /\ UNCHANGED <<pool, pooled, killed, faults>>
        /\ r.task \in {"connected", "failed"}
    BY <1>9 DEF finish
  <2> HIDE DEF r
  <2>2. /\ d \in Client /\ d.state = r.state
        /\ d.disconnects = r.disconnects /\ d.heartbeat = r.heartbeat
        /\ d.missed = r.missed /\ d.missed_heartbeats = r.missed_heartbeats /\ ~d.monitor
    BY <1>1, DroppedProxy
  <2> HIDE DEF d
  <2>3. /\ t \in Client /\ t.state = r.state /\ t.task = "idle"
        /\ t.connection = NoConnection
        /\ t.disconnects = r.disconnects /\ t.heartbeat = r.heartbeat
        /\ t.missed = r.missed /\ t.missed_heartbeats = r.missed_heartbeats /\ ~t.monitor
    BY <2>2 DEF Client, Tasks
  <2> HIDE DEF t
  <2>4. Sound(t)
    BY <1>1, <2>1, <2>3 DEF Sound, Shape, Beats, Told, Live, Final, Unstarted
  <2>5. Kept(r, t)
    BY <2>3, <2>4 DEF Kept
  <2>6. r.state = "Reconnecting" /\ r.task = "connected" => Kept(r, connected(r))
    BY <1>1, KeptConnected
  <2>7. r.state = "Reconnecting" /\ r.task = "failed" => Kept(r, reconnect(r, r.attempts))
    <3>1. r.attempts \in Nat
      BY <1>1 DEF Client
    <3> QED  BY <1>1, <3>1, KeptReconnect
  <2>8. Kept(r, u)
    BY <2>1, <2>5, <2>6, <2>7
  <2> HIDE DEF u
  <2> QED  BY <1>1, <2>1, <2>8, StepKept DEF r
<1> QED
  BY <1>2, <1>3, <1>4, <1>5, <1>6, <1>7, <1>8, <1>9

\* `monitor` and `heartbeat`.
LEMMA StepBeat ==
  ASSUME IInv, NEW c \in Clients, monitor_fires(c) \/ Beat(c)
  PROVE  IInv' /\ StaysFinal
<1> DEFINE r == client[c]
<1>1. /\ Sound(r) /\ r \in Client /\ TypeOK
      /\ killed \subseteq killed /\ killed \subseteq Connections /\ faults \in 0 .. MaxFaults
  BY DEF IInv, Sound, TypeOK
\* While the heartbeat runs, its client is Connected, has missed beats or was let go.
<1>2. r.heartbeat # "off" =>
        /\ r.state \in Live \cup {"Released"}
        /\ r.missed = 0 => r.state \in {"Connected", "Released"}
        /\ r.missed # 0 => r.state \in {"HeartbeatMissed", "Released"}
        /\ r.state \in Live => r.missed_heartbeats = r.missed
  BY <1>1 DEF Sound, Beats, Live
<1>3. CASE monitor_fires(c)
  <2> DEFINE q == [r EXCEPT !.monitor = FALSE]
             t == IF q.state = "Released" THEN q
                  ELSE IF q.proxy = "not_running" THEN set_state(q, "ServerNotRunning")
                  ELSE IF can_reconnect(q) THEN reconnect(q, 0)
                  ELSE q
  <2>1. Set(c, t) /\ UNCHANGED <<pool, pooled, killed, faults>> /\ r.monitor
    BY <1>3 DEF monitor_fires
  <2> HIDE DEF r
  <2>2. /\ q \in Client /\ ~q.monitor /\ q.proxy = r.proxy
        /\ \A x \in Observed \ {"monitor"} : q[x] = r[x]
    BY <1>1 DEF Client, Observed
  <2> HIDE DEF q
  <2>3. Kept(r, q)
    BY <1>1, <2>2, KeptTouched DEF Observed
  <2>4. q.disconnects = r.disconnects /\ q.state = r.state /\ q.task = r.task
    BY <2>2 DEF Observed
  <2>5. r.disconnects = 0 /\ r.task \notin Unstarted /\ r.state \notin Final \cup {"Absent"}
    BY <1>1, <2>1 DEF Sound, Told, Shape, Final, Client
  <2>6. Sound(q)
    BY <2>3 DEF Kept
  <2>7. q.state # "Released" /\ q.proxy = "not_running"
          => Kept(q, set_state(q, "ServerNotRunning"))
    <3>1. q.state = "Connecting" => q.proxy # "not_running"
      BY <2>6 DEF Sound, Shape
    <3> QED  BY <2>2, <2>4, <2>5, <2>6, <3>1, KeptSetState
  <2>8. can_reconnect(q) => Kept(q, reconnect(q, 0))
    BY <2>6, KeptReconnect DEF can_reconnect
  <2>9. Kept(q, t) \/ Kept(r, t)
    BY <2>3, <2>7, <2>8
  <2>10. Kept(r, t)
    <3>1. q.connection = r.connection /\ q.awaits = r.awaits
      BY <2>2 DEF Observed
    <3> HIDE DEF t
    <3> QED  BY <2>4, <2>9, <3>1 DEF Kept
  <2> HIDE DEF t
  <2> QED  BY <1>1, <2>1, <2>10, StepKept DEF r
<1>4. CASE heartbeat_activity(c)
  <2> DEFINE q == [r EXCEPT !.activity = FALSE, !.timer = TRUE]
             p == [q EXCEPT !.missed = 0]
             t == IF q.missed # 0 THEN handle_heartbeat_result(p) ELSE q
  <2>1. Set(c, t) /\ UNCHANGED <<pool, pooled, killed, faults>> /\ r.heartbeat = "wait"
    BY <1>4 DEF heartbeat_activity
  <2> HIDE DEF r
  <2>2. q \in Client /\ q.proxy = r.proxy /\ \A x \in Observed : q[x] = r[x]
    BY <1>1 DEF Client, Observed
  <2> HIDE DEF q
  <2>3. /\ p \in Client /\ p.proxy = q.proxy /\ p.missed = 0
        /\ \A x \in Observed \ {"missed"} : p[x] = q[x]
    BY <2>2 DEF Client, Observed
  <2> HIDE DEF p
  <2>4. Kept(r, q)
    BY <1>1, <2>2, KeptTouched DEF Observed
  <2>5. /\ p.state = r.state /\ p.connection = r.connection /\ p.awaits = r.awaits
        /\ p.task = r.task /\ q.missed = r.missed
    BY <2>2, <2>3 DEF Observed
  <2>6. Shape(p) /\ Told(p)
    <3>1. Shape(q) /\ Told(q)
      BY <2>4 DEF Kept, Sound
    <3> QED  BY <2>3, <3>1 DEF Shape, Told, Observed
  <2>7. q.missed # 0 => Kept(p, handle_heartbeat_result(p))
    BY <1>2, <2>1, <2>3, <2>5, <2>6, KeptBeat
  <2>8. Kept(r, t)
    BY <2>4, <2>5, <2>7 DEF Kept
  <2> HIDE DEF t
  <2> QED  BY <1>1, <2>1, <2>8, StepKept DEF r
<1>5. CASE heartbeat_closed(c)
  <2> DEFINE t == DropHeartbeat(r)
  <2>1. Set(c, t) /\ UNCHANGED <<pool, pooled, killed, faults>>
    BY <1>5 DEF heartbeat_closed
  <2> HIDE DEF r
  <2>2. /\ t \in Client /\ t.heartbeat = "off"
        /\ t.proxy = r.proxy /\ t.rejoined = r.rejoined
        /\ \A x \in {"state", "connection", "awaits", "task", "monitor", "disconnects"} :
             t[x] = r[x]
    BY <1>1 DEF DropHeartbeat, Client
  <2> HIDE DEF t
  <2>3. Sound(t)
    BY <1>1, <2>2 DEF Sound, Shape, Beats, Told
  <2>4. Kept(r, t)
    BY <2>2, <2>3 DEF Kept
  <2> QED  BY <1>1, <2>1, <2>4, StepKept DEF r
<1>6. CASE heartbeat_tick(c)
  <2> DEFINE t == [r EXCEPT !.heartbeat = "ping", !.timer = FALSE]
  <2>1. Set(c, t) /\ UNCHANGED <<pool, pooled, killed, faults>> /\ r.heartbeat = "wait"
    BY <1>6 DEF heartbeat_tick
  <2> HIDE DEF r
  <2>2. /\ t \in Client /\ t.proxy = r.proxy
        /\ \A x \in Observed \ {"heartbeat"} : t[x] = r[x]
    BY <1>1 DEF Client, Observed
  <2> HIDE DEF t
  <2>3. Kept(r, t)
    BY <1>1, <2>1, <2>2, KeptTouched DEF Observed
  <2> QED  BY <1>1, <2>1, <2>3, StepKept DEF r
<1>7. CASE heartbeat_pong(c)
  <2> DEFINE q == [r EXCEPT !.activity = FALSE, !.heartbeat = "wait"]
             p == [q EXCEPT !.missed = 0]
             t == IF q.missed # 0 THEN handle_heartbeat_result(p) ELSE q
  <2>1. Set(c, t) /\ UNCHANGED <<pool, pooled, killed, faults>> /\ r.heartbeat = "ping"
    BY <1>7 DEF heartbeat_pong
  <2> HIDE DEF r
  <2>2. /\ q \in Client /\ q.proxy = r.proxy
        /\ \A x \in Observed \ {"heartbeat"} : q[x] = r[x]
    BY <1>1 DEF Client, Observed
  <2> HIDE DEF q
  <2>3. /\ p \in Client /\ p.proxy = q.proxy /\ p.missed = 0
        /\ \A x \in Observed \ {"missed"} : p[x] = q[x]
    BY <2>2 DEF Client, Observed
  <2> HIDE DEF p
  <2>4. Kept(r, q)
    BY <1>1, <2>1, <2>2, KeptTouched DEF Observed
  <2>5. /\ p.state = r.state /\ p.connection = r.connection /\ p.awaits = r.awaits
        /\ p.task = r.task /\ q.missed = r.missed
    BY <2>2, <2>3 DEF Observed
  <2>6. Shape(p) /\ Told(p)
    <3>1. Shape(q) /\ Told(q)
      BY <2>4 DEF Kept, Sound
    <3> QED  BY <2>3, <3>1 DEF Shape, Told, Observed
  <2>7. q.missed # 0 => Kept(p, handle_heartbeat_result(p))
    BY <1>2, <2>1, <2>3, <2>5, <2>6, KeptBeat
  <2>8. Kept(r, t)
    BY <2>4, <2>5, <2>7 DEF Kept
  <2> HIDE DEF t
  <2> QED  BY <1>1, <2>1, <2>8, StepKept DEF r
<1>8. CASE heartbeat_times_out(c)
  <2> DEFINE n == r.missed + 1
             q == [r EXCEPT !.missed = n, !.heartbeat = "wait"]
             t == handle_heartbeat_result(q)
  <2>1. /\ Set(c, t) /\ UNCHANGED <<pool, pooled, killed>> /\ Fault(r.silent)
        /\ r.heartbeat = "ping"
    BY <1>8 DEF heartbeat_times_out
  <2>2. faults' \in 0 .. MaxFaults
    BY <1>1, <2>1, FaultCounted
  <2>3. r.missed \in Nat /\ n \in Nat /\ n > 0
    BY <1>1 DEF Client
  <2>4. r.state \in Live => r.missed_heartbeats + 1 = n
    BY <1>2, <2>1
  <2> HIDE DEF r, n
  <2>5. /\ q \in Client /\ q.proxy = r.proxy /\ q.missed = n
        /\ \A x \in Observed \ {"heartbeat", "missed"} : q[x] = r[x]
    BY <1>1, <2>3 DEF Client, Observed
  <2> HIDE DEF q
  <2>6. /\ q.state = r.state /\ q.connection = r.connection /\ q.awaits = r.awaits
        /\ q.task = r.task /\ q.missed_heartbeats = r.missed_heartbeats
    BY <2>5 DEF Observed
  <2>7. Shape(q) /\ Told(q)
    BY <1>1, <2>5 DEF Sound, Shape, Told, Observed
  <2>8. Kept(q, t)
    BY <1>2, <2>1, <2>3, <2>4, <2>5, <2>6, <2>7, KeptBeat
  <2> HIDE DEF t
  <2>9. Kept(r, t)
    BY <2>6, <2>8 DEF Kept
  <2> QED  BY <1>1, <2>1, <2>2, <2>9, StepKept DEF r
<1> QED
  BY <1>3, <1>4, <1>5, <1>6, <1>7, <1>8 DEF Beat

\* The debugging commands, and the end of the project.
LEMMA StepCommand ==
  ASSUME IInv, NEW c \in Clients,
         \/ force_disconnect(c) \/ shutdown_processes(c) \/ processes_dropped(c)
         \/ \E n \in {0, MAX_RECONNECT_ATTEMPTS} : force_heartbeat_timeout(c, n)
  PROVE  IInv' /\ StaysFinal
<1> DEFINE r == client[c]
<1>1. /\ Sound(r) /\ r \in Client /\ TypeOK /\ client \in [Clients -> Client]
      /\ killed \subseteq killed /\ killed \subseteq Connections /\ faults \in 0 .. MaxFaults
  BY DEF IInv, Sound, TypeOK
<1>2. CASE force_disconnect(c)
  <2>1. /\ r.state \in Live /\ killed' = killed \cup {r.connection} /\ Fault(FALSE)
        /\ client' = client /\ UNCHANGED <<pool, pooled>>
    BY <1>2 DEF force_disconnect
  <2>2. faults' \in 0 .. MaxFaults
    BY <1>1, <2>1, FaultCounted
  <2>3. Set(c, r)
    <3> HIDE DEF Client
    <3> QED  BY <1>1, <2>1 DEF Set
  <2> HIDE DEF r
  <2>4. r.connection \in Connections
    BY <1>1, <2>1 DEF Sound, Shape, Client
  <2>5. Kept(r, r)
    BY <1>1 DEF Kept
  <2>6. killed \subseteq killed' /\ killed' \subseteq Connections
    BY <1>1, <2>1, <2>4
  <2> QED  BY <2>1, <2>2, <2>3, <2>5, <2>6, StepKept DEF r
<1>3. CASE shutdown_processes(c)
  <2> DEFINE q == [r EXCEPT !.state = "Released"]
             t == IF r.state = "Connected" THEN q ELSE set_state(r, "Released")
  <2>1. /\ Set(c, t) /\ UNCHANGED <<pool, pooled, killed, faults>>
        /\ r.state \notin {"Absent", "Connecting", "Released"}
    BY <1>3 DEF shutdown_processes
  <2> HIDE DEF r
  <2>2. /\ q \in Client /\ q.state = "Released"
        /\ \A x \in Observed \ {"state"} : q[x] = r[x]
    BY <1>1 DEF Client, Observed, States
  <2> HIDE DEF q
  <2>3. r.state = "Connected" => Sound(q)
    BY <1>1, <2>2 DEF Sound, Shape, Beats, Told, Live, Final, Unstarted, Observed
  <2>4. r.state = "Connected" => Kept(r, q)
    BY <2>2, <2>3 DEF Kept, Observed
  <2>5. Kept(r, set_state(r, "Released"))
    BY <1>1, <2>1, KeptSetState
  <2>6. Kept(r, t)
    BY <2>4, <2>5
  <2> HIDE DEF t
  <2> QED  BY <1>1, <2>1, <2>6, StepKept DEF r
<1>4. CASE processes_dropped(c)
  <2> DEFINE p == DropProxy(r)
             d == DropHeartbeat(p)
             t == [d EXCEPT !.connection = NoConnection]
  <2>1. /\ Set(c, t) /\ UNCHANGED <<pool, pooled, killed, faults>>
        /\ r.state = "Released" /\ r.task = "idle"
    BY <1>4 DEF processes_dropped
  <2> HIDE DEF r
  <2>2. /\ d \in Client /\ d.state = r.state /\ d.task = r.task /\ ~d.monitor
        /\ d.disconnects = r.disconnects
    <3>1. /\ p \in Client /\ p.state = r.state /\ p.task = r.task /\ ~p.monitor
          /\ p.disconnects = r.disconnects
      BY <1>1, DroppedProxy
    <3> HIDE DEF p
    <3> QED  BY <3>1, DroppedHeartbeat
  <2> HIDE DEF d
  <2>3. /\ t \in Client /\ t.state = r.state /\ t.task = r.task /\ ~t.monitor
        /\ t.disconnects = r.disconnects /\ t.connection = NoConnection
    BY <2>2 DEF Client
  <2> HIDE DEF t
  <2>4. Sound(t)
    BY <1>1, <2>1, <2>3 DEF Sound, Shape, Beats, Told, Live, Final, Unstarted
  <2>5. Kept(r, t)
    BY <2>1, <2>3, <2>4 DEF Kept
  <2> QED  BY <1>1, <2>1, <2>5, StepKept DEF r
<1>5. ASSUME NEW n \in {0, MAX_RECONNECT_ATTEMPTS}, force_heartbeat_timeout(c, n)
      PROVE  IInv' /\ StaysFinal
  <2> DEFINE t == IF r.state = "Connected" THEN reconnect(r, n) ELSE set_state(r, "None")
  <2>1. /\ Set(c, t) /\ UNCHANGED <<pool, pooled, killed>> /\ Fault(FALSE)
        /\ r.state \notin {"Absent", "Connecting", "None", "Released"}
    BY <1>5 DEF force_heartbeat_timeout
  <2>2. faults' \in 0 .. MaxFaults
    BY <1>1, <2>1, FaultCounted
  <2>3. n \in Nat
    BY RemoteClientAssumption DEF RemoteClientAssumption
  <2> HIDE DEF r
  <2>4. r.state = "Connected" => Kept(r, reconnect(r, n))
    BY <1>1, <2>3, KeptReconnect DEF Live
  <2>5. Kept(r, set_state(r, "None"))
    BY <1>1, <2>1, KeptSetState
  <2>6. Kept(r, t)
    BY <2>4, <2>5
  <2> HIDE DEF t
  <2> QED  BY <1>1, <2>1, <2>2, <2>6, StepKept DEF r
<1> QED
  BY <1>2, <1>3, <1>4, <1>5

\* A client that asks the pool, with what it was before, is ready to wait.
LEMMA SoundAwait ==
  ASSUME NEW r, Sound(r), NEW k \in Connections,
         r.task = "killed" \/ (r.state = "Absent" /\ r.task = "idle")
  PROVE  /\ Sound([r EXCEPT !.task = "pool", !.awaits = k])
         /\ [r EXCEPT !.task = "pool", !.awaits = k].connection = r.connection
         /\ [r EXCEPT !.task = "pool", !.awaits = k].awaits = k
         /\ r.state \notin Final
<1> DEFINE t == [r EXCEPT !.task = "pool", !.awaits = k]
<1>1. r \in Client
  BY DEF Sound
<1>2. /\ t \in Client /\ t.task = "pool" /\ t.awaits = k
      /\ \A x \in Observed \ {"task", "awaits"} : t[x] = r[x]
  BY <1>1 DEF Client, Tasks, Observed
<1> HIDE DEF t
<1>3. r.disconnects = 0 /\ r.state \notin Final /\ ~r.monitor
  BY <1>1 DEF Sound, Shape, Told, Unstarted, Final, Client
<1>4. Shape(t)
  BY <1>2, <1>3 DEF Sound, Shape, Live, Unstarted, Observed
<1>5. Beats(t)
  BY <1>2 DEF Sound, Beats, Observed
<1>6. Told(t)
  BY <1>2, <1>3 DEF Told, Observed
<1>7. t.connection = r.connection
  BY <1>2 DEF Observed
<1> QED
  BY <1>2, <1>3, <1>4, <1>5, <1>6, <1>7 DEF Sound, t

\* ConnectionPool::connect.  A new attempt is made only when nobody awaits the old one
\* and nobody holds a connection that was not killed.
LEMMA StepConnect ==
  ASSUME IInv, NEW c \in Clients, pool_connect(c), UNCHANGED faults,
         \/ client[c].task = "killed"
         \/ client[c].state = "Absent" /\ client[c].task = "idle"
  PROVE  IInv' /\ StaysFinal
<1> DEFINE r == client[c]
           t(k) == [r EXCEPT !.task = "pool", !.awaits = k]
           k == CHOOSE x \in Unused : TRUE
<1>1. /\ Sound(r) /\ TypeOK /\ client \in [Clients -> Client]
  BY DEF IInv, TypeOK
<1>2. CASE Usable /\ Set(c, start_proxy(r, pooled)) /\ UNCHANGED <<pool, pooled, killed>>
  <2>1. pool = "connected" /\ pooled \in Connections
    BY <1>2 DEF Usable, IInv, Held
  <2>2. /\ Sound(start_proxy(r, pooled)) /\ start_proxy(r, pooled).connection = pooled
        /\ start_proxy(r, pooled).task \in {"hello", "resync"} /\ r.state \notin Final
    BY <1>1, <2>1, StartedProxy
  <2> QED
    BY <1>2, <2>1, <2>2, StepStarted
<1>3. CASE Joinable /\ await(c, pooled) /\ UNCHANGED <<pool, pooled, killed>>
  <2>1. pool = "connecting" /\ pooled \in Connections
    BY <1>3 DEF Joinable, IInv, Held
  <2>2. /\ Sound(t(pooled)) /\ t(pooled).connection = r.connection
        /\ t(pooled).awaits = pooled /\ r.state \notin Final
    BY <1>1, <2>1, SoundAwait
  <2>3. client' = [client EXCEPT ![c] = t(pooled)]
    BY <1>3 DEF await, Set
  <2> HIDE DEF t
  <2>4. /\ client' \in [Clients -> Client] /\ client'[c] = t(pooled)
        /\ \A d \in Clients : d # c => client'[d] = client[d]
    <3>1. t(pooled) \in Client
      BY <2>2 DEF Sound
    <3> HIDE DEF Client
    <3> QED  BY <1>1, <2>3, <3>1
  <2>5. TypeOK'
    BY <1>1, <1>3, <2>4 DEF TypeOK
  <2>6. \A d \in Clients : Sound(client'[d])
    BY <2>2, <2>4 DEF IInv
  <2>7. EntryKept'
    BY <1>3, <2>1, <2>2, <2>4 DEF IInv, EntryKept
  <2>8. Held'
    BY <1>3, <2>2, <2>4 DEF IInv, Held
  <2>9. StaysFinal
    BY <2>2, <2>4 DEF StaysFinal
  <2> QED
    BY <2>5, <2>6, <2>7, <2>8, <2>9 DEF IInv
<1>4. CASE ~Joinable /\ ~Usable
           /\ await(c, k) /\ pool' = "connecting" /\ pooled' = k /\ killed' = killed \ {k}
  <2>1. k \in Connections /\ \A d \in Clients : client[d].connection # k
    BY UnusedExists DEF Unused
  <2> HIDE DEF k
  <2>2. \A d \in Clients : client[d].task # "pool"
    BY <1>4 DEF Joinable, Sharing, IInv, EntryKept
  <2>3. \A d \in Clients : client[d].connection \in killed \cup {NoConnection}
    BY <1>4 DEF Usable, IInv, Held
  <2>4. /\ Sound(t(k)) /\ t(k).connection = r.connection
        /\ t(k).awaits = k /\ r.state \notin Final
    BY <1>1, <2>1, SoundAwait
  <2>5. client' = [client EXCEPT ![c] = t(k)]
    BY <1>4 DEF await, Set
  <2> HIDE DEF t
  <2>6. /\ client' \in [Clients -> Client] /\ client'[c] = t(k)
        /\ \A d \in Clients : d # c => client'[d] = client[d]
    <3>1. t(k) \in Client
      BY <2>4 DEF Sound
    <3> HIDE DEF Client
    <3> QED  BY <1>1, <2>5, <3>1
  <2>7. TypeOK'
    BY <1>1, <1>4, <2>1, <2>6 DEF TypeOK
  <2>8. \A d \in Clients : Sound(client'[d])
    BY <2>4, <2>6 DEF IInv
  <2>9. EntryKept'
    BY <1>4, <2>2, <2>4, <2>6 DEF EntryKept
  <2>10. Held'
    BY <1>4, <2>1, <2>3, <2>4, <2>6 DEF Held
  <2>11. StaysFinal
    BY <2>4, <2>6 DEF StaysFinal
  <2> QED
    BY <2>7, <2>8, <2>9, <2>10, <2>11 DEF IInv
<1> QED
  BY <1>2, <1>3, <1>4 DEF pool_connect

\* The attempt ends.  All who wait share it, because it is the entry of the pool.
LEMMA StepAttempt ==
  ASSUME IInv, NEW k \in Connections, pool_ready(k) \/ pool_fails(k)
  PROVE  IInv' /\ StaysFinal
<1>1. /\ TypeOK /\ client \in [Clients -> Client]
      /\ \A c \in Clients : client[c] \in Client /\ Sound(client[c])
  BY DEF IInv, TypeOK, Sound
<1>2. pool = "connecting" /\ pooled = k
  BY DEF pool_ready, pool_fails, Sharing, IInv, EntryKept
<1>3. \A c \in Clients : client[c].task = "pool" <=> c \in Sharing(k)
  BY <1>2 DEF Sharing, IInv, EntryKept
<1>4. \A c \in Clients : client[c].connection \in killed \cup {NoConnection}
  BY <1>2 DEF IInv, Held
<1>5. k # NoConnection
  BY RemoteClientAssumption DEF RemoteClientAssumption, NoConnection
<1>6. CASE pool_ready(k)
  <2> DEFINE t(r) == [r EXCEPT !.task = "start", !.connection = k, !.awaits = NoConnection]
  <2>1. /\ client' = [c \in Clients |-> IF c \in Sharing(k) THEN t(client[c]) ELSE client[c]]
        /\ pool' = "connected" /\ pooled' = k /\ UNCHANGED <<killed, faults>>
    BY <1>6 DEF pool_ready
  <2>2. ASSUME NEW c \in Sharing(k)
        PROVE  /\ Sound(t(client[c])) /\ t(client[c]).connection = k
               /\ t(client[c]).task = "start" /\ client[c].state \notin Final
    <3> DEFINE r == client[c]
    <3>1. r.task = "pool" /\ r \in Client /\ Sound(r)
      BY <1>1 DEF Sharing
    <3> HIDE DEF r
    <3>2. /\ t(r) \in Client /\ t(r).task = "start" /\ t(r).connection = k
          /\ \A x \in Observed \ {"task", "awaits", "connection"} : t(r)[x] = r[x]
      BY <3>1 DEF Client, Tasks, Observed
    <3> HIDE DEF t
    <3>3. r.disconnects = 0 /\ r.state \notin Final /\ ~r.monitor
      BY <3>1 DEF Sound, Shape, Told, Unstarted, Final, Client
    <3>4. Shape(t(r))
      BY <1>5, <3>1, <3>2, <3>3 DEF Sound, Shape, Live, Unstarted, Observed
    <3>5. Beats(t(r))
      BY <3>1, <3>2 DEF Sound, Beats, Observed
    <3>6. Told(t(r))
      BY <3>2, <3>3 DEF Told, Observed
    <3> QED  BY <3>2, <3>3, <3>4, <3>5, <3>6 DEF Sound, r
  <2> HIDE DEF t
  <2>3. \A c \in Clients :
          client'[c] = IF c \in Sharing(k) THEN t(client[c]) ELSE client[c]
    BY <2>1
  <2>4. \A c \in Clients : Sound(client'[c])
    BY <1>1, <2>2, <2>3
  <2>5. TypeOK'
    <3>1. \A c \in Clients : client'[c] \in Client
      BY <2>4 DEF Sound
    <3>2. client' \in [Clients -> Client]
      <4> HIDE DEF Client
      <4> QED  BY <2>1, <3>1
    <3> QED  BY <1>1, <2>1, <3>2 DEF TypeOK
  <2>6. EntryKept'
    BY <1>3, <2>2, <2>3 DEF EntryKept
  <2>7. Held'
    BY <1>4, <2>1, <2>2, <2>3 DEF Held
  <2>8. StaysFinal
    BY <2>2, <2>3 DEF StaysFinal
  <2> QED
    BY <2>4, <2>5, <2>6, <2>7, <2>8 DEF IInv
<1>7. CASE pool_fails(k)
  <2> DEFINE f(r) == [r EXCEPT !.task = "failed", !.awaits = NoConnection]
             t(r) == IF r.state = "Absent" THEN Absent(r.disconnects) ELSE f(r)
  <2>1. /\ client' = [c \in Clients |-> IF c \in Sharing(k) THEN t(client[c]) ELSE client[c]]
        /\ pool' = "none" /\ pooled' = NoConnection /\ Fault(FALSE) /\ UNCHANGED killed
    BY <1>7 DEF pool_fails
  <2>2. ASSUME NEW c \in Sharing(k)
        PROVE  /\ Sound(t(client[c]))
               /\ t(client[c]).connection \in {client[c].connection, NoConnection}
               /\ t(client[c]).task # "pool" /\ client[c].state \notin Final
    <3> DEFINE r == client[c]
    <3>1. r.task = "pool" /\ r \in Client /\ Sound(r)
      BY <1>1 DEF Sharing
    <3> HIDE DEF r
    <3>2. /\ f(r) \in Client /\ f(r).task = "failed"
          /\ \A x \in Observed \ {"task", "awaits"} : f(r)[x] = r[x]
      BY <3>1 DEF Client, Tasks, Observed
    <3> HIDE DEF f
    <3>3. r.disconnects = 0 /\ r.state \notin Final /\ ~r.monitor
      BY <3>1 DEF Sound, Shape, Told, Unstarted, Final, Client
    <3>4. r.state # "Absent" => Shape(f(r))
      BY <3>1, <3>2, <3>3 DEF Sound, Shape, Live, Unstarted, Observed
    <3>5. Beats(f(r))
      BY <3>1, <3>2 DEF Sound, Beats, Observed
    <3>6. Told(f(r))
      BY <3>2, <3>3 DEF Told, Observed
    <3>7. f(r).connection = r.connection
      BY <3>2 DEF Observed
    <3>8. /\ Sound(Absent(r.disconnects)) /\ Absent(r.disconnects).connection = NoConnection
          /\ Absent(r.disconnects).task = "idle"
      BY <3>3, SoundAbsent DEF Absent
    <3> QED  BY <3>2, <3>3, <3>4, <3>5, <3>6, <3>7, <3>8 DEF Sound, r
  <2> HIDE DEF t
  <2>3. \A c \in Clients :
          client'[c] = IF c \in Sharing(k) THEN t(client[c]) ELSE client[c]
    BY <2>1
  <2>4. \A c \in Clients : Sound(client'[c])
    BY <1>1, <2>2, <2>3
  <2>5. TypeOK'
    <3>1. \A c \in Clients : client'[c] \in Client
      BY <2>4 DEF Sound
    <3>2. client' \in [Clients -> Client]
      <4> HIDE DEF Client
      <4> QED  BY <2>1, <3>1
    <3>3. faults' \in 0 .. MaxFaults
      BY <1>1, <2>1, FaultCounted
    <3> QED  BY <1>1, <2>1, <3>2, <3>3 DEF TypeOK
  <2>6. EntryKept'
    BY <1>3, <2>2, <2>3 DEF EntryKept
  <2>7. Held'
    BY <1>4, <2>1, <2>2, <2>3 DEF Held
  <2>8. StaysFinal
    BY <2>2, <2>3 DEF StaysFinal
  <2> QED
    BY <2>4, <2>5, <2>6, <2>7, <2>8 DEF IInv
<1> QED
  BY <1>6, <1>7

\* Every step keeps the invariant, and revives no client that has ended.
LEMMA NextKeeps ==
  ASSUME IInv, [Next]_vars
  PROVE  IInv' /\ StaysFinal
<1>1. ASSUME NEW k \in Connections, pool_ready(k) \/ pool_fails(k)
      PROVE  IInv' /\ StaysFinal
  BY <1>1, StepAttempt
<1>2. ASSUME NEW c \in Clients,
             \/ open(c) \/ abandon(c) \/ Work(c) \/ Beat(c)
             \/ answer_arrives(c) \/ message_arrives(c) \/ proxy_ends(c) \/ falls_silent(c)
             \/ force_disconnect(c) \/ shutdown_processes(c)
             \/ \E n \in {0, MAX_RECONNECT_ATTEMPTS} : force_heartbeat_timeout(c, n)
      PROVE  IInv' /\ StaysFinal
  <2>1. CASE open(c) \/ ask_pool(c)
    <3>1. /\ pool_connect(c) /\ UNCHANGED faults
          /\ \/ client[c].task = "killed"
             \/ client[c].state = "Absent" /\ client[c].task = "idle"
      BY <2>1 DEF open, ask_pool
    <3> QED  BY <3>1, StepConnect
  <2>2. CASE \/ abandon(c) \/ start(c) \/ hello_done(c) \/ ping_done(c) \/ kill(c)
             \/ resync_done(c) \/ resync_times_out(c) \/ finish(c)
    BY <2>2, StepTask
  <2>3. CASE monitor_fires(c) \/ Beat(c)
    BY <2>3, StepBeat
  <2>4. CASE answer_arrives(c) \/ message_arrives(c) \/ proxy_ends(c) \/ falls_silent(c)
    BY <2>4, StepNetwork
  <2>5. CASE \/ force_disconnect(c) \/ shutdown_processes(c) \/ processes_dropped(c)
             \/ \E n \in {0, MAX_RECONNECT_ATTEMPTS} : force_heartbeat_timeout(c, n)
    BY <2>5, StepCommand
  <2> QED
    BY <1>2, <2>1, <2>2, <2>3, <2>4, <2>5 DEF Work
<1>3. CASE UNCHANGED vars
  BY <1>3 DEF vars, IInv, TypeOK, EntryKept, Held, StaysFinal
<1> QED
  BY <1>1, <1>2, <1>3 DEF Next

-----------------------------------------------------------------------------
(* The theorems *)

\* No client exists at first, and the pool is empty.
LEMMA InitIInv == Init => IInv
<1> SUFFICES ASSUME Init PROVE IInv
  OBVIOUS
<1>1. \A c \in Clients : client[c] = Absent(0)
  BY DEF Init
<1>2. \A c \in Clients : Sound(client[c])
  BY <1>1, SoundAbsent
<1>3. TypeOK
  <2>1. Absent(0) \in Client
    BY SoundAbsent DEF Sound
  <2>2. client \in [Clients -> Client]
    <3> HIDE DEF Client, Absent
    <3> QED  BY <2>1 DEF Init
  <2> QED
    BY <2>2, RemoteClientAssumption DEF Init, TypeOK, RemoteClientAssumption
<1>4. EntryKept
  BY <1>1 DEF EntryKept, Absent
<1>5. Held
  BY <1>1 DEF Init, Held, Absent
<1> QED
  BY <1>2, <1>3, <1>4, <1>5 DEF IInv

\* The invariant holds in every state that the clients and the pool can reach.
LEMMA Inductive == Spec => []IInv
<1>1. Init => IInv
  BY InitIInv
<1>2. IInv /\ [Next]_vars => IInv'
  BY NextKeeps
<1> QED
  BY <1>1, <1>2, PTL DEF Spec

\* Whatever fails, the clients, their tasks and the pool keep their types; in
\* particular the connection that a reconnect kills is one.
THEOREM TypeCorrect == Spec => []TypeOK
<1>1. IInv => TypeOK
  BY DEF IInv
<1> QED
  BY <1>1, Inductive, PTL

\* The assertion of ConnectionPool::connect never fails, for any number of windows:
\* an attempt that ends finds its own entry in the pool.
THEOREM EntryIsKept == Spec => []EntryKept
<1>1. IInv => EntryKept
  BY DEF IInv
<1> QED
  BY <1>1, Inductive, PTL

\* The windows of a host reached over ssh share one connection, whatever kills and retries
\* race.  (It rests on Usable, where a connection is out of use only once it was killed, as
\* SshRemoteConnection has it.  Over docker the windows need not share one.)
THEOREM ConnectionIsShared == Spec => []OneConnection
<1>1. IInv => OneConnection
  <2> SUFFICES ASSUME IInv PROVE OneConnection
    OBVIOUS
  <2> DEFINE used == {client[c].connection : c \in Clients} \ (killed \cup {NoConnection})
  <2>1. used \subseteq {pooled}
    BY DEF IInv, Held
  <2>2. IsFiniteSet({pooled}) /\ Cardinality({pooled}) = 1
    BY FS_Singleton
  <2> HIDE DEF used
  <2>3. Cardinality(used) <= 1
    BY <2>1, <2>2, FS_Subset
  <2> QED
    BY <2>3 DEF OneConnection, used
<1> QED
  BY <1>1, Inductive, PTL

\* A running heartbeat finds a state to take, and the two counts of missed beats agree.
THEOREM BeatsAlwaysAgree == Spec => []BeatsAgree
<1>1. IInv => BeatsAgree
  BY DEF IInv, Sound, Beats, BeatsAgree
<1> QED
  BY <1>1, Inductive, PTL

\* Observers hear of the end of a client exactly once.
THEOREM EndIsToldOnce == Spec => []ToldOnce
<1>1. IInv => ToldOnce
  BY DEF IInv, Sound, Told, ToldOnce
<1> QED
  BY <1>1, Inductive, PTL

\* No late answer, and no reconnect that succeeds after all, revives a client whose
\* end was announced.
THEOREM EndIsFinal == Spec => FinalIsFinal
<1>1. IInv /\ [Next]_vars => [StaysFinal]_vars
  BY NextKeeps
<1>2. [StaysFinal]_vars <=>
        [\A c \in Clients :
           client[c].state \in Final => client'[c].state \in Final \cup {"None", "Released"}]_vars
  BY DEF StaysFinal
<1> QED
  BY <1>1, <1>2, Inductive, PTL DEF Spec, FinalIsFinal
=============================================================================
