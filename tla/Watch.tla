------------------------------- MODULE Watch -------------------------------
(***************************************************************************)
(* The watch channel of crates/watch: one Sender, any number of Receivers, *)
(* a single shared value behind a read-write lock.  A receiver waits for a *)
(* change with the future `Changed`, which registers a waker under the     *)
(* lock; `send` bumps the version and takes the registered wakers under    *)
(* the lock, but calls them after releasing it, so polls, cancellations,   *)
(* clones and drops of other threads interleave with the wake-ups.         *)
(***************************************************************************)
EXTENDS Integers, FiniteSets

CONSTANTS
  Receivers,       \* identities of Receiver handles, each polled by one task
  Values,          \* what can be sent
  VersionModulus,  \* 2^w for the w-bit `version`, which wraps
  MaxSends,        \* bound on the number of `send` calls
  MaxWakerId       \* bound on the number of waker registrations

ASSUME WatchAssumption ==
  /\ VersionModulus \in Nat \ {0, 1}
  /\ MaxSends \in Nat
  /\ MaxWakerId \in Nat
  /\ Values # {}

VARIABLES
  value, version, closed,   \* State<T>
  wakers,                   \* State<T>.wakers, a set of <<waker id, receiver>>
  next_waker_id,
  sender,                   \* "idle", "waking" (inside send, lock released), "dropped"
  waking,                   \* wakers taken by `send` and not called yet
  receiver,                 \* "absent", "idle" or "pending" (a Changed future is alive)
  seen,                     \* Receiver.version
  pending_waker_id,         \* Changed.pending_waker_id; 0 stands for None
  scheduled,                \* the receiver's task is due to be polled
  sends,                    \* number of sends so far (bounds the model)
  unseen                    \* history: sends since the receiver last looked

state == <<value, version, closed, wakers, next_waker_id>>
vars == <<state, sender, waking, receiver, seen, pending_waker_id,
          scheduled, sends, unseen>>

None == 0
WakerIds == 1 .. MaxWakerId

TypeOK ==
  /\ value \in Values /\ version \in 0 .. VersionModulus - 1 /\ closed \in BOOLEAN
  /\ wakers \subseteq WakerIds \X Receivers
  /\ next_waker_id \in 0 .. MaxWakerId
  /\ sender \in {"idle", "waking", "dropped"}
  /\ waking \subseteq WakerIds \X Receivers
  /\ receiver \in [Receivers -> {"absent", "idle", "pending"}]
  /\ seen \in [Receivers -> 0 .. VersionModulus - 1]
  /\ pending_waker_id \in [Receivers -> 0 .. MaxWakerId]
  /\ scheduled \in [Receivers -> BOOLEAN]
  /\ sends \in 0 .. MaxSends
  /\ unseen \in [Receivers -> 0 .. MaxSends]

\* `channel`: the sender and one receiver share the initial value.
Init ==
  /\ value \in Values /\ version = 0 /\ closed = FALSE
  /\ wakers = {} /\ next_waker_id = 0
  /\ sender = "idle" /\ waking = {}
  /\ \E r \in Receivers :
       receiver = [q \in Receivers |-> IF q = r THEN "idle" ELSE "absent"]
  /\ seen = [r \in Receivers |-> 0]
  /\ pending_waker_id = [r \in Receivers |-> None]
  /\ scheduled = [r \in Receivers |-> FALSE]
  /\ sends = 0
  /\ unseen = [r \in Receivers |-> 0]

Alive(r) == receiver[r] # "absent"

-----------------------------------------------------------------------------
(* Sender *)

\* `Arc::get_mut` succeeds: no receiver holds the state.
SendUnobserved(v) ==
  /\ sender = "idle" /\ sends < MaxSends
  /\ \A r \in Receivers : ~Alive(r)
  /\ value' = v
  /\ sends' = sends + 1
  /\ UNCHANGED <<version, closed, wakers, next_waker_id, sender, waking, receiver,
                 seen, pending_waker_id, scheduled, unseen>>

\* Mutant: `version + 1` without the wrap.
SendNoWrap(v) ==
  /\ sender = "idle" /\ sends < MaxSends
  /\ \E r \in Receivers : Alive(r)
  /\ value' = v /\ version' = version + 1
  /\ waking' = wakers /\ wakers' = {}
  /\ sender' = "waking" /\ sends' = sends + 1
  /\ unseen' = [r \in Receivers |-> IF Alive(r) THEN unseen[r] + 1 ELSE 0]
  /\ UNCHANGED <<closed, next_waker_id, receiver, seen, pending_waker_id, scheduled>>

\* The critical section of `send`: the wakers leave the state with the lock held.
Send(v) ==
  /\ sender = "idle" /\ sends < MaxSends
  /\ \E r \in Receivers : Alive(r)
  /\ value' = v
  /\ version' = (version + 1) % VersionModulus
  /\ waking' = wakers
  /\ wakers' = {}
  /\ sender' = "waking"
  /\ sends' = sends + 1
  /\ unseen' = [r \in Receivers |-> IF Alive(r) THEN unseen[r] + 1 ELSE 0]
  /\ UNCHANGED <<closed, next_waker_id, receiver, seen, pending_waker_id, scheduled>>

\* `waker.wake()` for the waker with the smallest id, outside the lock.
Wake ==
  /\ sender = "waking"
  /\ \E w \in waking :
       /\ \A x \in waking : w[1] <= x[1]
       /\ waking' = waking \ {w}
       /\ scheduled' = [scheduled EXCEPT ![w[2]] = TRUE]
  /\ UNCHANGED <<state, sender, receiver, seen, pending_waker_id, sends, unseen>>

SendReturns ==
  /\ sender = "waking" /\ waking = {}
  /\ sender' = "idle"
  /\ UNCHANGED <<state, waking, receiver, seen, pending_waker_id, scheduled, sends, unseen>>

\* Mutant: the sender closes the channel and forgets to wake anybody.
DropSenderSilently ==
  /\ sender = "idle"
  /\ sender' = "dropped" /\ closed' = TRUE /\ wakers' = {}
  /\ UNCHANGED <<value, version, next_waker_id, waking, receiver, seen,
                 pending_waker_id, scheduled, sends, unseen>>

\* `Drop for Sender` wakes everybody with the lock held.
DropSender ==
  /\ sender = "idle"
  /\ sender' = "dropped"
  /\ closed' = TRUE
  /\ wakers' = {}
  /\ scheduled' = [r \in Receivers |-> scheduled[r] \/ \E w \in wakers : w[2] = r]
  /\ UNCHANGED <<value, version, next_waker_id, waking, receiver, seen,
                 pending_waker_id, sends, unseen>>

-----------------------------------------------------------------------------
(* Receivers *)

Join(r, v, u) ==
  /\ receiver' = [receiver EXCEPT ![r] = "idle"]
  /\ seen' = [seen EXCEPT ![r] = v]
  /\ unseen' = [unseen EXCEPT ![r] = u]
  /\ UNCHANGED <<state, sender, waking, pending_waker_id, scheduled, sends>>

\* `Sender::receiver`: starts at the current version.
NewReceiver(r) ==
  /\ ~Alive(r) /\ sender = "idle"
  /\ Join(r, version, 0)

\* Mutant: a clone starts at the current version instead of the original's.
CloneAtCurrent(r, from) ==
  /\ ~Alive(r) /\ receiver[from] = "idle"
  /\ Join(r, version, unseen[from])

\* `Clone for Receiver`: copies the version the original has seen.
CloneReceiver(r, from) ==
  /\ ~Alive(r) /\ receiver[from] = "idle"
  /\ Join(r, seen[from], unseen[from])

DropReceiver(r) ==
  /\ receiver[r] = "idle"
  /\ receiver' = [receiver EXCEPT ![r] = "absent"]
  /\ unseen' = [unseen EXCEPT ![r] = 0]
  /\ UNCHANGED <<state, sender, waking, seen, pending_waker_id, scheduled, sends>>

Borrow(r) ==
  /\ receiver[r] = "idle"
  /\ seen' = [seen EXCEPT ![r] = version]
  /\ unseen' = [unseen EXCEPT ![r] = 0]
  /\ UNCHANGED <<state, sender, waking, receiver, pending_waker_id, scheduled, sends>>

\* Mutant: `>` instead of `!=`, which a wrapped version fails.
PollReadyNewer(r) ==
  /\ Alive(r) /\ version > seen[r]
  /\ receiver' = [receiver EXCEPT ![r] = "idle"]
  /\ seen' = [seen EXCEPT ![r] = version]
  /\ unseen' = [unseen EXCEPT ![r] = 0]
  /\ pending_waker_id' = [pending_waker_id EXCEPT ![r] = None]
  /\ scheduled' = [scheduled EXCEPT ![r] = FALSE]
  /\ UNCHANGED <<state, sender, waking, sends>>

\* `Changed::poll` finds a new version.  `pending_waker_id` is cleared without
\* touching the wakers: the sender has already removed ours.
PollReady(r) ==
  /\ Alive(r) /\ version # seen[r]
  /\ receiver' = [receiver EXCEPT ![r] = "idle"]
  /\ seen' = [seen EXCEPT ![r] = version]
  /\ unseen' = [unseen EXCEPT ![r] = 0]
  /\ pending_waker_id' = [pending_waker_id EXCEPT ![r] = None]
  /\ scheduled' = [scheduled EXCEPT ![r] = FALSE]
  /\ UNCHANGED <<state, sender, waking, sends>>

Unregister(r) == wakers \ {<<pending_waker_id[r], r>>}

\* `Changed::poll` finds the channel closed; dropping the future unregisters.
PollClosed(r) ==
  /\ Alive(r) /\ version = seen[r] /\ closed
  /\ receiver' = [receiver EXCEPT ![r] = "idle"]
  /\ wakers' = Unregister(r)
  /\ pending_waker_id' = [pending_waker_id EXCEPT ![r] = None]
  /\ scheduled' = [scheduled EXCEPT ![r] = FALSE]
  /\ UNCHANGED <<value, version, closed, next_waker_id, sender, waking, seen, sends, unseen>>

\* `Changed::poll` finds nothing new: replaces its waker and parks.  It runs on
\* the first poll, after a wake-up and on a spurious poll alike.
PollPending(r) ==
  /\ Alive(r) /\ version = seen[r] /\ ~closed
  /\ next_waker_id < MaxWakerId
  /\ next_waker_id' = next_waker_id + 1
  /\ wakers' = Unregister(r) \cup {<<next_waker_id + 1, r>>}
  /\ pending_waker_id' = [pending_waker_id EXCEPT ![r] = next_waker_id + 1]
  /\ receiver' = [receiver EXCEPT ![r] = "pending"]
  /\ scheduled' = [scheduled EXCEPT ![r] = FALSE]
  /\ UNCHANGED <<value, version, closed, sender, waking, seen, sends, unseen>>

\* Mutant: no `Drop for Changed`.
CancelWithoutDrop(r) ==
  /\ receiver[r] = "pending"
  /\ receiver' = [receiver EXCEPT ![r] = "idle"]
  /\ pending_waker_id' = [pending_waker_id EXCEPT ![r] = None]
  /\ UNCHANGED <<state, sender, waking, seen, scheduled, sends, unseen>>

\* `Drop for Changed` before completion: a select! took another branch.
CancelChanged(r) ==
  /\ receiver[r] = "pending"
  /\ receiver' = [receiver EXCEPT ![r] = "idle"]
  /\ wakers' = Unregister(r)
  /\ pending_waker_id' = [pending_waker_id EXCEPT ![r] = None]
  /\ UNCHANGED <<value, version, closed, next_waker_id, sender, waking, seen,
                 scheduled, sends, unseen>>

-----------------------------------------------------------------------------
Poll(r) == PollReady(r) \/ PollClosed(r) \/ PollPending(r)

Next ==
  \/ \E v \in Values : SendUnobserved(v) \/ Send(v)
  \/ Wake \/ SendReturns \/ DropSender
  \/ \E r \in Receivers :
       \/ NewReceiver(r) \/ DropReceiver(r) \/ Borrow(r)
       \/ PollReady(r) \/ PollClosed(r) \/ PollPending(r) \/ CancelChanged(r)
       \/ \E from \in Receivers : CloneReceiver(r, from)

Spec == Init /\ [][Next]_vars

\* A send in progress finishes, and the executor polls a task that was woken
\* while its future is alive.  Nobody has to send, cancel or drop.
Fairness ==
  /\ WF_vars(Wake) /\ WF_vars(SendReturns)
  /\ \A r \in Receivers : WF_vars(scheduled[r] /\ receiver[r] = "pending" /\ Poll(r))

FairSpec == Spec /\ Fairness

-----------------------------------------------------------------------------
\* Something for the receiver's future to report.
HasNews(r) == version # seen[r] \/ closed

\* No lost wake-up: a parked future that has something to report is either
\* already scheduled or its waker is among those `send` is still calling.
NoLostWakeup ==
  \A r \in Receivers :
    receiver[r] = "pending" /\ HasNews(r)
      => scheduled[r] \/ <<pending_waker_id[r], r>> \in waking

\* No leaked waker: every registered waker belongs to a live future that still
\* remembers its id, so the assertion in `send` that no wakers are left when
\* there is no receiver holds, whatever was cancelled, dropped or polled twice.
NoLeakedWaker ==
  \A w \in wakers : receiver[w[2]] = "pending" /\ pending_waker_id[w[2]] = w[1]

\* A receiver that has not looked since the last send can tell, across the wrap
\* of the version counter, as long as it missed fewer than 2^w sends: its version
\* differs from the channel's.
UpdateIsNoticed ==
  \A r \in Receivers : unseen[r] \in 1 .. VersionModulus - 1 => version # seen[r]

\* A parked future whose channel changed or closed is eventually resolved or
\* cancelled by its owner, unless the version wraps round to the one it has seen.
ChangeIsDelivered ==
  \A r \in Receivers :
    (receiver[r] = "pending" /\ HasNews(r)) ~> (receiver[r] # "pending" \/ ~HasNews(r))
=============================================================================
