---------------------------- MODULE WatchProofs ----------------------------
(***************************************************************************)
(* The safety of the watch channel for any receivers, values, counter      *)
(* width and number of sends.  The inductive invariant has two halves:     *)
(* `Parked` relates the registered wakers to the futures that own them and *)
(* says where the waker of every parked future is, `Counted` relates the   *)
(* version a receiver has seen to the number of sends it has missed.       *)
(***************************************************************************)
EXTENDS Watch, TLAPS

\* Registered wakers belong to parked futures with nothing to report; a parked
\* future is scheduled, or its waker is registered or being called by `send`.
Parked ==
  /\ \A w \in wakers : /\ receiver[w[2]] = "pending" /\ pending_waker_id[w[2]] = w[1]
                       /\ version = seen[w[2]] /\ ~closed
  /\ \A r \in Receivers : receiver[r] = "pending" =>
       \/ scheduled[r]
       \/ <<pending_waker_id[r], r>> \in waking
       \/ <<pending_waker_id[r], r>> \in wakers
  /\ waking # {} => sender = "waking"

\* The version is that of the receiver plus the sends it missed, modulo 2^w.
Counted ==
  \A r \in Receivers :
    /\ unseen[r] <= sends
    /\ Alive(r) => version = (seen[r] + unseen[r]) % VersionModulus
    /\ ~Alive(r) => unseen[r] = 0

IInv == TypeOK /\ Parked /\ Counted

-----------------------------------------------------------------------------
(* Arithmetic modulo the width of the counter *)

\* The remainder is the offset into the last multiple.
LEMMA ModUnique ==
  ASSUME NEW M \in Nat \ {0}, NEW q \in Int, NEW r \in 0 .. M - 1
  PROVE  (q * M + r) % M = r
BY SMT

\* A remainder is in range.
LEMMA ModRange ==
  ASSUME NEW M \in Nat \ {0}, NEW x \in Int
  PROVE  x % M \in 0 .. M - 1
BY SMT

\* A value in range is its own remainder.
LEMMA ModSmall ==
  ASSUME NEW M \in Nat \ {0}, NEW x \in 0 .. M - 1
  PROVE  (x + 0) % M = x
BY SMT

\* Incrementing the wrapped counter of `send` is wrapping the incremented one.
LEMMA ModSucc ==
  ASSUME NEW M \in Nat \ {0, 1}, NEW x \in Int
  PROVE  ((x % M) + 1) % M = (x + 1) % M
<1> DEFINE q == x \div M
           r == x % M
<1>1. x = q * M + r /\ q \in Int /\ r \in 0 .. M - 1
  BY SMT
<1> HIDE DEF q, r
<1>2. CASE r < M - 1
  <2>1. x + 1 = q * M + (r + 1)
    BY <1>1, SMT
  <2>2. (x + 1) % M = r + 1
    BY <1>1, <1>2, <2>1, ModUnique
  <2>3. (r + 1) % M = r + 1
    BY <1>1, <1>2, SMT
  <2> QED
    BY <2>2, <2>3 DEF r
<1>3. CASE r = M - 1
  <2>1. x + 1 = (q + 1) * M + 0
    BY <1>1, <1>3, SMT
  <2>2. (x + 1) % M = 0
    BY <1>1, <2>1, ModUnique
  <2>3. (r + 1) % M = 0
    BY <1>3, SMT
  <2> QED
    BY <2>2, <2>3 DEF r
<1> QED
  BY <1>1, <1>2, <1>3

\* Fewer than M increments never lead back to the same value.
LEMMA ModDiffers ==
  ASSUME NEW M \in Nat \ {0, 1}, NEW s \in 0 .. M - 1, NEW u \in 1 .. M - 1
  PROVE  (s + u) % M # s
<1>1. CASE s + u < M
  <2>1. (0 * M + (s + u)) % M = s + u
    BY <1>1, ModUnique
  <2> QED
    BY <2>1, SMT
<1>2. CASE s + u >= M
  <2>1. (1 * M + (s + u - M)) % M = s + u - M
    BY <1>2, ModUnique
  <2>2. 1 * M + (s + u - M) = s + u
    BY SMT
  <2> QED
    BY <2>1, <2>2, SMT
<1> QED
  BY <1>1, <1>2

-----------------------------------------------------------------------------
(* The inductive invariant *)

\* `channel` establishes the invariant.
LEMMA InitIInv == Init => IInv
<1> SUFFICES ASSUME Init PROVE IInv
  OBVIOUS
<1> USE WatchAssumption
<1>1. TypeOK
  <2>1. receiver \in [Receivers -> {"absent", "idle", "pending"}]
    BY DEF Init
  <2>2. version \in 0 .. VersionModulus - 1 /\ next_waker_id \in 0 .. MaxWakerId
    BY DEF Init
  <2>3. seen \in [Receivers -> 0 .. VersionModulus - 1]
    BY DEF Init
  <2>4. pending_waker_id \in [Receivers -> 0 .. MaxWakerId]
    BY DEF Init, None
  <2>5. sends \in 0 .. MaxSends /\ unseen \in [Receivers -> 0 .. MaxSends]
    BY DEF Init
  <2> QED
    BY <2>1, <2>2, <2>3, <2>4, <2>5 DEF Init, TypeOK
<1>2. Parked
  BY DEF Init, Parked
<1>3. Counted
  <2>1. 0 % VersionModulus = 0
    BY SMT
  <2> QED
    BY <2>1 DEF Init, Counted, Alive
<1> QED
  BY <1>1, <1>2, <1>3 DEF IInv

\* Every step keeps the state in its types; the wrap of `send` keeps the version in
\* range and nobody has missed more sends than there were.
LEMMA NextTypeOK == IInv /\ [Next]_vars => TypeOK'
<1> SUFFICES ASSUME IInv, [Next]_vars PROVE TypeOK'
  OBVIOUS
<1> USE WatchAssumption DEF IInv, TypeOK, WakerIds, None, state
<1>1. ASSUME NEW v \in Values, SendUnobserved(v) PROVE TypeOK'
  BY <1>1 DEF SendUnobserved
<1>2. ASSUME NEW v \in Values, Send(v) PROVE TypeOK'
  <2>1. (version + 1) % VersionModulus \in 0 .. VersionModulus - 1
    BY ModRange
  <2>2. ASSUME NEW r \in Receivers PROVE unseen[r] + 1 \in 0 .. MaxSends
    BY <1>2, SMT DEF Send, Counted
  <2>3. unseen' \in [Receivers -> 0 .. MaxSends]
    BY <1>2, <2>2 DEF Send
  <2> QED
    BY <1>2, <2>1, <2>3 DEF Send
<1>3. CASE Wake
  BY <1>3 DEF Wake
<1>4. CASE SendReturns
  BY <1>4 DEF SendReturns
<1>5. CASE DropSender
  BY <1>5 DEF DropSender
<1>6. ASSUME NEW r \in Receivers, NEW from \in Receivers,
             NewReceiver(r) \/ CloneReceiver(r, from)
      PROVE  TypeOK'
  BY <1>6 DEF NewReceiver, CloneReceiver, Join
<1>7. ASSUME NEW r \in Receivers, DropReceiver(r) \/ Borrow(r) PROVE TypeOK'
  BY <1>7 DEF DropReceiver, Borrow
<1>8. ASSUME NEW r \in Receivers, PollReady(r) PROVE TypeOK'
  BY <1>8 DEF PollReady
<1>9. ASSUME NEW r \in Receivers, PollClosed(r) \/ CancelChanged(r) PROVE TypeOK'
  <2>1. wakers' \subseteq WakerIds \X Receivers
    BY <1>9 DEF PollClosed, CancelChanged, Unregister
  <2>2. pending_waker_id' \in [Receivers -> 0 .. MaxWakerId]
    BY <1>9 DEF PollClosed, CancelChanged
  <2> QED
    BY <1>9, <2>1, <2>2 DEF PollClosed, CancelChanged
<1>10. ASSUME NEW r \in Receivers, PollPending(r) PROVE TypeOK'
  <2>1. next_waker_id + 1 \in 1 .. MaxWakerId
    BY <1>10 DEF PollPending
  <2>2. wakers' \subseteq WakerIds \X Receivers
    BY <1>10, <2>1 DEF PollPending, Unregister
  <2>3. pending_waker_id' \in [Receivers -> 0 .. MaxWakerId]
    BY <1>10, <2>1 DEF PollPending
  <2> QED
    BY <1>10, <2>1, <2>2, <2>3 DEF PollPending
<1>11. CASE UNCHANGED vars
  BY <1>11 DEF vars
<1> QED
  BY <1>1, <1>2, <1>3, <1>4, <1>5, <1>6, <1>7, <1>8, <1>9, <1>10, <1>11 DEF Next

\* Every step keeps track of the wakers.
LEMMA NextParked == IInv /\ [Next]_vars => Parked'
<1> SUFFICES ASSUME IInv, [Next]_vars PROVE Parked'
  OBVIOUS
<1> USE WatchAssumption DEF IInv, TypeOK, Parked, state
<1>1. ASSUME NEW v \in Values, SendUnobserved(v) PROVE Parked'
  BY <1>1 DEF SendUnobserved
<1>2. ASSUME NEW v \in Values, Send(v) PROVE Parked'
  BY <1>2 DEF Send
<1>3. CASE Wake
  BY <1>3 DEF Wake
<1>4. CASE SendReturns
  BY <1>4 DEF SendReturns
<1>5. CASE DropSender
  BY <1>5 DEF DropSender
<1>6. ASSUME NEW r \in Receivers, NEW from \in Receivers,
             NewReceiver(r) \/ CloneReceiver(r, from)
      PROVE  Parked'
  BY <1>6 DEF NewReceiver, CloneReceiver, Join, Alive
<1>7. ASSUME NEW r \in Receivers, DropReceiver(r) \/ Borrow(r) PROVE Parked'
  BY <1>7 DEF DropReceiver, Borrow
<1>8. ASSUME NEW r \in Receivers, PollReady(r) PROVE Parked'
  BY <1>8 DEF PollReady, Alive
<1>9. ASSUME NEW r \in Receivers, PollClosed(r) \/ CancelChanged(r) PROVE Parked'
  BY <1>9 DEF PollClosed, CancelChanged, Unregister, Alive
<1>10. ASSUME NEW r \in Receivers, PollPending(r) PROVE Parked'
  BY <1>10 DEF PollPending, Unregister, Alive
<1>11. CASE UNCHANGED vars
  BY <1>11 DEF vars
<1> QED
  BY <1>1, <1>2, <1>3, <1>4, <1>5, <1>6, <1>7, <1>8, <1>9, <1>10, <1>11 DEF Next

\* Every step keeps the count of missed sends.
LEMMA NextCounted == IInv /\ [Next]_vars => Counted'
<1> SUFFICES ASSUME IInv, [Next]_vars PROVE Counted'
  OBVIOUS
<1> USE WatchAssumption DEF IInv, TypeOK, Counted, Alive, state
<1>1. ASSUME NEW v \in Values, SendUnobserved(v) PROVE Counted'
  BY <1>1 DEF SendUnobserved
<1>2. ASSUME NEW v \in Values, Send(v) PROVE Counted'
  <2> SUFFICES ASSUME NEW r \in Receivers
               PROVE  /\ unseen'[r] <= sends'
                      /\ Alive(r)' => version' = (seen'[r] + unseen'[r]) % VersionModulus
                      /\ ~Alive(r)' => unseen'[r] = 0
    BY DEF Alive
  <2>1. CASE Alive(r)
    <3>1. (((seen[r] + unseen[r]) % VersionModulus) + 1) % VersionModulus
            = (seen[r] + unseen[r] + 1) % VersionModulus
      BY ModSucc
    <3>0. Alive(r)'
      BY <1>2, <2>1 DEF Send
    <3>2. unseen'[r] = unseen[r] + 1 /\ seen'[r] = seen[r] /\ sends' = sends + 1
      BY <1>2, <2>1 DEF Send
    <3>3. version' = (seen[r] + unseen[r] + 1) % VersionModulus
      BY <1>2, <2>1, <3>1 DEF Send
    <3>4. seen'[r] + unseen'[r] = seen[r] + unseen[r] + 1
      BY <3>2
    <3>5. unseen[r] \in Nat /\ sends \in Nat /\ unseen[r] <= sends
      OBVIOUS
    <3>6. version' = (seen'[r] + unseen'[r]) % VersionModulus
      BY <3>3, <3>4
    <3>7. unseen'[r] <= sends'
      BY <3>2, <3>5
    <3> QED
      BY <3>0, <3>6, <3>7
  <2>2. CASE ~Alive(r)
    BY <1>2, <2>2 DEF Send
  <2> QED
    BY <2>1, <2>2
<1>3. CASE Wake \/ SendReturns \/ DropSender
  BY <1>3 DEF Wake, SendReturns, DropSender
<1>4. ASSUME NEW r \in Receivers, NEW from \in Receivers,
             NewReceiver(r) \/ CloneReceiver(r, from)
      PROVE  Counted'
  BY <1>4, ModSmall DEF NewReceiver, CloneReceiver, Join
<1>5. ASSUME NEW r \in Receivers, DropReceiver(r) \/ Borrow(r) \/ PollReady(r)
      PROVE  Counted'
  BY <1>5, ModSmall DEF DropReceiver, Borrow, PollReady
<1>6. ASSUME NEW r \in Receivers, PollClosed(r) \/ CancelChanged(r) \/ PollPending(r)
      PROVE  Counted'
  BY <1>6 DEF PollClosed, CancelChanged, PollPending
<1>7. CASE UNCHANGED vars
  BY <1>7 DEF vars
<1> QED
  BY <1>1, <1>2, <1>3, <1>4, <1>5, <1>6, <1>7 DEF Next

\* The invariant holds throughout.
THEOREM Inductive == Spec => []IInv
<1>1. Init => IInv
  BY InitIInv
<1>2. IInv /\ [Next]_vars => IInv'
  BY NextTypeOK, NextParked, NextCounted DEF IInv
<1> QED
  BY <1>1, <1>2, PTL DEF Spec

\* The channel's state stays in its types: in particular `version` wraps in its width.
THEOREM TypeCorrect == Spec => []TypeOK
<1>1. IInv => TypeOK
  BY DEF IInv
<1> QED
  BY <1>1, Inductive, PTL

\* No wake-up is lost: a parked future with something to report is scheduled, or
\* `send` still holds its waker, for any number of receivers and any interleaving
\* of polls, cancellations, clones and drops with the calls outside the lock.
THEOREM WakeupsAreKept == Spec => []NoLostWakeup
<1>1. IInv => NoLostWakeup
  BY DEF IInv, Parked, NoLostWakeup, HasNews
<1> QED
  BY <1>1, Inductive, PTL

\* No waker is leaked by cancelling, repolling or dropping.
THEOREM WakersAreOwned == Spec => []NoLeakedWaker
<1>1. IInv => NoLeakedWaker
  BY DEF IInv, Parked, NoLeakedWaker
<1> QED
  BY <1>1, Inductive, PTL

\* A receiver that missed fewer than 2^w sends sees a different version.
THEOREM UpdatesAreNoticed == Spec => []UpdateIsNoticed
<1>1. IInv => UpdateIsNoticed
  <2> SUFFICES ASSUME IInv, NEW r \in Receivers, unseen[r] \in 1 .. VersionModulus - 1
               PROVE  version # seen[r]
    BY DEF UpdateIsNoticed
  <2>1. version = (seen[r] + unseen[r]) % VersionModulus
    BY DEF IInv, Counted, TypeOK
  <2>2. seen[r] \in 0 .. VersionModulus - 1
    BY DEF IInv, TypeOK
  <2> QED
    BY <2>1, <2>2, ModDiffers, WatchAssumption
<1> QED
  BY <1>1, Inductive, PTL
=============================================================================
