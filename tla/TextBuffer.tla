----------------------------- MODULE TextBuffer -----------------------------
(***************************************************************************)
(* The replicated text buffer: crates/text/src/text.rs with its undo map   *)
(* (undo_map.rs), operation queue (operation_queue.rs) and clocks          *)
(* (crates/clock/src/clock.rs).                                            *)
(*                                                                         *)
(* Every replica holds the whole text as a sequence of fragments, deleted  *)
(* ones included, edits it locally at once and sends the operation to its  *)
(* peers, which apply it at the place it had in the version it was made    *)
(* in.  Operations reach a replica in any order, in any batches and any    *)
(* number of times.                                                        *)
(*                                                                         *)
(* A fragment is one character here; the code keeps runs of characters and *)
(* splits them, which changes no order and no visibility.  The text of an  *)
(* insertion is only its length: a character is identified by the edit     *)
(* that inserted it and its offset there.                                  *)
(***************************************************************************)
EXTENDS Naturals, Sequences, FiniteSets, FiniteSetsExt, SequencesExt

CONSTANTS
    Replicas,    \* replica ids, compared to break ties; 0 is ReplicaId::LOCAL
    BaseLength,  \* characters of the text every replica starts with
    MaxInsert,   \* characters one range of an edit inserts, at most
    MaxRanges,   \* ranges of one edit, at most
    MaxOps,      \* operations a replica makes, at most
    MaxWaits,    \* waits open at a replica, at most
    MaxOpened    \* transactions a replica opens around its edits, at most

ASSUME ReplicasAssumption == Replicas \subseteq Nat /\ 0 \in Replicas
ASSUME BoundsAssumption ==
    /\ {BaseLength, MaxInsert, MaxRanges} \subseteq Nat
    /\ {MaxOps, MaxWaits, MaxOpened} \subseteq [Replicas -> Nat]

VARIABLES
    fragments,          \* [Replicas -> Seq(fragment)]
    version,            \* [Replicas -> version vector]: the operations applied
    lamport_clock,      \* [Replicas -> value of the next timestamp]
    undo_map,           \* [Replicas -> set of [edit, undo, count]]
    deferred_ops,       \* [Replicas -> set of operations]
    deferred_replicas,  \* [Replicas -> set of replicas]
    history,            \* [Replicas -> undo and redo stacks, transaction depth]
    waits,              \* [Replicas -> versions and edits waited for]
    ops,                \* every operation made so far: what can be delivered
    delivered           \* [Replicas -> operations the network has delivered]

vars == <<fragments, version, lamport_clock, undo_map, deferred_ops,
          deferred_replicas, history, waits, ops, delivered>>

-----------------------------------------------------------------------------
(* Clocks.  A timestamp is <<value, replica>>.                             *)

Later(t, u) == t[1] > u[1] \/ (t[1] = u[1] /\ t[2] > u[2])

observed(v, t) == v[t[2]] >= t[1]

observed_all(v, w) == \A q \in Replicas : v[q] >= w[q]

observe(v, t) == [v EXCEPT ![t[2]] = Max({@, t[1]})]

-----------------------------------------------------------------------------
(* The undo map and what it makes of a fragment.                           *)

MaxCount(undos) == Max({0} \cup {u.count : u \in undos})

\* Mutant: the count of the first undo is taken.
undo_count_first(undos, e) == IF \E u \in undos : u.edit = e THEN 1 ELSE 0

undo_count(undos, e) == MaxCount({u \in undos : u.edit = e})

is_undone(undos, e) == undo_count(undos, e) % 2 = 1

was_undone(undos, e, v) ==
    MaxCount({u \in undos : u.edit = e /\ observed(v, u.undo)}) % 2 = 1

is_visible(f, undos) ==
    /\ ~ is_undone(undos, f.timestamp)
    /\ \A d \in f.deletions : is_undone(undos, d)

was_visible(f, v, undos) ==
    /\ observed(v, f.timestamp)
    /\ ~ was_undone(undos, f.timestamp, v)
    /\ \A d \in f.deletions : observed(v, d) => was_undone(undos, d, v)

-----------------------------------------------------------------------------
(* Editing a sequence of fragments.                                        *)

Fragment(t, off) ==
    [timestamp |-> t, offset |-> off, deletions |-> {}, visible |-> TRUE]

\* The members of the finite set S in the order R, a set of pairs <<earlier, later>>.
InOrder(S, R) ==
    [n \in 1..Cardinality(S) |-> CHOOSE x \in S : Cardinality({y \in S : <<y, x>> \in R}) = n - 1]

\* The characters an edit inserts: <<k, j>> is the j-th one of its k-th range.
NewText(ranges) == UNION {{k} \X (1..ranges[k].len) : k \in DOMAIN ranges}

\* Offsets run on through the ranges of one operation.
insertion_offset(ranges, k, j) ==
    Cardinality({x \in NewText(ranges) : x[1] < k \/ (x[1] = k /\ x[2] < j)})

push_fragments_for_insertion(t, ranges, k, j) == Fragment(t, insertion_offset(ranges, k, j))

delete(f, t) == [f EXCEPT !.deletions = @ \cup {t}, !.visible = FALSE]

\* Where a fragment comes in the result of an edit: <<i, 0, 0>> for the i-th one so
\* far, <<gap, k, j>> for a new one, which goes behind the first gap fragments.
Places(fs, ranges, gaps) ==
    {<<i, 0, 0>> : i \in DOMAIN fs} \cup {<<gaps[x[1]], x[1], x[2]>> : x \in NewText(ranges)}

PlaceBefore(x, y) ==
    \/ x[1] < y[1]
    \/ x[1] = y[1] /\ x[2] < y[2]
    \/ x[1] = y[1] /\ x[2] = y[2] /\ x[3] < y[3]

\* The fragment at a place after an edit t that deletes those at the indices in dels.
FragmentAt(x, fs, t, ranges, dels) ==
    IF x[2] > 0 THEN push_fragments_for_insertion(t, ranges, x[2], x[3])
    ELSE IF x[1] \in dels THEN delete(fs[x[1]], t)
    ELSE fs[x[1]]

\* The fragments fs after the edit: the text of the k-th range is behind the first
\* gaps[k] of them.
Spliced(fs, t, ranges, gaps, dels) ==
    LET places == Places(fs, ranges, gaps)
        order  == InOrder(places, {z \in places \X places : PlaceBefore(z[1], z[2])})
    IN  [n \in DOMAIN order |-> FragmentAt(order[n], fs, t, ranges, dels)]

\* How many of the first i fragments are visible, and how many are known in
\* a version (the full offset in that version).
VisibleBefore(fs, i) == Cardinality({j \in 1..i : fs[j].visible})
\* Mutant: offsets count the fragments the version does not know.
FullOffsetNow(fs, v, i) == i

FullOffset(fs, v, i) == Cardinality({j \in 1..i : observed(v, fs[j].timestamp)})

\* A local edit's gap: past every fragment that ends at the offset (a seek
\* with Bias::Right), so behind the deleted text there.
RightGap(fs, offset) == Max({i \in 0..Len(fs) : VisibleBefore(fs, i) <= offset})

\* For a range that is not the first one, the cursor may already stand on the
\* fragment that ends at the offset; whether it does depends on how the text
\* is split into runs.  The new text then goes in front of the deleted text.
LeftGap(fs, offset) == Min({i \in 0..Len(fs) : VisibleBefore(fs, i) = offset})

\* Mutant: concurrent insertions are not skipped.
RemoteGapNoSkip(fs, v, t, start) == Min({i \in 0..Len(fs) : FullOffset(fs, v, i) = start})

\* A remote edit's gap: right behind the last fragment before the range in
\* the version of the edit, then past concurrent insertions with a higher
\* timestamp.
RemoteGap(fs, v, t, start) ==
    LET first == Min({i \in 0..Len(fs) : FullOffset(fs, v, i) = start \/ i = Len(fs)})
    IN  Max({i \in first..Len(fs) :
                \A j \in (first + 1)..i : Later(fs[j].timestamp, t)})

apply_remote_edit(fs, undos, op) ==
    LET In(g, i) == /\ FullOffset(fs, op.version, i - 1) >= g.start
                    /\ FullOffset(fs, op.version, i) <= g.end
                    /\ observed(op.version, fs[i].timestamp)
                    /\ was_visible(fs[i], op.version, undos)
        gaps == [k \in DOMAIN op.ranges |->
                   RemoteGap(fs, op.version, op.timestamp, op.ranges[k].start)]
        dels == {i \in DOMAIN fs : \E k \in DOMAIN op.ranges : In(op.ranges[k], i)}
    IN  Spliced(fs, op.timestamp, op.ranges, gaps, dels)

\* Mutant: only the text the undone edits inserted is looked at.
apply_undo_inserted(fs, undos, op) ==
    [i \in DOMAIN fs |->
       IF \E c \in op.counts : c.edit = fs[i].timestamp
       THEN [fs[i] EXCEPT !.visible = is_visible(fs[i], undos)] ELSE fs[i]]

\* Recomputes the cached visibility of the fragments the undone edits
\* inserted or deleted, which insertion_slices finds.
apply_undo(fs, undos, op) ==
    LET edits == {c.edit : c \in op.counts}
    IN  [i \in DOMAIN fs |->
           IF fs[i].timestamp \in edits \/ fs[i].deletions \cap edits # {}
           THEN [fs[i] EXCEPT !.visible = is_visible(fs[i], undos)]
           ELSE fs[i]]

UndoMapInsert(undos, op) ==
    undos \cup {[edit |-> c.edit, undo |-> op.timestamp, count |-> c.count] : c \in op.counts}

-----------------------------------------------------------------------------
(* Applying operations.  A buffer is the part of a replica's state that    *)
(* operations change.                                                      *)

Buffer(r) ==
    [fragments |-> fragments[r], version |-> version[r],
     clock |-> lamport_clock[r], undos |-> undo_map[r],
     deferred |-> deferred_ops[r], late |-> deferred_replicas[r],
     edits |-> waits[r].edits, versions |-> waits[r].versions]

\* Mutant: what an operation depends on is not waited for.
can_apply_op_early(b, op) == op.timestamp[2] \notin b.late

can_apply_op(b, op) ==
    op.timestamp[2] \notin b.late /\ observed_all(b.version, op.version)

\* Mutant: the clock does not move past the operation.
AppliedNoClock(b, op) ==
    LET undos == IF op.kind = "Undo" THEN UndoMapInsert(b.undos, op) ELSE b.undos
    IN  [b EXCEPT
           !.fragments = IF op.kind = "Undo" THEN apply_undo(@, undos, op)
                                             ELSE apply_remote_edit(@, undos, op),
           !.undos   = undos,
           !.version = observe(@, op.timestamp),
           !.edits   = IF op.kind = "Edit" THEN @ \ {op.timestamp} ELSE @]

Applied(b, op) ==
    LET undos == IF op.kind = "Undo" THEN UndoMapInsert(b.undos, op) ELSE b.undos
    IN  [b EXCEPT
           !.fragments = IF op.kind = "Undo" THEN apply_undo(@, undos, op)
                                             ELSE apply_remote_edit(@, undos, op),
           !.undos   = undos,
           !.version = observe(@, op.timestamp),
           !.clock   = Max({@, op.timestamp[1]}) + 1,
           !.edits   = IF op.kind = "Edit" THEN @ \ {op.timestamp} ELSE @]

apply_op(b, op) ==
    LET c == IF observed(b.version, op.timestamp) THEN b ELSE Applied(b, op)
    IN  [c EXCEPT !.versions = {w \in @ : ~ observed_all(c.version, w)}]

apply_or_defer(b, op) ==
    IF can_apply_op(b, op)
    THEN apply_op(b, op)
    ELSE [b EXCEPT !.late = @ \cup {op.timestamp[2]}, !.deferred = @ \cup {op}]

\* The operations of a queue in the order of their timestamps.
OperationQueue(queued) ==
    InOrder(queued, {z \in queued \X queued : Later(z[2].timestamp, z[1].timestamp)})

\* Mutant: the queue is drained from its end.
flush_from_end(b) ==
    FoldLeft(apply_or_defer, [b EXCEPT !.late = {}, !.deferred = {}],
             Reverse(OperationQueue(b.deferred)))

flush_deferred_ops(b) ==
    FoldLeft(apply_or_defer, [b EXCEPT !.late = {}, !.deferred = {}],
             OperationQueue(b.deferred))

\* Mutant: the queue is not looked at again.
apply_ops_no_flush(b, batch) == FoldLeft(apply_or_defer, b, batch)

apply_ops(b, batch) == flush_deferred_ops(FoldLeft(apply_or_defer, b, batch))

-----------------------------------------------------------------------------
(* The history of transactions: what undo and redo work on.                *)

\* An edit or an explicit start opens a transaction when none is open.
start_transaction(h) ==
    [h EXCEPT !.undo_stack = IF h.depth = 0 THEN Append(@, {}) ELSE @,
              !.depth = @ + 1]

\* The transactions that history.group merges were made within group_interval
\* of each other; n is how many of them that is.
group_trailing(stack, n) ==
    LET keep == Len(stack) - n
    IN  Append(SubSeq(stack, 1, keep - 1), UNION {stack[i] : i \in keep..Len(stack)})

end_transaction(h, n) ==
    LET d == [h EXCEPT !.depth = @ - 1]
    IN  IF d.depth > 0 THEN d
        ELSE IF Last(d.undo_stack) = {} THEN [d EXCEPT !.undo_stack = Front(@)]
        ELSE [d EXCEPT !.redo_stack = <<>>, !.undo_stack = group_trailing(@, n)]

push_undo(h, t) ==
    [h EXCEPT !.undo_stack[Len(h.undo_stack)] = @ \cup {t}]

-----------------------------------------------------------------------------
(* The operations of a replica.                                            *)

Made(r) == Cardinality({o \in ops : o.timestamp[2] = r})

\* The edits a caller may ask for: ranges in visible offsets, in order and
\* apart, each of which deletes or inserts something.  Buffer::edit coalesces
\* ranges that touch; edit_non_coalesce, which does not, is left out.
EditRange(fs) ==
    LET n == VisibleBefore(fs, Len(fs))
    IN  {g \in [start : 0..n, end : 0..n, len : 0..MaxInsert] :
            g.start <= g.end /\ (g.start < g.end \/ g.len > 0)}

Edits(fs) ==
    {e \in UNION {[1..k -> EditRange(fs)] : k \in 1..MaxRanges} :
        \A i, j \in DOMAIN e : i < j => e[i].end < e[j].start}

edit(r) ==
    \E e \in Edits(fragments[r]), n \in 0..Len(history[r].undo_stack) :
        LET fs    == fragments[r]
            value == lamport_clock[r] + (IF history[r].depth = 0 THEN 1 ELSE 0)
            t     == <<value, r>>
            Gaps(k) == IF k = 1 THEN {RightGap(fs, e[k].start)}
                       ELSE {RightGap(fs, e[k].start), LeftGap(fs, e[k].start)}
            dels  == {i \in DOMAIN fs :
                        fs[i].visible /\ \E k \in DOMAIN e :
                            VisibleBefore(fs, i - 1) \in e[k].start..(e[k].end - 1)}
            RangeEnd(k, gap) == Max({gap} \cup
                        {i \in dels : VisibleBefore(fs, i) <= e[k].end})
        IN  /\ Made(r) < MaxOps[r]
            /\ history[r].depth > 0 => n = 0
            /\ \E gaps \in [DOMAIN e -> 0..Len(fs)] :
                 /\ \A k \in DOMAIN e : gaps[k] \in Gaps(k)
                 /\ fragments' = [fragments EXCEPT ![r] = Spliced(fs, t, e, gaps, dels)]
                 /\ ops' = ops \cup
                      {[kind |-> "Edit", timestamp |-> t, version |-> version[r],
                        ranges |-> [k \in DOMAIN e |->
                           [start |-> gaps[k], end |-> RangeEnd(k, gaps[k]), len |-> e[k].len]]]}
            /\ lamport_clock' = [lamport_clock EXCEPT ![r] = value + 1]
            /\ version' = [version EXCEPT ![r] = observe(@, t)]
            /\ history' = [history EXCEPT ![r] =
                             end_transaction(push_undo(start_transaction(@), t), n)]
            /\ UNCHANGED <<undo_map, deferred_ops, deferred_replicas, waits, delivered>>

\* Only the outermost start and end of a transaction; a nested pair changes the
\* depth alone.
StartTransaction(r) ==
    /\ history[r].depth = 0
    /\ history[r].opened < MaxOpened[r] /\ Made(r) < MaxOps[r]
    /\ history' = [history EXCEPT
                     ![r] = [start_transaction(history[r]) EXCEPT !.opened = @ + 1]]
    /\ lamport_clock' = [lamport_clock EXCEPT ![r] = @ + 1]
    /\ UNCHANGED <<fragments, version, undo_map, deferred_ops, deferred_replicas, waits,
                   ops, delivered>>

EndTransaction(r) ==
    /\ history[r].depth > 0
    /\ \E n \in 0..(Len(history[r].undo_stack) - 1) :
          history' = [history EXCEPT ![r] = end_transaction(@, n)]
    /\ UNCHANGED <<fragments, version, lamport_clock, undo_map, deferred_ops,
                   deferred_replicas, waits, ops, delivered>>

\* Undo and redo: one more undo of every edit of the transaction (the code's u32
\* count would saturate after 2^32 - 1 of them; here it has no limit).
undo_or_redo(r, transaction) ==
    LET t  == <<lamport_clock[r], r>>
        op == [kind |-> "Undo", timestamp |-> t, version |-> version[r],
               counts |-> {[edit |-> e, count |-> undo_count(undo_map[r], e) + 1] :
                             e \in transaction}]
        undos == UndoMapInsert(undo_map[r], op)
    IN  /\ Made(r) < MaxOps[r]
        /\ lamport_clock' = [lamport_clock EXCEPT ![r] = @ + 1]
        /\ version' = [version EXCEPT ![r] = observe(@, t)]
        /\ undo_map' = [undo_map EXCEPT ![r] = undos]
        /\ fragments' = [fragments EXCEPT ![r] = apply_undo(@, undos, op)]
        /\ ops' = ops \cup {op}
        /\ UNCHANGED <<deferred_ops, deferred_replicas, waits, delivered>>

\* The i-th transaction of the undo stack moves to the redo stack.
undo_transaction(r, i) ==
    LET h == history[r] IN
    /\ h.depth = 0
    /\ history' = [history EXCEPT ![r] =
                     [h EXCEPT !.undo_stack = RemoveAt(@, i),
                               !.redo_stack = Append(@, h.undo_stack[i])]]
    /\ undo_or_redo(r, h.undo_stack[i])

\* The last one; undo_to_transaction and redo_to_transaction repeat undo and redo.
undo(r) ==
    history[r].undo_stack # <<>> /\ undo_transaction(r, Len(history[r].undo_stack))

redo(r) ==
    LET h == history[r] IN
    /\ h.depth = 0 /\ h.redo_stack # <<>>
    /\ history' = [history EXCEPT ![r] =
                     [h EXCEPT !.redo_stack = Front(@),
                               !.undo_stack = Append(@, Last(h.redo_stack))]]
    /\ undo_or_redo(r, Last(h.redo_stack))

\* A batch of operations is applied.
Deliver(r, batch) ==
    \E b \in {apply_ops(Buffer(r), batch)} :
        /\ fragments' = [fragments EXCEPT ![r] = b.fragments]
        /\ version' = [version EXCEPT ![r] = b.version]
        /\ lamport_clock' = [lamport_clock EXCEPT ![r] = b.clock]
        /\ undo_map' = [undo_map EXCEPT ![r] = b.undos]
        /\ deferred_ops' = [deferred_ops EXCEPT ![r] = b.deferred]
        /\ deferred_replicas' = [deferred_replicas EXCEPT ![r] = b.late]
        /\ waits' = [waits EXCEPT ![r].edits = b.edits, ![r].versions = b.versions]
        /\ delivered' = [delivered EXCEPT ![r] = @ \cup ToSet(batch)]
        /\ UNCHANGED <<history, ops>>

\* Any operations of the other replicas arrive, one or two at a time, in any
\* order, again or for the first time.
Receive(r) ==
    LET others == {o \in ops : o.timestamp[2] # r}
    IN  \E o \in others, p \in others :
            Deliver(r, IF o = p THEN <<o>> ELSE <<o, p>>)

Waiting(r) == Cardinality(waits[r].edits) + Cardinality(waits[r].versions)

\* A caller waits for an edit, or for the version a peer says it has.
wait_for_edits(r, t) ==
    /\ Waiting(r) < MaxWaits[r]
    /\ ~ observed(version[r], t)
    /\ waits' = [waits EXCEPT ![r].edits = @ \cup {t}]
    /\ UNCHANGED <<fragments, version, lamport_clock, undo_map, deferred_ops,
                   deferred_replicas, history, ops, delivered>>

wait_for_version(r, v) ==
    /\ Waiting(r) < MaxWaits[r]
    /\ ~ observed_all(version[r], v)
    /\ waits' = [waits EXCEPT ![r].versions = @ \cup {v}]
    /\ UNCHANGED <<fragments, version, lamport_clock, undo_map, deferred_ops,
                   deferred_replicas, history, ops, delivered>>

give_up_waiting(r) ==
    /\ Waiting(r) > 0
    /\ waits' = [waits EXCEPT ![r].edits = {}, ![r].versions = {}]
    /\ UNCHANGED <<fragments, version, lamport_clock, undo_map, deferred_ops,
                   deferred_replicas, history, ops, delivered>>

-----------------------------------------------------------------------------
NoVersion == [q \in Replicas |-> 0]

\* Every replica opens the same text, inserted by timestamp 1 of LOCAL.
Init ==
    LET base  == <<1, 0>>
        start == IF BaseLength = 0 THEN NoVersion ELSE observe(NoVersion, base)
    IN  /\ fragments = [r \in Replicas |-> [i \in 1..BaseLength |-> Fragment(base, i - 1)]]
        /\ version = [r \in Replicas |-> start]
        /\ lamport_clock = [r \in Replicas |-> IF BaseLength = 0 THEN 1 ELSE 2]
        /\ undo_map = [r \in Replicas |-> {}]
        /\ deferred_ops = [r \in Replicas |-> {}]
        /\ deferred_replicas = [r \in Replicas |-> {}]
        /\ history = [r \in Replicas |-> [undo_stack |-> <<>>, redo_stack |-> <<>>,
                                          depth |-> 0, opened |-> 0]]
        /\ waits = [r \in Replicas |-> [edits |-> {}, versions |-> {}]]
        /\ ops = {}
        /\ delivered = [r \in Replicas |-> {}]

Next ==
    \E r \in Replicas :
        \/ edit(r)
        \/ StartTransaction(r)
        \/ EndTransaction(r)
        \/ undo(r)
        \/ \E i \in DOMAIN history[r].undo_stack :
              i < Len(history[r].undo_stack) /\ undo_transaction(r, i)
        \/ redo(r)
        \/ Receive(r)
        \/ \E o \in ops : o.kind = "Edit" /\ wait_for_edits(r, o.timestamp)
        \/ \E q \in Replicas : wait_for_version(r, version[q])
        \/ give_up_waiting(r)

Spec == Init /\ [][Next]_vars

\* An assumption on the environment: an operation reaches every replica some
\* day.  The channel resends what one lost connection dropped, not always what
\* a second one did, and a host answers SynchronizeBuffers, the request for the
\* operations a version lacks, which nothing in this repository sends.  It is
\* weak fairness of a first delivery, possible as long as one is outstanding.
NetworkFair ==
    \A r \in Replicas : []<>(\A o \in ops : o.timestamp[2] # r => o \in delivered[r])

FairSpec == Spec /\ NetworkFair

-----------------------------------------------------------------------------
(* Properties.                                                             *)

Timestamps == {o.timestamp : o \in ops} \cup {<<1, 0>>}

\* The state has the shape the code's types give it, and the clock of a replica
\* is ahead of every operation it has applied (the order of concurrent
\* insertions relies on it).
TypeOK ==
    \A r \in Replicas :
        /\ \A i \in DOMAIN fragments[r] :
              /\ fragments[r][i].timestamp \in Timestamps
              /\ fragments[r][i].deletions \subseteq Timestamps
              /\ fragments[r][i].visible \in BOOLEAN
        /\ \A q \in Replicas : version[r][q] < lamport_clock[r]
        /\ deferred_ops[r] \subseteq ops
        /\ history[r].depth \in 0..1
        /\ waits[r].edits \subseteq Timestamps

\* Replicas that have applied the same operations have the same text, deleted
\* text and undo counts, in whatever order and batches the operations came
\* (apply_remote_edit, apply_undo).
Converge ==
    \A r, q \in Replicas :
        version[r] = version[q] => /\ fragments[r] = fragments[q]
                                   /\ undo_map[r] = undo_map[q]

\* Whatever two replicas have applied, the characters both know are in the same
\* order: a position one of them sends means the same place to the other
\* (the skip over concurrent insertions in apply_remote_edit).
OrderAgrees ==
    \A r, q \in Replicas :
        LET Id(s, i) == <<fragments[s][i].timestamp, fragments[s][i].offset>>
        IN  \A i, j \in DOMAIN fragments[r], m, n \in DOMAIN fragments[q] :
                Id(r, i) = Id(q, m) /\ Id(r, j) = Id(q, n) => (i < j <=> m < n)

\* The visibility cached in a fragment is what its deletions and the undo map
\* say, though remote edits and undos update it only for the fragments they
\* find (apply_remote_edit, apply_undo).
VisibleAgrees ==
    \A r \in Replicas : \A i \in DOMAIN fragments[r] :
        fragments[r][i].visible = is_visible(fragments[r][i], undo_map[r])

\* A version names an operation only when the operation has left its mark, its
\* text or its undo counts, and everything it depends on was applied before: a
\* version vector, which cannot show a gap, may stand for the set of operations
\* (can_apply_op, deferred_replicas, observe).
Causal ==
    \A r \in Replicas : \A o \in ops :
        observed(version[r], o.timestamp) =>
            /\ observed_all(version[r], o.version)
            /\ o.kind = "Edit" =>
                 LET Off(s) == {s[i].offset : i \in {j \in DOMAIN s : s[j].timestamp = o.timestamp}}
                 IN  Off(fragments[r]) = Off(fragments[o.timestamp[2]])
            /\ o.kind = "Undo" =>
                 \A c \in o.counts :
                    [edit |-> c.edit, undo |-> o.timestamp, count |-> c.count] \in undo_map[r]

\* An operation that arrived is applied or waits in the queue, nothing that could
\* be applied is left there, and the replicas held back are those with something
\* in the queue (apply_ops, flush_deferred_ops).
QueueIsLate ==
    \A r \in Replicas :
        /\ \A o \in delivered[r] : observed(version[r], o.timestamp) \/ o \in deferred_ops[r]
        /\ \A o \in deferred_ops[r] : ~ observed_all(version[r], o.version)
        /\ deferred_replicas[r] = {o.timestamp[2] : o \in deferred_ops[r]}

\* What is on the undo stack is in effect and what is on the redo stack is
\* undone, so that undo and redo never do the opposite of what they say
\* (undo_or_redo, end_transaction, group_trailing).
StacksAgree ==
    \A r \in Replicas :
        /\ \A t \in ToSet(history[r].undo_stack) : \A e \in t : ~ is_undone(undo_map[r], e)
        /\ \A t \in ToSet(history[r].redo_stack) : \A e \in t : is_undone(undo_map[r], e)

\* Every replica gets to apply every operation, and every wait ends: a deferred
\* operation is not forgotten (apply_ops, flush_deferred_ops).
Settles ==
    \A r \in Replicas :
        /\ []<>(\A o \in ops : observed(version[r], o.timestamp))
        /\ Waiting(r) > 0 ~> Waiting(r) = 0
=============================================================================
