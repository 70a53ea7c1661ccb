------------------------ MODULE RemoteChannelProofs ------------------------
(***************************************************************************)
(* What holds of the message layer between the editor and the remote       *)
(* server, for any number of messages, requests, streams and drops.        *)
(***************************************************************************)
EXTENDS RemoteChannel, TLAPS, SequenceTheorems, FiniteSetTheorems, WellFoundedInduction

-----------------------------------------------------------------------------
(* Sequences *)

\* What the first member of a non-empty sequence and the others are.
LEMMA RangeTail ==
  ASSUME NEW S, NEW s \in Seq(S), s # <<>>
  PROVE  /\ s[1] \in S /\ Tail(s) \in Seq(S)
         /\ Range(s) = {s[1]} \cup Range(Tail(s))
<1> DEFINE t == Tail(s)
<1>1. Len(s) \in Nat \ {0} /\ DOMAIN s = 1 .. Len(s) /\ \A i \in 1 .. Len(s) : s[i] \in S
  BY LenProperties, EmptySeq
<1>2. t \in Seq(S) /\ Len(t) = Len(s) - 1 /\ \A i \in 1 .. Len(t) : t[i] = s[i + 1]
  BY HeadTailProperties
<1>3. DOMAIN t = 1 .. Len(t)
  BY <1>2, LenProperties
<1> HIDE DEF t
<1>4. \A i \in 1 .. Len(t) : i + 1 \in 1 .. Len(s)
  BY <1>1, <1>2
<1>5. ASSUME NEW i \in 1 .. Len(s), i # 1 PROVE s[i] \in Range(t)
  <2>1. i - 1 \in 1 .. Len(t) /\ (i - 1) + 1 = i
    BY <1>1, <1>2, <1>5
  <2>2. t[i - 1] = s[i]
    BY <1>2, <2>1
  <2> QED
    BY <1>3, <2>1, <2>2 DEF Range
<1>6. Range(s) \subseteq {s[1]} \cup Range(t)
  BY <1>1, <1>5 DEF Range
<1>7. {s[1]} \cup Range(t) \subseteq Range(s)
  BY <1>1, <1>2, <1>3, <1>4 DEF Range
<1> QED
  BY <1>1, <1>2, <1>6, <1>7 DEF t

\* The members of a concatenation, of one envelope, of a sequence one longer.
LEMMA RangeConcat ==
  ASSUME NEW S, NEW s \in Seq(S), NEW t \in Seq(S)
  PROVE  s \o t \in Seq(S) /\ Range(s \o t) = Range(s) \cup Range(t)
BY RangeConcatenation, ConcatProperties

LEMMA RangeOne ==
  ASSUME NEW S, NEW x \in S
  PROVE  <<x>> \in Seq(S) /\ Range(<<x>>) = {x}
BY DEF Range

LEMMA RangeSnoc ==
  ASSUME NEW S, NEW s \in Seq(S), NEW x \in S
  PROVE  s \o <<x>> \in Seq(S) /\ Range(s \o <<x>>) = Range(s) \cup {x}
<1>1. <<x>> \in Seq(S) /\ Range(<<x>>) = {x}
  BY RangeOne
<1>2. s \o <<x>> \in Seq(S) /\ Range(s \o <<x>>) = Range(s) \cup Range(<<x>>)
  BY <1>1, RangeConcat
<1> QED
  BY <1>1, <1>2

LEMMA RangeAppend ==
  ASSUME NEW S, NEW s \in Seq(S), NEW x \in S
  PROVE  Append(s, x) \in Seq(S) /\ Range(Append(s, x)) = Range(s) \cup {x}
<1>1. Append(s, x) = s \o <<x>>
  BY AppendIsConcat
<1>2. s \o <<x>> \in Seq(S) /\ Range(s \o <<x>>) = Range(s) \cup {x}
  BY RangeSnoc
<1> QED
  BY <1>1, <1>2

\* A part of a sequence has no other members.
LEMMA SubSeqRange ==
  ASSUME NEW S, NEW s \in Seq(S), NEW m \in Nat \ {0}, NEW n \in Int, n <= Len(s)
  PROVE  SubSeq(s, m, n) \in Seq(S) /\ Range(SubSeq(s, m, n)) \subseteq Range(s)
<1> DEFINE t == SubSeq(s, m, n)
<1>1. Len(s) \in Nat /\ DOMAIN s = 1 .. Len(s) /\ \A j \in 1 .. Len(s) : s[j] \in S
  BY LenProperties
<1>2. \A j \in m .. n : s[j] \in S
  BY <1>1
<1>3. /\ t \in Seq(S) /\ Len(t) = IF m <= n THEN n - m + 1 ELSE 0
      /\ \A j \in 1 .. n - m + 1 : t[j] = s[m + j - 1]
  BY <1>2, SubSeqProperties
<1> HIDE DEF t
<1>4. DOMAIN t = 1 .. Len(t)
  BY <1>3, LenProperties
<1>5. ASSUME NEW j \in 1 .. Len(t) PROVE t[j] \in Range(s)
  <2>1. m <= n
    BY <1>3
  <2>2. j \in 1 .. n - m + 1 /\ m + j - 1 \in 1 .. Len(s)
    BY <1>1, <1>3, <2>1
  <2> QED
    BY <1>1, <1>3, <2>2 DEF Range
<1>6. Range(t) \subseteq Range(s)
  BY <1>4, <1>5 DEF Range
<1> QED
  BY <1>3, <1>6 DEF t

\* Envelopes are taken out of the buffer from the front, and only acknowledged ones.
LEMMA Prefix ==
  ASSUME NEW kept \in Seq(Envelope), NEW ack_id \in Nat \cup {NoId}
  PROVE  \E n \in 0 .. Len(kept) :
           /\ Unacknowledged(kept, ack_id) = SubSeq(kept, n + 1, Len(kept))
           /\ \A i \in 1 .. n : kept[i].id <= ack_id
<1> DEFINE popped == {i \in DOMAIN kept : \A j \in 1 .. i : kept[j].id <= ack_id}
           rest == (1 .. Len(kept) + 1) \ popped
<1>1. Len(kept) \in Nat /\ DOMAIN kept = 1 .. Len(kept)
  BY LenProperties
<1>2. PICK m \in rest : \A k \in rest : ~(k < m)
  <2> DEFINE R == {ss \in Nat \X Nat : ss[1] < ss[2]}
  <2>1. IsWellFoundedOn(R, Nat)
    BY NatLessThanWellFounded DEF OpToRel
  <2>2. Len(kept) + 1 \in rest /\ rest \in SUBSET Nat
    BY <1>1
  <2>3. \E x \in rest : \A y \in rest : ~(<<y, x>> \in R)
    <3> HIDE DEF R, rest
    <3> QED
      BY <2>1, <2>2, WFMin
  <2> QED
    BY <2>2, <2>3
<1>3. popped = 1 .. m - 1
  <2>1. \A i \in 1 .. m - 1 : i \in popped
    BY <1>1, <1>2
  <2>2. \A i \in popped : ~(m <= i)
    BY <1>1, <1>2
  <2> QED
    BY <1>1, <1>2, <2>1, <2>2
<1>4. Cardinality(popped) = m - 1 /\ m - 1 \in 0 .. Len(kept)
  <2>1. m \in Int /\ m - 1 \in 0 .. Len(kept) /\ 1 \in Int
    BY <1>1, <1>2
  <2>2. Cardinality(1 .. m - 1) = IF 1 > m - 1 THEN 0 ELSE (m - 1) - 1 + 1
    BY <2>1, FS_Interval
  <2>3. Cardinality(1 .. m - 1) = m - 1
    BY <2>1, <2>2
  <2> HIDE DEF popped, rest
  <2> QED
    BY <1>3, <2>1, <2>3
<1>5. \A i \in 1 .. m - 1 : kept[i].id <= ack_id
  BY <1>1, <1>2, <1>3
<1> QED
  BY <1>4, <1>5 DEF Unacknowledged

\* What is left of the buffer, and that only acknowledged envelopes leave it.
LEMMA KeptRange ==
  ASSUME NEW kept \in Seq(Envelope), NEW ack_id \in Nat \cup {NoId}
  PROVE  /\ Unacknowledged(kept, ack_id) \in Seq(Envelope)
         /\ Range(Unacknowledged(kept, ack_id)) \subseteq Range(kept)
         /\ \A m \in Range(kept) :
              m.id <= ack_id \/ m \in Range(Unacknowledged(kept, ack_id))
<1>1. PICK n \in 0 .. Len(kept) :
         /\ Unacknowledged(kept, ack_id) = SubSeq(kept, n + 1, Len(kept))
         /\ \A i \in 1 .. n : kept[i].id <= ack_id
  BY Prefix
<1>2. Len(kept) \in Nat /\ DOMAIN kept = 1 .. Len(kept) /\ \A i \in 1 .. Len(kept) : kept[i] \in Envelope
  BY LenProperties
<1> DEFINE left == SubSeq(kept, n + 1, Len(kept))
<1>3. /\ left \in Seq(Envelope) /\ Len(left) = Len(kept) - n
      /\ \A i \in 1 .. Len(left) : left[i] = kept[n + i]
  <2>1. n + 1 \in Int /\ Len(kept) \in Int /\ \A i \in n + 1 .. Len(kept) : kept[i] \in Envelope
    BY <1>2
  <2>2. /\ left \in Seq(Envelope)
        /\ Len(left) = IF n + 1 <= Len(kept) THEN Len(kept) - (n + 1) + 1 ELSE 0
        /\ \A i \in 1 .. Len(kept) - (n + 1) + 1 : left[i] = kept[(n + 1) + i - 1]
    BY <2>1, SubSeqProperties
  <2> HIDE DEF left
  <2>3. Len(left) = Len(kept) - n
    <3>1. CASE n + 1 <= Len(kept)
      BY <1>2, <2>2, <3>1
    <3>2. CASE ~(n + 1 <= Len(kept))
      <4>0. n \in Int /\ Len(kept) \in Int /\ n <= Len(kept)
        BY <1>2
      <4>1. n = Len(kept)
        BY <4>0, <3>2
      <4> QED
        BY <1>2, <2>2, <3>2, <4>1
    <3> QED
      BY <3>1, <3>2
  <2>4. ASSUME NEW i \in 1 .. Len(left) PROVE left[i] = kept[n + i]
    <3>1. i \in 1 .. Len(kept) - (n + 1) + 1 /\ (n + 1) + i - 1 = n + i
      BY <1>2, <2>3
    <3> QED
      BY <2>2, <3>1
  <2> QED
    BY <2>2, <2>3, <2>4
<1> HIDE DEF left
<1>4. DOMAIN left = 1 .. Len(left)
  BY <1>3, LenProperties
<1>5. \A i \in 1 .. Len(left) : n + i \in 1 .. Len(kept)
  BY <1>2, <1>3
<1>6. Range(left) \subseteq Range(kept)
  BY <1>2, <1>3, <1>4, <1>5 DEF Range
<1>7. ASSUME NEW i \in 1 .. Len(kept), ~(i <= n)
      PROVE  kept[i] \in Range(left)
  <2>1. i - n \in 1 .. Len(left) /\ n + (i - n) = i
    BY <1>2, <1>3, <1>7
  <2>2. left[i - n] = kept[i]
    BY <1>3, <2>1
  <2> QED
    BY <1>4, <2>1, <2>2 DEF Range
<1>8. ASSUME NEW m \in Range(kept) PROVE m.id <= ack_id \/ m \in Range(left)
  <2>1. PICK i \in 1 .. Len(kept) : m = kept[i]
    BY <1>2 DEF Range
  <2> QED
    BY <1>1, <1>7, <2>1
<1> QED
  BY <1>1, <1>3, <1>6, <1>8 DEF left

-----------------------------------------------------------------------------
(* Types *)

\* The envelopes of e that are on their way or kept.
Envelopes(e) == Range(wire[e]) \cup Range(buffer[e])

\* There are two ends, each the peer of the other.
LEMMA PeerType == \A e \in Ends : Peer(e) \in Ends /\ Peer(e) # e /\ Peer(Peer(e)) = e
BY DEF Ends, Peer

\* What is on a wire or in a buffer is an envelope.
LEMMA EnvelopeTypes ==
  ASSUME TypeOK, NEW e \in Ends
  PROVE  Envelopes(e) \subseteq Envelope
BY RangeOfSeq DEF TypeOK, Envelopes

\* What is on the wires and in the buffers after a `send_buffered`.
LEMMA SendEnvelopes ==
  ASSUME TypeOK, NEW e \in Ends, NEW kind \in Kinds, NEW to \in Nat \cup {NoId},
         send_buffered(e, kind, to)
  PROVE  /\ wire' \in [Ends -> Seq(Envelope)] /\ buffer' \in [Ends -> Seq(Envelope)]
         /\ next_message_id' \in [Ends -> Nat] /\ posted' \in [Ends -> SUBSET Nat]
         /\ Envelopes(e)' = Envelopes(e) \cup {Outgoing(e, kind, to)}
         /\ Envelopes(Peer(e))' = Envelopes(Peer(e))
         /\ Range(wire[e]) \subseteq Range(wire'[e])
         /\ link = "up" => Outgoing(e, kind, to) \in Range(wire'[e])
<1> DEFINE m == Outgoing(e, kind, to)
<1>1. m \in Envelope
  BY DEF TypeOK, Outgoing, Envelope
<1> HIDE DEF m
<1>2. wire[e] \in Seq(Envelope) /\ buffer[e] \in Seq(Envelope)
  BY DEF TypeOK
<1>3. /\ wire[e] \o <<m>> \in Seq(Envelope) /\ Range(wire[e] \o <<m>>) = Range(wire[e]) \cup {m}
  BY <1>1, <1>2, RangeSnoc
<1>4. Append(buffer[e], m) \in Seq(Envelope) /\ Range(Append(buffer[e], m)) = Range(buffer[e]) \cup {m}
  BY <1>1, <1>2, RangeAppend
<1>5. /\ OntoWire(e, <<m>>) \in Seq(Envelope)
      /\ Range(wire[e]) \subseteq Range(OntoWire(e, <<m>>))
      /\ Range(OntoWire(e, <<m>>)) \subseteq Range(wire[e]) \cup {m}
      /\ link = "up" => m \in Range(OntoWire(e, <<m>>))
  BY <1>2, <1>3 DEF OntoWire
<1>6. /\ wire' = [wire EXCEPT ![e] = OntoWire(e, <<m>>)]
      /\ buffer' = [buffer EXCEPT ![e] = Append(@, m)]
      /\ posted' = [posted EXCEPT ![e] = @ \cup {m.id}]
      /\ next_message_id' = [next_message_id EXCEPT ![e] = @ + 1]
  BY DEF send_buffered, m
<1>7. wire' \in [Ends -> Seq(Envelope)] /\ buffer' \in [Ends -> Seq(Envelope)]
  BY <1>4, <1>5, <1>6 DEF TypeOK
<1>8. next_message_id' \in [Ends -> Nat] /\ posted' \in [Ends -> SUBSET Nat]
  <2>1. m.id \in Nat
    BY <1>1 DEF Envelope
  <2> QED
    BY <1>6, <2>1 DEF TypeOK
<1>9. /\ wire'[e] = OntoWire(e, <<m>>) /\ buffer'[e] = Append(buffer[e], m)
      /\ wire'[Peer(e)] = wire[Peer(e)] /\ buffer'[Peer(e)] = buffer[Peer(e)]
  BY <1>6, PeerType DEF TypeOK
<1> QED
  BY <1>4, <1>5, <1>7, <1>8, <1>9 DEF Envelopes, m

\* What `take` looks at, and what it leaves in the buffer.
LEMMA TakeEnvelopes ==
  ASSUME TypeOK, NEW e \in Ends, take(e)
  PROVE  /\ Incoming(e) \in Envelope /\ Incoming(e) \in Range(wire[Peer(e)])
         /\ Tail(wire[Peer(e)]) \in Seq(Envelope)
         /\ Range(wire[Peer(e)]) = {Incoming(e)} \cup Range(Tail(wire[Peer(e)]))
         /\ Kept(e) \in Seq(Envelope) /\ Range(Kept(e)) \subseteq Range(buffer[e])
         /\ \A m \in Range(buffer[e]) : m.id <= Incoming(e).ack_id \/ m \in Range(Kept(e))
         /\ buffer' \in [Ends -> Seq(Envelope)]
         /\ buffer'[e] = Kept(e) /\ buffer'[Peer(e)] = buffer[Peer(e)]
<1>1. wire[Peer(e)] \in Seq(Envelope) /\ wire[Peer(e)] # <<>> /\ buffer[e] \in Seq(Envelope)
  BY PeerType DEF TypeOK, take
<1>2. /\ Incoming(e) \in Envelope /\ Tail(wire[Peer(e)]) \in Seq(Envelope)
      /\ Range(wire[Peer(e)]) = {Incoming(e)} \cup Range(Tail(wire[Peer(e)]))
  BY <1>1, RangeTail DEF Incoming
<1>3. Incoming(e).ack_id \in Nat \cup {NoId}
  BY <1>2 DEF Envelope
<1>4. /\ Kept(e) \in Seq(Envelope) /\ Range(Kept(e)) \subseteq Range(buffer[e])
      /\ \A m \in Range(buffer[e]) : m.id <= Incoming(e).ack_id \/ m \in Range(Kept(e))
  BY <1>1, <1>3, KeptRange DEF Kept
<1>5. /\ buffer' \in [Ends -> Seq(Envelope)]
      /\ buffer'[e] = Kept(e) /\ buffer'[Peer(e)] = buffer[Peer(e)]
  BY <1>4, PeerType DEF TypeOK, take
<1> QED
  BY <1>2, <1>4, <1>5

\* A wire after the handling loop of e took an envelope off it.
LEMMA TailEnvelopes ==
  ASSUME TypeOK, NEW e \in Ends, take(e),
         wire' = [wire EXCEPT ![Peer(e)] = Tail(@)]
  PROVE  /\ wire' \in [Ends -> Seq(Envelope)]
         /\ wire'[e] = wire[e] /\ wire'[Peer(e)] = Tail(wire[Peer(e)])
         /\ Envelopes(e)' \subseteq Envelopes(e)
         /\ Envelopes(Peer(e))' \subseteq Envelopes(Peer(e))
<1>1. /\ wire' \in [Ends -> Seq(Envelope)]
      /\ wire'[e] = wire[e] /\ wire'[Peer(e)] = Tail(wire[Peer(e)])
  BY TakeEnvelopes, PeerType DEF TypeOK
<1> QED
  BY <1>1, TakeEnvelopes DEF Envelopes

\* The wires after e acknowledged a hello or a flush.
LEMMA AckEnvelopes ==
  ASSUME TypeOK, NEW e \in Ends, take(e),
         NEW first \in Seq(Envelope), Range(first) \subseteq Range(Kept(e)),
         acknowledge(e, first)
  PROVE  LET ack == [id |-> next_message_id[e], kind |-> "Ack",
                     responding_to |-> Incoming(e).id, ack_id |-> NoId]
         IN  /\ wire' \in [Ends -> Seq(Envelope)] /\ next_message_id' \in [Ends -> Nat]
             /\ wire'[e] = (wire[e] \o first) \o <<ack>>
             /\ wire'[Peer(e)] = Tail(wire[Peer(e)])
             /\ ack \in Envelope
             /\ Range(wire'[e]) = Range(wire[e]) \cup Range(first) \cup {ack}
             /\ Envelopes(e)' \subseteq Envelopes(e) \cup {ack}
             /\ Envelopes(Peer(e))' \subseteq Envelopes(Peer(e))
<1> DEFINE ack == [id |-> next_message_id[e], kind |-> "Ack",
                   responding_to |-> Incoming(e).id, ack_id |-> NoId]
<1>1. ack \in Envelope
  <2>1. Incoming(e).id \in Nat /\ next_message_id[e] \in Nat
    BY TakeEnvelopes DEF TypeOK, Envelope
  <2> QED
    BY <2>1 DEF Envelope, Kinds, Answers
<1>2. wire' = [wire EXCEPT ![Peer(e)] = Tail(@), ![e] = (@ \o first) \o <<ack>>]
  BY DEF acknowledge
<1>3. next_message_id' \in [Ends -> Nat]
  BY DEF TypeOK, acknowledge
<1> HIDE DEF ack
<1>4. wire[e] \in Seq(Envelope)
  BY DEF TypeOK
<1>5. wire[e] \o first \in Seq(Envelope) /\ Range(wire[e] \o first) = Range(wire[e]) \cup Range(first)
  BY <1>4, RangeConcat
<1>6. /\ (wire[e] \o first) \o <<ack>> \in Seq(Envelope)
      /\ Range((wire[e] \o first) \o <<ack>>) = Range(wire[e]) \cup Range(first) \cup {ack}
  <2> DEFINE front == wire[e] \o first
  <2>1. front \in Seq(Envelope) /\ Range(front) = Range(wire[e]) \cup Range(first)
    BY <1>5
  <2> HIDE DEF front
  <2>2. front \o <<ack>> \in Seq(Envelope) /\ Range(front \o <<ack>>) = Range(front) \cup {ack}
    BY <1>1, <2>1, RangeSnoc
  <2> QED
    BY <2>1, <2>2 DEF front
<1>7. wire'[e] = (wire[e] \o first) \o <<ack>> /\ wire'[Peer(e)] = Tail(wire[Peer(e)])
  BY <1>2, PeerType DEF TypeOK
<1>8. wire' \in [Ends -> Seq(Envelope)]
  BY <1>2, <1>6, TakeEnvelopes, PeerType DEF TypeOK
<1>9. /\ Envelopes(e)' \subseteq Envelopes(e) \cup {ack}
      /\ Envelopes(Peer(e))' \subseteq Envelopes(Peer(e))
  BY <1>6, <1>7, TakeEnvelopes DEF Envelopes
<1> QED
  BY <1>1, <1>3, <1>6, <1>7, <1>8, <1>9 DEF ack

\* The wires after the client sent its buffer again.
LEMMA FlushedEnvelopes ==
  ASSUME TypeOK, take("client"),
         wire' = [wire EXCEPT !["server"] = Tail(@), !["client"] = @ \o Kept("client")]
  PROVE  /\ wire' \in [Ends -> Seq(Envelope)]
         /\ wire'["client"] = wire["client"] \o Kept("client")
         /\ wire'["server"] = Tail(wire["server"])
         /\ Range(wire'["client"]) = Range(wire["client"]) \cup Range(Kept("client"))
         /\ \A e \in Ends : Envelopes(e)' \subseteq Envelopes(e)
<1> USE DEF Ends, Peer
<1>1. /\ wire["client"] \in Seq(Envelope) /\ Kept("client") \in Seq(Envelope)
      /\ Tail(wire["server"]) \in Seq(Envelope)
      /\ Range(Tail(wire["server"])) \subseteq Range(wire["server"])
      /\ Range(Kept("client")) \subseteq Range(buffer["client"])
      /\ buffer'["client"] = Kept("client") /\ buffer'["server"] = buffer["server"]
  BY TakeEnvelopes DEF TypeOK
<1>2. /\ wire["client"] \o Kept("client") \in Seq(Envelope)
      /\ Range(wire["client"] \o Kept("client")) = Range(wire["client"]) \cup Range(Kept("client"))
  BY <1>1, RangeConcat
<1>3. /\ wire' \in [Ends -> Seq(Envelope)]
      /\ wire'["client"] = wire["client"] \o Kept("client")
      /\ wire'["server"] = Tail(wire["server"])
  BY <1>1, <1>2 DEF TypeOK
<1> QED
  BY <1>1, <1>2, <1>3 DEF Envelopes

\* A wire after `start_handling_messages` announced e.
LEMMA StartedEnvelopes ==
  ASSUME TypeOK, NEW e \in Ends, start_handling_messages(e)
  PROVE  LET hello == [id |-> 0, kind |-> "Started", responding_to |-> NoId, ack_id |-> NoId]
         IN  /\ wire' \in [Ends -> Seq(Envelope)]
             /\ wire'[Peer(e)] = wire[Peer(e)]
             /\ wire'[e] = wire[e] \/ (wire'[e] = wire[e] \o <<hello>>)
             /\ Range(wire[e]) \subseteq Range(wire'[e])
             /\ Envelopes(e)' \subseteq Envelopes(e) \cup {hello}
             /\ Envelopes(Peer(e))' = Envelopes(Peer(e))
<1> DEFINE hello == [id |-> 0, kind |-> "Started", responding_to |-> NoId, ack_id |-> NoId]
<1>1. hello \in Envelope
  BY DEF Envelope, Kinds
<1>2. wire' = [wire EXCEPT ![e] = OntoWire(e, <<hello>>)] /\ UNCHANGED buffer
  BY DEF start_handling_messages
<1> HIDE DEF hello
<1>3. wire[e] \in Seq(Envelope)
  BY DEF TypeOK
<1>4. wire[e] \o <<hello>> \in Seq(Envelope)
      /\ Range(wire[e] \o <<hello>>) = Range(wire[e]) \cup {hello}
  BY <1>1, <1>3, RangeSnoc
<1>5. /\ OntoWire(e, <<hello>>) \in Seq(Envelope)
      /\ OntoWire(e, <<hello>>) \in {wire[e], wire[e] \o <<hello>>}
  BY <1>3, <1>4 DEF OntoWire
<1>6. wire' \in [Ends -> Seq(Envelope)] /\ wire'[Peer(e)] = wire[Peer(e)]
      /\ wire'[e] \in {wire[e], wire[e] \o <<hello>>}
  BY <1>2, <1>5, PeerType DEF TypeOK
<1> QED
  BY <1>2, <1>4, <1>6 DEF Envelopes, hello

\* The wires after the transport was replaced: the flush comes first.
LEMMA ReconnectEnvelopes ==
  ASSUME TypeOK, reconnect
  PROVE  LET flush == Outgoing("client", "Flush", NoId)
         IN  /\ wire' \in [Ends -> Seq(Envelope)] /\ flush \in Envelope
             /\ wire'["client"] = Append(wire["client"], flush)
             /\ wire'["server"] = wire["server"]
             /\ Range(wire'["client"]) = Range(wire["client"]) \cup {flush}
             /\ Envelopes("client")' = Envelopes("client") \cup {flush}
             /\ Envelopes("server")' = Envelopes("server")
<1> DEFINE flush == Outgoing("client", "Flush", NoId)
<1> USE DEF Ends
<1>1. flush \in Envelope
  BY DEF TypeOK, Outgoing, Envelope, Kinds
<1>2. wire' = [wire EXCEPT !["client"] = Append(@, flush)] /\ UNCHANGED buffer
  BY DEF reconnect
<1> HIDE DEF flush
<1>3. wire["client"] \in Seq(Envelope)
  BY DEF TypeOK
<1>4. /\ Append(wire["client"], flush) \in Seq(Envelope)
      /\ Range(Append(wire["client"], flush)) = Range(wire["client"]) \cup {flush}
  BY <1>1, <1>3, RangeAppend
<1>5. /\ wire' \in [Ends -> Seq(Envelope)] /\ wire'["server"] = wire["server"]
      /\ wire'["client"] = Append(wire["client"], flush)
  BY <1>2, <1>4 DEF TypeOK
<1> QED
  BY <1>1, <1>2, <1>4, <1>5 DEF Envelopes, flush

\* The handlers at work after one of them answered.
Work == [id : Nat, kind : {"Request", "Stream"}, left : Nat]

\* A handler that answers leaves the other handlers as they are.
LEMMA RespondWork ==
  ASSUME NEW s \in Seq(Work), NEW i \in DOMAIN s
  PROVE  /\ s[i] \in Work /\ s[i] \in Range(s)
         /\ s[i].left > 0 =>
              LET t == [s EXCEPT ![i] = [s[i] EXCEPT !.left = s[i].left - 1]]
              IN  /\ t \in Seq(Work)
                  /\ \A w \in Range(t) : \E v \in Range(s) : v.id = w.id /\ v.kind = w.kind
         /\ SubSeq(s, 1, i - 1) \o SubSeq(s, i + 1, Len(s)) \in Seq(Work)
         /\ Range(SubSeq(s, 1, i - 1) \o SubSeq(s, i + 1, Len(s))) \subseteq Range(s)
<1>1. Len(s) \in Nat /\ DOMAIN s = 1 .. Len(s) /\ \A j \in 1 .. Len(s) : s[j] \in Work
  BY LenProperties
<1>2. s[i] \in Work /\ s[i] \in Range(s)
  BY <1>1 DEF Range
<1> DEFINE next == [s[i] EXCEPT !.left = s[i].left - 1]
           t == [s EXCEPT ![i] = next]
<1>3. ASSUME s[i].left > 0
      PROVE  /\ t \in Seq(Work)
             /\ \A w \in Range(t) : \E v \in Range(s) : v.id = w.id /\ v.kind = w.kind
  <2>1. next \in Work /\ next.id = s[i].id /\ next.kind = s[i].kind
    BY <1>2, <1>3 DEF Work
  <2> HIDE DEF next
  <2>3. /\ t \in Seq(Work) /\ Len(t) = Len(s)
        /\ \A j \in 1 .. Len(s) : t[j] = IF j = i THEN next ELSE s[j]
    BY <1>1, <2>1, ExceptSeq
  <2> HIDE DEF t
  <2>4. DOMAIN t = 1 .. Len(s)
    BY <2>3, LenProperties
  <2>5. \A w \in Range(t) : \E v \in Range(s) : v.id = w.id /\ v.kind = w.kind
    BY <1>1, <2>1, <2>3, <2>4 DEF Range
  <2> QED
    BY <2>3, <2>5
<1>4. /\ SubSeq(s, 1, i - 1) \in Seq(Work) /\ Range(SubSeq(s, 1, i - 1)) \subseteq Range(s)
      /\ SubSeq(s, i + 1, Len(s)) \in Seq(Work)
      /\ Range(SubSeq(s, i + 1, Len(s))) \subseteq Range(s)
  BY <1>1, SubSeqRange
<1>5. /\ SubSeq(s, 1, i - 1) \o SubSeq(s, i + 1, Len(s)) \in Seq(Work)
      /\ Range(SubSeq(s, 1, i - 1) \o SubSeq(s, i + 1, Len(s))) \subseteq Range(s)
  <2> DEFINE a == SubSeq(s, 1, i - 1)
             b == SubSeq(s, i + 1, Len(s))
  <2> HIDE DEF a, b
  <2>1. a \in Seq(Work) /\ b \in Seq(Work) /\ Range(a) \subseteq Range(s) /\ Range(b) \subseteq Range(s)
    BY <1>4 DEF a, b
  <2>2. a \o b \in Seq(Work) /\ Range(a \o b) = Range(a) \cup Range(b)
    BY <2>1, RangeConcat
  <2> QED
    BY <2>1, <2>2 DEF a, b
<1> QED
  BY <1>2, <1>3, <1>5

\* One more copy of the envelope that arrived has been heard.
LEMMA HeardMore ==
  ASSUME TypeOK, NEW e \in Ends, record(e)
  PROVE  /\ DOMAIN heard' = Ends
         /\ heard'[e] = heard[e]
         /\ BagToSet(heard'[Peer(e)]) = BagToSet(heard[Peer(e)]) \cup {Incoming(e).id}
         /\ \A id \in BagToSet(heard'[Peer(e)]) :
              heard'[Peer(e)][id] = (IF id \in BagToSet(heard[Peer(e)]) THEN heard[Peer(e)][id] ELSE 0)
                                    + (IF id = Incoming(e).id THEN 1 ELSE 0)
         /\ \A x \in Ends : IsABag(heard'[x]) /\ BagToSet(heard'[x]) \subseteq Nat
<1> DEFINE old == heard[Peer(e)]
           new == heard'[Peer(e)]
           one == SetToBag({Incoming(e).id})
<1>1. Incoming(e).id \in Nat
  BY TakeEnvelopes DEF record, Envelope
<1>2. /\ DOMAIN heard' = Ends /\ heard'[e] = heard[e]
      /\ new = old (+) one
  BY PeerType DEF TypeOK, record
<1>3. DOMAIN one = {Incoming(e).id} /\ one[Incoming(e).id] = 1
  BY DEF SetToBag
<1>4. /\ old \in [DOMAIN old -> {n \in Nat : n > 0}] /\ DOMAIN old \subseteq Nat
  BY PeerType DEF TypeOK, IsABag, BagToSet
<1>5. new = [x \in DOMAIN old \cup {Incoming(e).id} |->
               (IF x \in DOMAIN old THEN old[x] ELSE 0)
                 + (IF x = Incoming(e).id THEN 1 ELSE 0)]
  BY <1>2, <1>3 DEF (+)
<1> HIDE DEF old, one
<1>6. DOMAIN new = DOMAIN old \cup {Incoming(e).id}
  BY <1>5
<1>7. \A x \in DOMAIN new : new[x] = (IF x \in DOMAIN old THEN old[x] ELSE 0)
                                     + (IF x = Incoming(e).id THEN 1 ELSE 0)
  BY <1>5
<1>8. new \in [DOMAIN new -> {n \in Nat : n > 0}]
  BY <1>4, <1>5, <1>6
<1>9. IsABag(heard[e]) /\ BagToSet(heard[e]) \subseteq Nat
  BY DEF TypeOK
<1>10. \A x \in Ends : x = e \/ x = Peer(e)
  BY DEF Ends, Peer
<1> QED
  BY <1>1, <1>2, <1>4, <1>6, <1>7, <1>8, <1>9, <1>10 DEF IsABag, BagToSet, old

\* Exactly the answers say what they respond to.
Marked == \A e \in Ends : \A m \in Envelopes(e) : m.responding_to # NoId <=> m.kind \in Answers

\* Initially every field has its type.
LEMMA InitTypeOK == Init => TypeOK
<1> SUFFICES ASSUME Init PROVE TypeOK
  OBVIOUS
<1>1. <<>> \in Seq(Envelope) /\ <<>> \in Seq(Work)
  BY EmptySeq
<1>2. IsABag(EmptyBag) /\ BagToSet(EmptyBag) \subseteq Nat
  BY DEF IsABag, EmptyBag, SetToBag, BagToSet
<1> QED
  BY <1>1, <1>2, RemoteChannelAssumption DEF Init, TypeOK, Work, Ends

\* Sends, answers and the handling loop keep the types.
LEMMA NextTypeOK == TypeOK /\ Marked /\ [Next]_vars => TypeOK'
<1> SUFFICES ASSUME TypeOK, Marked, [Next]_vars PROVE TypeOK'
  OBVIOUS
<1>0. /\ serving \in [Ends -> Seq(Work)]
      /\ \A e \in Ends : response_channels[e] \subseteq [id : Nat, kind : {"Request", "Stream", "Flush"}]
  BY DEF TypeOK, Work
<1>1. CASE disconnect
  <2>1. wire' \in [Ends -> Seq(Envelope)]
    BY <1>1, EmptySeq DEF disconnect
  <2> QED
    BY <1>1, <2>1, RemoteChannelAssumption DEF disconnect, TypeOK, history
<1>2. CASE connect
  BY <1>2 DEF connect, TypeOK, history
<1>3. CASE reconnect
  <2>1. wire' \in [Ends -> Seq(Envelope)]
    BY <1>3, ReconnectEnvelopes
  <2>2. /\ next_message_id' \in [Ends -> Nat]
        /\ response_channels' \in [Ends -> SUBSET [id : Nat, kind : {"Request", "Stream", "Flush"}]]
        /\ resyncing' \in Nat
    <3>1. next_message_id["client"] \in Nat
      BY DEF TypeOK, Ends
    <3>2. Channel("client", "Flush") \in [id : Nat, kind : {"Request", "Stream", "Flush"}]
      BY <3>1 DEF Channel
    <3> DEFINE all == [id : Nat, kind : {"Request", "Stream", "Flush"}]
               new == Channel("client", "Flush")
    <3>3. /\ response_channels \in [Ends -> SUBSET all] /\ new \in all
          /\ response_channels' = [response_channels EXCEPT !["client"] = @ \cup {new}]
      BY <1>3, <3>2 DEF reconnect, TypeOK
    <3>4. response_channels' \in [Ends -> SUBSET all]
      <4> HIDE DEF all, new
      <4> QED
        BY <3>3
    <3> QED
      BY <1>3, <3>1, <3>4 DEF reconnect, TypeOK
  <2> QED
    BY <1>3, <2>1, <2>2 DEF reconnect, TypeOK, history
<1>4. ASSUME NEW e \in Ends, start_handling_messages(e) PROVE TypeOK'
  <2>1. wire' \in [Ends -> Seq(Envelope)]
    BY <1>4, StartedEnvelopes
  <2> QED
    BY <1>4, <2>1 DEF start_handling_messages, TypeOK, history
<1>5. ASSUME NEW e \in Ends, NEW kind \in Originals(e), send(e, kind) PROVE TypeOK'
  <2>1. kind \in {"Msg", "Request", "Stream"} /\ kind \in Kinds
    BY RemoteChannelAssumption DEF Originals, Kinds
  <2>2. /\ wire' \in [Ends -> Seq(Envelope)] /\ buffer' \in [Ends -> Seq(Envelope)]
        /\ next_message_id' \in [Ends -> Nat] /\ posted' \in [Ends -> SUBSET Nat]
    BY <1>5, <2>1, SendEnvelopes DEF send
  <2>3. /\ response_channels' \in [Ends -> SUBSET [id : Nat, kind : {"Request", "Stream", "Flush"}]]
        /\ said' \in [Ends -> 0 .. MaxSends]
    BY <1>5, <2>1, RemoteChannelAssumption DEF send, TypeOK, Channel
  <2> QED
    BY <1>5, <2>2, <2>3 DEF send, TypeOK
<1>6. ASSUME NEW e \in Ends, NEW i \in DOMAIN serving[e], respond(e, i) PROVE TypeOK'
  <2> DEFINE work == serving[e][i]
             kind == IF work.kind = "Request" THEN "Response"
                     ELSE IF work.left > 0 THEN "Chunk" ELSE "End"
  <2>1. serving[e] \in Seq(Work) /\ work \in Work
    BY <1>0, RespondWork
  <2>2. kind \in Kinds /\ work.id \in Nat /\ (kind = "Chunk" => work.left > 0)
    BY <2>1 DEF Kinds, Answers, Work
  <2>3. /\ wire' \in [Ends -> Seq(Envelope)] /\ buffer' \in [Ends -> Seq(Envelope)]
        /\ next_message_id' \in [Ends -> Nat] /\ posted' \in [Ends -> SUBSET Nat]
    BY <1>6, <2>2, SendEnvelopes DEF respond
  <2>4. serving' \in [Ends -> Seq(Work)]
    <3> DEFINE shorter == [serving[e] EXCEPT ![i] = [work EXCEPT !.left = work.left - 1]]
               fewer == SubSeq(serving[e], 1, i - 1) \o SubSeq(serving[e], i + 1, Len(serving[e]))
    <3>2. (kind = "Chunk" => shorter \in Seq(Work)) /\ fewer \in Seq(Work)
      BY <2>1, <2>2, RespondWork
    <3>3. serving' = [serving EXCEPT ![e] = IF kind = "Chunk" THEN shorter ELSE fewer]
      BY <1>6 DEF respond, kind
    <3> HIDE DEF shorter, fewer, kind
    <3> QED
      BY <1>0, <3>2, <3>3
  <2> QED
    BY <1>6, <2>3, <2>4 DEF respond, TypeOK, Work
<1>7. ASSUME NEW e \in Ends, NEW c \in response_channels[e], drop_stream(e, c) PROVE TypeOK'
  BY <1>7 DEF drop_stream, TypeOK, transport, history
<1>8. ASSUME NEW e \in Ends, receive_flush(e) PROVE TypeOK'
  <2>1. /\ wire' \in [Ends -> Seq(Envelope)] /\ buffer' \in [Ends -> Seq(Envelope)]
        /\ next_message_id' \in [Ends -> Nat]
    BY <1>8, TakeEnvelopes, AckEnvelopes DEF receive_flush
  <2> QED
    BY <1>8, <2>1 DEF receive_flush, acknowledge, TypeOK, history
<1>9. ASSUME NEW e \in Ends, receive_started(e) PROVE TypeOK'
  <2>1. <<>> \in Seq(Envelope) /\ Range(<<>>) = {}
    BY EmptySeq DEF Range
  <2>2. /\ wire' \in [Ends -> Seq(Envelope)] /\ buffer' \in [Ends -> Seq(Envelope)]
        /\ next_message_id' \in [Ends -> Nat]
    BY <1>9, <2>1, TakeEnvelopes, AckEnvelopes DEF receive_started
  <2> QED
    BY <1>9, <2>2 DEF receive_started, acknowledge, TypeOK, history
<1>10. ASSUME NEW e \in Ends, record(e)
       PROVE  /\ buffer' \in [Ends -> Seq(Envelope)] /\ max_received' \in [Ends -> Nat]
              /\ DOMAIN heard' = Ends
              /\ \A x \in Ends : IsABag(heard'[x]) /\ BagToSet(heard'[x]) \subseteq Nat
              /\ Incoming(e).id \in Nat /\ Incoming(e).kind \in Kinds \ {"Flush", "Started"}
  <2>1. take(e) /\ Incoming(e) \in Envelope /\ buffer' \in [Ends -> Seq(Envelope)]
    BY <1>10, TakeEnvelopes DEF record
  <2>2. Incoming(e).id \in Nat /\ Incoming(e).kind \in Kinds \ {"Flush", "Started"}
    BY <1>10, <2>1 DEF record, Envelope
  <2>3. max_received' \in [Ends -> Nat]
    BY <1>10, <2>2 DEF record, TypeOK
  <2> QED
    BY <1>10, <2>1, <2>2, <2>3, HeardMore
<1>11. ASSUME NEW e \in Ends, record(e), wire' = [wire EXCEPT ![Peer(e)] = Tail(@)]
       PROVE  wire' \in [Ends -> Seq(Envelope)]
  BY <1>11, TailEnvelopes DEF record
<1>12. ASSUME NEW e \in Ends, receive_message(e) PROVE TypeOK'
  <2>1. /\ record(e) /\ wire' = [wire EXCEPT ![Peer(e)] = Tail(@)]
        /\ Incoming(e).responding_to = NoId
    BY <1>12 DEF receive_message
  <2>2. Incoming(e) \in Envelopes(Peer(e)) /\ Incoming(e).kind \in {"Msg", "Request", "Stream"}
    <3>1. Incoming(e) \in Envelopes(Peer(e))
      BY <2>1, TakeEnvelopes DEF record, Envelopes
    <3>2. Incoming(e).kind \notin Answers
      BY <2>1, <3>1, PeerType DEF Marked
    <3> QED
      BY <1>10, <2>1, <3>1, <3>2 DEF Kinds, Answers
  <2> DEFINE new == [id |-> Incoming(e).id, kind |-> Incoming(e).kind,
                     left |-> IF Incoming(e).kind = "Stream" THEN StreamLength ELSE 0]
  <2>3. Incoming(e).kind # "Msg" => Append(serving[e], new) \in Seq(Work)
    <3> SUFFICES ASSUME Incoming(e).kind # "Msg" PROVE Append(serving[e], new) \in Seq(Work)
      OBVIOUS
    <3>1. new \in Work
      BY <1>10, <2>1, <2>2, RemoteChannelAssumption DEF Work
    <3> HIDE DEF new
    <3> QED
      BY <1>0, <3>1, AppendProperties
  <2>4. serving' = [serving EXCEPT ![e] =
          IF Incoming(e).kind = "Msg" THEN @ ELSE Append(@, new)]
    BY <1>12 DEF receive_message
  <2>5. serving' \in [Ends -> Seq(Work)]
    <3> HIDE DEF new
    <3> QED
      BY <1>0, <2>3, <2>4
  <2> QED
    BY <1>10, <1>11, <1>12, <2>1, <2>5 DEF receive_message, record, TypeOK, Work
<1>13. ASSUME NEW e \in Ends, receive_late(e) PROVE TypeOK'
  BY <1>10, <1>11, <1>13 DEF receive_late, record, TypeOK
<1>14. ASSUME NEW e \in Ends, NEW c \in response_channels[e], resolve(e, c)
       PROVE  /\ response_channels' \in
                   [Ends -> SUBSET [id : Nat, kind : {"Request", "Stream", "Flush"}]]
              /\ answered' \in [Ends -> SUBSET (Kinds \X Kinds)]
  <2>1. <<c.kind, Incoming(e).kind>> \in Kinds \X Kinds
    BY <1>0, <1>10, <1>14 DEF resolve, Kinds
  <2> QED
    BY <1>14, <2>1 DEF resolve, TypeOK
<1>15. ASSUME NEW e \in Ends, NEW c \in response_channels[e], receive_response(e, c)
       PROVE  TypeOK'
  BY <1>10, <1>11, <1>14, <1>15 DEF receive_response, resolve, record, TypeOK
<1>16. ASSUME NEW c \in response_channels["client"], receive_flushed(c) PROVE TypeOK'
  <2>1. "client" \in Ends /\ record("client") /\ resolve("client", c)
    BY <1>16 DEF receive_flushed, resolve, Ends
  <2>2. wire' \in [Ends -> Seq(Envelope)]
    BY <1>16, <2>1, FlushedEnvelopes DEF receive_flushed, record
  <2> QED
    BY <1>10, <1>14, <1>16, <2>1, <2>2 DEF receive_flushed, resolve, record, TypeOK
<1>17. ASSUME NEW e \in Ends, NEW c \in response_channels[e], receive_item(e, c)
       PROVE  TypeOK'
  <2>1. response_channels' \in [Ends -> SUBSET [id : Nat, kind : {"Request", "Stream", "Flush"}]]
    BY <1>17 DEF receive_item, TypeOK
  <2> QED
    BY <1>10, <1>11, <1>17, <2>1 DEF receive_item, record, TypeOK
<1>18. CASE UNCHANGED vars
  BY <1>18 DEF vars, transport, history, TypeOK
<1> QED
  BY <1>1, <1>2, <1>3, <1>4, <1>5, <1>6, <1>7, <1>8, <1>9, <1>12, <1>13, <1>15, <1>16,
     <1>17, <1>18
  DEF Next, receive

-----------------------------------------------------------------------------
(* The steps, as the sets of envelopes and of handlers see them *)

\* An application sends something that is no answer.
LEMMA SendFacts ==
  ASSUME TypeOK, NEW e \in Ends, NEW kind \in Originals(e), send(e, kind)
  PROVE  /\ kind \in {"Msg", "Request", "Stream"} /\ kind \in Kinds \ Answers
         /\ send_buffered(e, kind, NoId) /\ remote_started[e]
         /\ Outgoing(e, kind, NoId) = [id |-> next_message_id[e], kind |-> kind,
                                       responding_to |-> NoId, ack_id |-> max_received[e]]
         /\ Envelopes(e)' = Envelopes(e) \cup {Outgoing(e, kind, NoId)}
         /\ Envelopes(Peer(e))' = Envelopes(Peer(e))
<1>1. kind \in {"Msg", "Request", "Stream"} /\ kind \in Kinds \ Answers
  BY RemoteChannelAssumption DEF Originals, Kinds, Answers
<1> QED
  BY <1>1, SendEnvelopes DEF send, Outgoing

\* A handler sends an answer of the kind that its request asks for.
LEMMA RespondFacts ==
  ASSUME TypeOK, NEW e \in Ends, NEW i \in DOMAIN serving[e], respond(e, i)
  PROVE  \E kind \in Answers, work \in Range(serving[e]) :
           /\ work \in Work /\ send_buffered(e, kind, work.id)
           /\ \/ kind = "Response" /\ work.kind = "Request"
              \/ kind \in {"Chunk", "End"} /\ work.kind = "Stream"
           /\ Envelopes(e)' = Envelopes(e) \cup {Outgoing(e, kind, work.id)}
           /\ Envelopes(Peer(e))' = Envelopes(Peer(e))
           /\ serving'[Peer(e)] = serving[Peer(e)]
           /\ \A w \in Range(serving'[e]) :
                \E v \in Range(serving[e]) : v.id = w.id /\ v.kind = w.kind
<1> DEFINE s == serving[e]
           work == s[i]
           kind == IF work.kind = "Request" THEN "Response"
                   ELSE IF work.left > 0 THEN "Chunk" ELSE "End"
           shorter == [s EXCEPT ![i] = [work EXCEPT !.left = work.left - 1]]
           fewer == SubSeq(s, 1, i - 1) \o SubSeq(s, i + 1, Len(s))
<1>1. s \in Seq(Work) /\ work \in Work /\ work \in Range(s)
  <2>1. s \in Seq(Work)
    BY DEF TypeOK, Work
  <2> QED
    BY <2>1, RespondWork
<1>2. kind \in Answers /\ work.id \in Nat /\ (kind = "Chunk" => work.left > 0)
  BY <1>1 DEF Answers, Work
<1>3. \/ kind = "Response" /\ work.kind = "Request"
      \/ kind \in {"Chunk", "End"} /\ work.kind = "Stream"
  BY <1>1 DEF Work
<1>4. send_buffered(e, kind, work.id)
  BY DEF respond
<1>5. /\ Envelopes(e)' = Envelopes(e) \cup {Outgoing(e, kind, work.id)}
      /\ Envelopes(Peer(e))' = Envelopes(Peer(e))
  <2>1. kind \in Kinds
    BY <1>2 DEF Kinds
  <2> HIDE DEF kind
  <2> QED
    BY <1>2, <1>4, <2>1, SendEnvelopes
<1>6. serving' = [serving EXCEPT ![e] = IF kind = "Chunk" THEN shorter ELSE fewer]
  BY DEF respond
<1>7. kind = "Chunk" =>
        \A w \in Range(shorter) : \E v \in Range(s) : v.id = w.id /\ v.kind = w.kind
  BY <1>1, <1>2, RespondWork
<1>8. Range(fewer) \subseteq Range(s)
  BY <1>1, RespondWork
<1>9. /\ serving'[Peer(e)] = serving[Peer(e)]
      /\ \A w \in Range(serving'[e]) :
           \E v \in Range(serving[e]) : v.id = w.id /\ v.kind = w.kind
  <2> HIDE DEF kind, shorter, fewer
  <2>1. serving'[e] = IF kind = "Chunk" THEN shorter ELSE fewer
    BY <1>6 DEF TypeOK
  <2>2. serving'[Peer(e)] = serving[Peer(e)]
    BY <1>6, PeerType DEF TypeOK
  <2> QED
    BY <1>7, <1>8, <2>1, <2>2
<1> QED
  BY <1>1, <1>2, <1>3, <1>4, <1>5, <1>9

\* What an envelope that counts as received changes apart from answering requests.
LEMMA RecordFacts ==
  ASSUME TypeOK, Marked, NEW e \in Ends, record(e)
  PROVE  /\ Incoming(e) \in Envelopes(Peer(e)) /\ Incoming(e) \in Envelope
         /\ Incoming(e).kind \notin {"Flush", "Started"}
         /\ Incoming(e).responding_to = NoId => Incoming(e).kind \in {"Msg", "Request", "Stream"}
         /\ Incoming(e).responding_to # NoId => Incoming(e).kind \in Answers
         /\ UNCHANGED <<next_message_id, remote_started, posted>>
         /\ max_received'[e] = Incoming(e).id /\ max_received'[Peer(e)] = max_received[Peer(e)]
<1>1. Incoming(e) \in Envelopes(Peer(e)) /\ Incoming(e) \in Envelope
  BY TakeEnvelopes DEF record, Envelopes
<1>2. Incoming(e).responding_to # NoId <=> Incoming(e).kind \in Answers
  BY <1>1, PeerType DEF Marked
<1>3. Incoming(e).kind \in Kinds \ {"Flush", "Started"}
  BY <1>1 DEF record, Envelope
<1> QED
  BY <1>1, <1>2, <1>3, PeerType DEF record, Kinds, TypeOK

\* A request starts a handler.
LEMMA MessageFacts ==
  ASSUME TypeOK, Marked, NEW e \in Ends, receive_message(e)
  PROVE  /\ record(e) /\ wire' = [wire EXCEPT ![Peer(e)] = Tail(@)]
         /\ UNCHANGED <<response_channels, resyncing, answered>>
         /\ serving'[Peer(e)] = serving[Peer(e)]
         /\ \A w \in Range(serving'[e]) :
              \/ w \in Range(serving[e])
              \/ /\ w.id = Incoming(e).id /\ w.kind = Incoming(e).kind
                 /\ w.kind \in {"Request", "Stream"}
<1>1. /\ record(e) /\ wire' = [wire EXCEPT ![Peer(e)] = Tail(@)]
      /\ UNCHANGED <<response_channels, resyncing, answered>>
      /\ Incoming(e).responding_to = NoId
  BY DEF receive_message
<1>2. Incoming(e).kind \in {"Msg", "Request", "Stream"} /\ Incoming(e).id \in Nat
  BY <1>1, RecordFacts DEF Envelope
<1> DEFINE new == [id |-> Incoming(e).id, kind |-> Incoming(e).kind,
                   left |-> IF Incoming(e).kind = "Stream" THEN StreamLength ELSE 0]
<1>3. serving' = [serving EXCEPT ![e] =
        IF Incoming(e).kind = "Msg" THEN @ ELSE Append(@, new)]
  BY DEF receive_message
<1>4. new.id = Incoming(e).id /\ new.kind = Incoming(e).kind
  OBVIOUS
<1>5. Incoming(e).kind # "Msg" => new \in Work
  BY <1>2, RemoteChannelAssumption DEF Work
<1> HIDE DEF new
<1>6. serving[e] \in Seq(Work)
  BY DEF TypeOK, Work
<1>7. Incoming(e).kind # "Msg" =>
        Range(Append(serving[e], new)) = Range(serving[e]) \cup {new}
  BY <1>5, <1>6, RangeAppend
<1>8. /\ serving'[e] = IF Incoming(e).kind = "Msg" THEN serving[e] ELSE Append(serving[e], new)
      /\ serving'[Peer(e)] = serving[Peer(e)]
  BY <1>3, PeerType DEF TypeOK
<1> QED
  BY <1>1, <1>2, <1>4, <1>7, <1>8

-----------------------------------------------------------------------------
(* Ids *)

\* The envelopes after a step that only delivers, drops or sends again.
LEMMA RecordEnvelopes ==
  ASSUME TypeOK, NEW e \in Ends, record(e), wire' = [wire EXCEPT ![Peer(e)] = Tail(@)]
  PROVE  \A x \in Ends : Envelopes(x)' \subseteq Envelopes(x)
<1>1. Envelopes(e)' \subseteq Envelopes(e) /\ Envelopes(Peer(e))' \subseteq Envelopes(Peer(e))
  BY TailEnvelopes DEF record
<1> QED
  BY <1>1 DEF Ends, Peer

\* The Ack of e for the envelope it takes.
AckOf(e) == [id |-> next_message_id[e], kind |-> "Ack",
             responding_to |-> Incoming(e).id, ack_id |-> NoId]

\* A hello or a flush is acknowledged.
LEMMA ControlFacts ==
  ASSUME TypeOK, NEW e \in Ends, receive_flush(e) \/ receive_started(e)
  PROVE  /\ Incoming(e) \in Envelopes(Peer(e)) /\ Incoming(e) \in Envelope
         /\ Incoming(e).kind \in {"Flush", "Started"}
         /\ Envelopes(e)' \subseteq Envelopes(e) \cup {AckOf(e)}
         /\ Envelopes(Peer(e))' \subseteq Envelopes(Peer(e))
         /\ next_message_id' = [next_message_id EXCEPT ![e] = @ + 1]
         /\ remote_started' \in {remote_started, [remote_started EXCEPT ![e] = TRUE]}
         /\ UNCHANGED <<max_received, response_channels, serving, posted, heard, answered,
                        link, drops, resyncing>>
<1>1. take(e) /\ Incoming(e).kind \in {"Flush", "Started"}
  BY DEF receive_flush, receive_started
<1>2. Incoming(e) \in Envelopes(Peer(e)) /\ Incoming(e) \in Envelope
  BY <1>1, TakeEnvelopes DEF Envelopes
<1>3. /\ Envelopes(e)' \subseteq Envelopes(e) \cup {AckOf(e)}
      /\ Envelopes(Peer(e))' \subseteq Envelopes(Peer(e))
  <2>1. CASE receive_flush(e)
    BY <1>1, <2>1, TakeEnvelopes, AckEnvelopes DEF receive_flush, AckOf
  <2>2. CASE receive_started(e)
    <3>1. <<>> \in Seq(Envelope) /\ Range(<<>>) = {}
      BY EmptySeq DEF Range
    <3> QED
      BY <1>1, <2>2, <3>1, AckEnvelopes DEF receive_started, AckOf
  <2> QED
    BY <2>1, <2>2
<1> QED
  BY <1>1, <1>2, <1>3 DEF receive_flush, receive_started, acknowledge, history

\* Every step keeps answers and questions apart.
LEMMA NextMarked == TypeOK /\ Marked /\ [Next]_vars => Marked'
<1> SUFFICES ASSUME TypeOK, Marked, [Next]_vars, NEW x \in Ends, NEW m \in Envelopes(x)',
                    m \notin Envelopes(x)
             PROVE  m.responding_to # NoId <=> m.kind \in Answers
  BY DEF Marked
<1>0. x \in {"client", "server"} /\ NoId \notin Nat
  BY DEF Ends, NoId
<1>1. CASE disconnect
  BY <1>1 DEF disconnect, Envelopes, Range
<1>2. CASE connect
  BY <1>2 DEF connect, Envelopes
<1>3. CASE reconnect
  BY <1>0, <1>3, ReconnectEnvelopes DEF Outgoing, Answers
<1>4. ASSUME NEW e \in Ends, start_handling_messages(e)
      PROVE  m.responding_to # NoId <=> m.kind \in Answers
  BY <1>0, <1>4, StartedEnvelopes DEF Answers, Ends, Peer
<1>5. ASSUME NEW e \in Ends, NEW kind \in Originals(e), send(e, kind)
      PROVE  m.responding_to # NoId <=> m.kind \in Answers
  BY <1>0, <1>5, SendFacts DEF Ends, Peer
<1>6. ASSUME NEW e \in Ends, NEW i \in DOMAIN serving[e], respond(e, i)
      PROVE  m.responding_to # NoId <=> m.kind \in Answers
  BY <1>0, <1>6, RespondFacts DEF Outgoing, Work, Ends, Peer
<1>7. ASSUME NEW e \in Ends, NEW c \in response_channels[e], drop_stream(e, c)
      PROVE  m.responding_to # NoId <=> m.kind \in Answers
  BY <1>7 DEF drop_stream, transport, Envelopes
<1>8. ASSUME NEW e \in Ends, receive_flush(e) \/ receive_started(e)
      PROVE  m.responding_to # NoId <=> m.kind \in Answers
  BY <1>0, <1>8, ControlFacts DEF AckOf, Answers, Envelope, Ends, Peer
<1>9. ASSUME NEW e \in Ends, record(e), wire' = [wire EXCEPT ![Peer(e)] = Tail(@)] PROVE FALSE
  BY <1>9, RecordEnvelopes
<1>10. ASSUME NEW c, receive_flushed(c) PROVE FALSE
  BY <1>10, FlushedEnvelopes DEF receive_flushed, resolve, record
<1>11. CASE UNCHANGED vars
  BY <1>11 DEF vars, transport, Envelopes
<1> QED
  BY <1>1, <1>2, <1>3, <1>4, <1>5, <1>6, <1>7, <1>8, <1>9, <1>10, <1>11
  DEF Next, receive, receive_message, receive_late, receive_response, receive_item, resolve

\* Nothing is on a wire that is not connected, and nothing is said before the first one is.
Connected ==
  \A e \in Ends : /\ link # "up" => wire[e] = <<>>
                  /\ link = "new" => ~remote_started[e] /\ serving[e] = <<>>

\* As long as e has numbered nothing, the first envelope it will take is one it acknowledges:
\* the hello of its peer, or a flush.  So it has numbered something before it has a handler
\* at work.
Greeted ==
  \A e \in Ends : next_message_id[e] = 0 =>
    /\ serving[e] = <<>>
    /\ link = "up" =>
         \/ wire[Peer(e)] # <<>> /\ wire[Peer(e)][1].kind \in {"Started", "Flush"}
         \/ /\ wire[Peer(e)] = <<>> /\ starting[Peer(e)]
            /\ ~remote_started[Peer(e)] /\ serving[Peer(e)] = <<>>

\* Every step keeps the wires of a connection that is down empty.
LEMMA NextConnected == TypeOK /\ Connected /\ [Next]_vars => Connected'
<1> SUFFICES ASSUME TypeOK, Connected, [Next]_vars PROVE Connected'
  OBVIOUS
<1> USE DEF Connected
<1>1. CASE disconnect
  BY <1>1 DEF disconnect
<1>2. CASE connect \/ reconnect
  BY <1>2 DEF connect, reconnect
<1>3. ASSUME NEW e \in Ends, start_handling_messages(e) PROVE Connected'
  BY <1>3 DEF start_handling_messages, OntoWire, TypeOK
<1>4. ASSUME NEW e \in Ends, NEW kind \in Originals(e), send(e, kind) PROVE Connected'
  BY <1>4 DEF send, send_buffered, OntoWire, TypeOK
<1>5. ASSUME NEW e \in Ends, NEW i \in DOMAIN serving[e], respond(e, i) PROVE Connected'
  BY <1>5 DEF respond, send_buffered, OntoWire, TypeOK
<1>6. ASSUME NEW e \in Ends, NEW c \in response_channels[e], drop_stream(e, c) PROVE Connected'
  BY <1>6 DEF drop_stream, transport
<1>7. ASSUME NEW e \in Ends, receive(e) PROVE Connected'
  <2>1. link = "up"
    BY <1>7, PeerType DEF receive, receive_flush, receive_started, receive_message, receive_late,
       receive_response, receive_item, receive_flushed, resolve, record, take
  <2>2. link' = link
    BY <1>7 DEF receive, receive_flush, receive_started, receive_message, receive_late,
       receive_response, receive_item, receive_flushed, resolve, record, acknowledge
  <2> QED
    BY <2>1, <2>2
<1>8. CASE UNCHANGED vars
  BY <1>8 DEF vars, transport
<1> QED
  BY <1>1, <1>2, <1>3, <1>4, <1>5, <1>6, <1>7, <1>8 DEF Next

\* The first member of a sequence stays where it is when others are added.
LEMMA FirstStays ==
  ASSUME NEW S, NEW s \in Seq(S), NEW t \in Seq(S), s # <<>>
  PROVE  s \o t # <<>> /\ (s \o t)[1] = s[1]
<1>1. Len(s) \in Nat \ {0} /\ Len(t) \in Nat
  BY EmptySeq, LenProperties
<1>2. Len(s \o t) = Len(s) + Len(t) /\ (s \o t)[1] = s[1]
  BY <1>1, ConcatProperties
<1> QED
  BY <1>1, <1>2, EmptySeq

\* Every turn of the handling loop takes the first envelope and only adds to its own wire.
LEMMA ReceiveWire ==
  ASSUME TypeOK, NEW e \in Ends, receive(e)
  PROVE  /\ take(e) /\ wire'[Peer(e)] = Tail(wire[Peer(e)])
         /\ \E t \in Seq(Envelope) : wire'[e] = wire[e] \o t
         /\ UNCHANGED <<link, starting, said, drops, posted>>
<1> USE PeerType
<1>0. <<>> \in Seq(Envelope) /\ Range(<<>>) = {} /\ wire[e] = wire[e] \o <<>>
  BY EmptySeq, ConcatEmptySeq DEF TypeOK, Range
<1>1. ASSUME record(e), wire' = [wire EXCEPT ![Peer(e)] = Tail(@)]
      PROVE  /\ wire'[Peer(e)] = Tail(wire[Peer(e)])
             /\ \E t \in Seq(Envelope) : wire'[e] = wire[e] \o t
  BY <1>0, <1>1 DEF TypeOK
<1>2. ASSUME take(e), NEW first \in Seq(Envelope), Range(first) \subseteq Range(Kept(e)),
             acknowledge(e, first)
      PROVE  /\ wire'[Peer(e)] = Tail(wire[Peer(e)])
             /\ \E t \in Seq(Envelope) : wire'[e] = wire[e] \o t
  <2>1. /\ wire'[e] = (wire[e] \o first) \o <<AckOf(e)>> /\ AckOf(e) \in Envelope
        /\ wire'[Peer(e)] = Tail(wire[Peer(e)])
    BY <1>2, AckEnvelopes DEF AckOf
  <2>2. wire[e] \in Seq(Envelope)
    BY DEF TypeOK
  <2> DEFINE last == <<AckOf(e)>>
  <2>3. wire'[e] = (wire[e] \o first) \o last /\ last \in Seq(Envelope)
    BY <2>1, RangeOne
  <2> HIDE DEF last
  <2>4. (wire[e] \o first) \o last = wire[e] \o (first \o last)
    <3>1. last \in Seq(Envelope)
      BY <2>3
    <3>2. \A a, b, c \in Seq(Envelope) : (a \o b) \o c = a \o (b \o c)
      BY ConcatAssociative
    <3> QED
      BY <1>2, <2>2, <3>1, <3>2, Zenon
  <2>5. first \o last \in Seq(Envelope)
    BY <2>3, RangeConcat
  <2> QED
    BY <2>1, <2>3, <2>4, <2>5
<1>3. CASE receive_flush(e)
  <2>1. take(e) /\ acknowledge(e, Kept(e))
    BY <1>3 DEF receive_flush
  <2>2. Kept(e) \in Seq(Envelope)
    BY <2>1, TakeEnvelopes
  <2> QED
    BY <1>2, <2>1, <2>2 DEF acknowledge, history
<1>4. CASE receive_started(e)
  <2>1. take(e) /\ acknowledge(e, <<>>)
    BY <1>4 DEF receive_started
  <2> QED
    BY <1>0, <1>2, <2>1 DEF acknowledge, history
<1>5. CASE receive_message(e) \/ receive_late(e)
  BY <1>1, <1>5 DEF receive_message, receive_late, record
<1>6. ASSUME NEW c \in response_channels[e], receive_response(e, c) \/ receive_item(e, c)
      PROVE  /\ take(e) /\ wire'[Peer(e)] = Tail(wire[Peer(e)])
             /\ \E t \in Seq(Envelope) : wire'[e] = wire[e] \o t
             /\ UNCHANGED <<link, starting, said, drops, posted>>
  BY <1>1, <1>6 DEF receive_response, receive_item, resolve, record
<1>7. ASSUME NEW c \in response_channels[e], e = "client", receive_flushed(c)
      PROVE  /\ take(e) /\ wire'[Peer(e)] = Tail(wire[Peer(e)])
             /\ \E t \in Seq(Envelope) : wire'[e] = wire[e] \o t
             /\ UNCHANGED <<link, starting, said, drops, posted>>
  <2>1. record(e) /\ take(e) /\ Peer(e) = "server"
    BY <1>7 DEF receive_flushed, resolve, record, Peer
  <2>2. wire'[e] = wire[e] \o Kept(e) /\ wire'["server"] = Tail(wire["server"])
    BY <1>7, <2>1, FlushedEnvelopes DEF receive_flushed
  <2>3. Kept(e) \in Seq(Envelope)
    BY <2>1, TakeEnvelopes
  <2> QED
    BY <2>1, <2>2, <2>3 DEF record
<1> QED
  BY <1>3, <1>4, <1>5, <1>6, <1>7 DEF receive

\* So does a send.
LEMMA SendWire ==
  ASSUME TypeOK, NEW e \in Ends, NEW kind \in Kinds, NEW to \in Nat \cup {NoId},
         send_buffered(e, kind, to)
  PROVE  /\ wire'[Peer(e)] = wire[Peer(e)]
         /\ \E t \in Seq(Envelope) : wire'[e] = wire[e] \o t
<1> DEFINE m == Outgoing(e, kind, to)
<1>1. m \in Envelope
  BY DEF TypeOK, Outgoing, Envelope
<1>2. wire' = [wire EXCEPT ![e] = OntoWire(e, <<m>>)]
  BY DEF send_buffered
<1> HIDE DEF m
<1>3. <<>> \in Seq(Envelope) /\ wire[e] = wire[e] \o <<>> /\ <<m>> \in Seq(Envelope)
  BY <1>1, EmptySeq, ConcatEmptySeq, RangeOne DEF TypeOK
<1>4. wire'[Peer(e)] = wire[Peer(e)] /\ wire'[e] = OntoWire(e, <<m>>)
  BY <1>2, PeerType DEF TypeOK
<1> QED
  BY <1>3, <1>4 DEF OntoWire

\* Every step keeps an envelope that is acknowledged in front of the first request.
LEMMA NextGreeted == TypeOK /\ Marked /\ Connected /\ Greeted /\ [Next]_vars => Greeted'
<1> SUFFICES ASSUME TypeOK, Marked, Connected, Greeted, [Next]_vars,
                    NEW e \in Ends, next_message_id'[e] = 0, NEW p \in Ends, p = Peer(e)
             PROVE  /\ serving'[e] = <<>>
                    /\ link' = "up" =>
                         \/ wire'[p] # <<>> /\ wire'[p][1].kind \in {"Started", "Flush"}
                         \/ /\ wire'[p] = <<>> /\ starting'[p]
                            /\ ~remote_started'[p] /\ serving'[p] = <<>>
  BY PeerType DEF Greeted
<1> DEFINE Goal == /\ serving'[e] = <<>>
                   /\ link' = "up" =>
                        \/ wire'[p] # <<>> /\ wire'[p][1].kind \in {"Started", "Flush"}
                        \/ /\ wire'[p] = <<>> /\ starting'[p]
                           /\ ~remote_started'[p] /\ serving'[p] = <<>>
<1>0. p # e /\ Peer(p) = e /\ \A x \in Ends : x = e \/ x = p
  BY DEF Ends, Peer
<1>a. wire[p] \in Seq(Envelope) /\ wire[e] \in Seq(Envelope)
  BY DEF TypeOK
<1>b. ASSUME next_message_id[e] = 0, link = "up", serving'[e] = serving[e],
             wire[p] # <<>>, NEW t \in Seq(Envelope), wire'[p] = wire[p] \o t
      PROVE  Goal
  <2>1. wire'[p] # <<>> /\ wire'[p][1] = wire[p][1]
    BY <1>a, <1>b, FirstStays
  <2> QED
    BY <1>b, <2>1 DEF Greeted
<1>c. ASSUME next_message_id[e] = 0, UNCHANGED <<link, serving, wire, starting, remote_started>>
      PROVE  Goal
  BY <1>c DEF Greeted
<1>1. CASE disconnect
  BY <1>1 DEF disconnect, Greeted
<1>2. CASE connect
  BY <1>2 DEF connect, Greeted, Connected
<1>3. CASE reconnect
  <2>1. e = "server" /\ p = "client" /\ next_message_id[e] = 0
    <3>1. e # "client"
      BY <1>3 DEF reconnect, TypeOK
    <3> QED
      BY <1>3, <3>1 DEF reconnect, TypeOK, Ends, Peer
  <2>2. wire[p] = <<>> /\ wire'[p] = Append(wire[p], Outgoing("client", "Flush", NoId))
    BY <1>3, <2>1 DEF reconnect, Connected, TypeOK
  <2>3. wire'[p] # <<>> /\ wire'[p][1].kind = "Flush"
    BY <2>2 DEF Outgoing
  <2> QED
    BY <1>3, <2>1, <2>3 DEF reconnect, Greeted
<1>4. ASSUME NEW x \in Ends, start_handling_messages(x) PROVE Goal
  <2>1. next_message_id[e] = 0 /\ UNCHANGED <<link, serving, remote_started>>
    BY <1>4 DEF start_handling_messages
  <2> DEFINE hello == [id |-> 0, kind |-> "Started", responding_to |-> NoId, ack_id |-> NoId]
  <2>2. CASE x = e
    <3>1. wire'[p] = wire[p] /\ starting'[p] = starting[p]
      BY <1>0, <1>4, <2>2 DEF start_handling_messages, TypeOK
    <3> QED
      BY <2>1, <3>1 DEF Greeted
  <2>3. CASE x = p
    <3>1. wire'[p] = OntoWire(p, <<hello>>) /\ hello \in Envelope
      BY <1>4, <2>3 DEF start_handling_messages, TypeOK, Envelope, Kinds
    <3>2. CASE link # "up"
      BY <2>1, <3>2 DEF Greeted
    <3>3. CASE link = "up" /\ wire[p] # <<>>
      <4>1. <<hello>> \in Seq(Envelope) /\ wire'[p] = wire[p] \o <<hello>>
        BY <3>1, <3>3, RangeOne DEF OntoWire
      <4> QED
        BY <1>b, <2>1, <3>3, <4>1
    <3>4. CASE link = "up" /\ wire[p] = <<>>
      <4>1. wire'[p] = <<hello>>
        BY <3>1, <3>4 DEF OntoWire
      <4> QED
        BY <2>1, <4>1 DEF Greeted
    <3> QED
      BY <3>2, <3>3, <3>4
  <2> QED
    BY <1>0, <2>2, <2>3
<1>5. ASSUME NEW x \in Ends, NEW kind \in Kinds, NEW to \in Nat \cup {NoId},
             send_buffered(x, kind, to), link' = link, UNCHANGED <<starting, remote_started>>,
             remote_started[x] \/ serving[x] # <<>>,
             \A y \in Ends \ {x} : serving'[y] = serving[y]
      PROVE  Goal
  <2>1. x = p
    BY <1>0, <1>5 DEF send_buffered, TypeOK
  <2>2. next_message_id[e] = 0
    BY <1>0, <1>5, <2>1 DEF send_buffered, TypeOK
  <2>3. CASE link # "up"
    BY <1>0, <1>5, <2>1, <2>2, <2>3 DEF Greeted
  <2>4. CASE link = "up"
    <3>1. wire[p] # <<>>
      BY <1>5, <2>1, <2>2, <2>4 DEF Greeted
    <3>2. \E t \in Seq(Envelope) : wire'[p] = wire[p] \o t
      BY <1>5, <2>1, SendWire
    <3> QED
      BY <1>0, <1>5, <1>b, <2>1, <2>2, <2>4, <3>1, <3>2
  <2> QED
    BY <2>3, <2>4
<1>6. ASSUME NEW x \in Ends, NEW kind \in Originals(x), send(x, kind) PROVE Goal
  <2>1. kind \in Kinds
    BY <1>6, SendFacts
  <2> QED
    BY <1>5, <1>6, <2>1 DEF send
<1>7. ASSUME NEW x \in Ends, NEW i \in DOMAIN serving[x], respond(x, i) PROVE Goal
  <2>1. serving[x] # <<>>
    BY <1>7
  <2>2. PICK kind \in Answers, work \in Range(serving[x]) :
           work \in Work /\ send_buffered(x, kind, work.id)
    BY <1>7, RespondFacts
  <2>3. kind \in Kinds /\ work.id \in Nat
    BY <2>2 DEF Kinds, Work
  <2>4. \A y \in Ends \ {x} : serving'[y] = serving[y]
    BY <1>7 DEF respond, TypeOK
  <2>5. UNCHANGED <<link, starting, remote_started>>
    BY <1>7 DEF respond
  <2> QED
    BY <1>5, <2>1, <2>2, <2>3, <2>4, <2>5
<1>8. ASSUME NEW x \in Ends, NEW c \in response_channels[x], drop_stream(x, c) PROVE Goal
  BY <1>c, <1>8 DEF drop_stream, transport
<1>9. ASSUME NEW x \in Ends, receive(x) PROVE Goal
  <2>1. /\ take(x) /\ link = "up" /\ link' = "up"
        /\ \E t \in Seq(Envelope) : wire'[x] = wire[x] \o t
    BY <1>9, ReceiveWire, PeerType DEF take, Connected
  <2>2. CASE x = e
    <3>1. next_message_id[e] = 0
      BY <1>9, <2>2 DEF receive, receive_flush, receive_started, receive_message, receive_late,
         receive_response, receive_item, receive_flushed, resolve, record, acknowledge, TypeOK
    <3>2. Incoming(e).kind \in {"Started", "Flush"}
      BY <2>1, <2>2, <3>1 DEF Greeted, take, Incoming
    <3>3. receive_flush(e) \/ receive_started(e)
      BY <1>9, <2>2, <3>2 DEF receive, receive_message, receive_late,
         receive_response, receive_item, receive_flushed, resolve, record
    <3>4. next_message_id'[e] = next_message_id[e] + 1
      BY <3>3 DEF receive_flush, receive_started, acknowledge, TypeOK
    <3> QED
      BY <3>1, <3>4
  <2>3. CASE x = p
    <3>1. next_message_id[e] = 0
      BY <1>0, <1>9, <2>3 DEF receive, receive_flush, receive_started, receive_message, receive_late,
         receive_response, receive_item, receive_flushed, resolve, record, acknowledge, TypeOK
    <3>2. serving'[e] = serving[e]
      BY <1>0, <1>9, <2>3 DEF receive, receive_flush, receive_started, receive_message, receive_late,
         receive_response, receive_item, receive_flushed, resolve, record, acknowledge, TypeOK
    <3>3. wire[p] # <<>>
      BY <2>1, <2>3, <3>1 DEF Greeted, take
    <3> QED
      BY <1>b, <2>1, <2>3, <3>1, <3>2, <3>3
  <2> QED
    BY <1>0, <2>2, <2>3
<1>10. CASE UNCHANGED vars
  BY <1>c, <1>10 DEF vars, transport
<1> QED
  BY <1>1, <1>2, <1>3, <1>4, <1>6, <1>7, <1>8, <1>9, <1>10 DEF Next

\* n is no id, the id of a hello or an id that e has given out.
Issued(e, n) == n <= 0 \/ n < next_message_id[e]

\* Every id there is has been given out, and what is kept in the buffer has a positive one.
Numbered ==
  \A e \in Ends :
    /\ remote_started[e] => next_message_id[e] > 0
    /\ \A id \in posted[e] : 0 < id /\ id < next_message_id[e]
    /\ Issued(Peer(e), max_received[e])
    /\ \A m \in Envelopes(e) :
         /\ IF m.kind = "Started" THEN m.id = 0 ELSE m.id < next_message_id[e]
         /\ Issued(Peer(e), m.responding_to) /\ Issued(Peer(e), m.ack_id)
    /\ \A c \in response_channels[e] : c.id < next_message_id[e]
    /\ \A w \in Range(serving[e]) : w.id < next_message_id[Peer(e)]

\* The types that Numbered compares.
LEMMA IdTypes ==
  ASSUME TypeOK, NEW e \in Ends
  PROVE  /\ next_message_id[e] \in Nat /\ max_received[e] \in Nat /\ posted[e] \subseteq Nat
         /\ \A m \in Envelopes(e) : /\ m.id \in Nat /\ m.responding_to \in Nat \cup {NoId}
                                    /\ m.ack_id \in Nat \cup {NoId} /\ m.kind \in Kinds
         /\ \A c \in response_channels[e] : c.id \in Nat
         /\ serving[e] \in Seq(Work) /\ \A w \in Range(serving[e]) : w.id \in Nat
         /\ NoId = -1
<1>1. serving[e] \in Seq(Work)
  BY DEF TypeOK, Work
<1>2. \A w \in Range(serving[e]) : w.id \in Nat
  <2>1. Range(serving[e]) \in SUBSET Work
    BY <1>1, RangeOfSeq
  <2> QED
    BY <2>1 DEF Work
<1>3. \A m \in Envelopes(e) : /\ m.id \in Nat /\ m.responding_to \in Nat \cup {NoId}
                              /\ m.ack_id \in Nat \cup {NoId} /\ m.kind \in Kinds
  BY EnvelopeTypes DEF Envelope
<1>4. response_channels[e] \subseteq [id : Nat, kind : {"Request", "Stream", "Flush"}]
  BY DEF TypeOK
<1> QED
  BY <1>1, <1>2, <1>3, <1>4 DEF TypeOK, NoId

\* Every step uses only ids that were handed out.
LEMMA NextNumbered == TypeOK /\ Marked /\ Greeted /\ Numbered /\ [Next]_vars => Numbered'
<1> SUFFICES ASSUME TypeOK, Marked, Greeted, Numbered, [Next]_vars PROVE Numbered'
  OBVIOUS
<1>0. TypeOK'
  BY NextTypeOK
<1>a. \A x \in Ends :
        /\ next_message_id[x] \in Nat /\ max_received[x] \in Nat /\ posted[x] \subseteq Nat
        /\ \A m \in Envelopes(x) : /\ m.id \in Nat /\ m.responding_to \in Int
                                   /\ m.ack_id \in Int /\ m.kind \in Kinds
        /\ \A c \in response_channels[x] : c.id \in Nat
        /\ \A w \in Range(serving[x]) : w.id \in Nat
        /\ Peer(x) \in Ends /\ Peer(x) # x /\ Peer(Peer(x)) = x
        /\ \A y \in Ends : y = x \/ y = Peer(x)
  <2>1. \A x \in Ends : \A y \in Ends : y = x \/ y = Peer(x)
    BY DEF Ends, Peer
  <2> QED
    BY <2>1, IdTypes, PeerType
<1>t. /\ next_message_id \in [Ends -> Nat] /\ posted \in [Ends -> SUBSET Nat]
      /\ remote_started \in [Ends -> BOOLEAN]
  BY DEF TypeOK
<1> USE DEF Numbered, Issued
<1>1. CASE disconnect
  <2>1. \A x \in Ends : Envelopes(x)' \subseteq Envelopes(x)
    BY <1>1 DEF disconnect, Envelopes, Range
  <2> QED
    BY <1>1, <2>1 DEF disconnect, history
<1>2. CASE connect
  BY <1>2 DEF connect, history, Envelopes
<1>3. CASE reconnect
  <2> DEFINE n == next_message_id["client"]
             flush == Outgoing("client", "Flush", NoId)
             ch == Channel("client", "Flush")
  <2>1. /\ next_message_id' = [next_message_id EXCEPT !["client"] = n + 1]
        /\ response_channels' = [response_channels EXCEPT !["client"] = @ \cup {ch}]
        /\ UNCHANGED <<max_received, remote_started, serving, posted>>
    BY <1>3 DEF reconnect, history
  <2>2. /\ "client" \in Ends /\ Peer("client") = "server" /\ flush.id = n /\ flush.kind = "Flush"
        /\ flush.responding_to = -1 /\ flush.ack_id = max_received["client"]
        /\ ch.id = n
    BY DEF Ends, Peer, Outgoing, Channel, NoId
  <2>3. \A x \in Ends : Envelopes(x)' \subseteq Envelopes(x) \cup (IF x = "client" THEN {flush} ELSE {})
    BY <1>3, ReconnectEnvelopes DEF Ends
  <2> HIDE DEF flush, ch
  <2>4. \A x \in Ends : next_message_id'[x] \in Nat /\ next_message_id'[x] >= next_message_id[x]
    BY <1>a, <2>1 DEF TypeOK
  <2>5. n \in Nat /\ n < next_message_id'["client"]
    BY <1>a, <2>1, <2>2 DEF TypeOK
  <2>6. \A x \in Ends : \A m \in Envelopes(x)' :
          /\ IF m.kind = "Started" THEN m.id = 0 ELSE m.id < next_message_id'[x]
          /\ Issued(Peer(x), m.responding_to)' /\ Issued(Peer(x), m.ack_id)'
    BY <1>a, <2>2, <2>3, <2>4, <2>5
  <2>7. \A x \in Ends : \A c \in response_channels'[x] : c.id < next_message_id'[x]
    <3>1. \A x \in Ends : response_channels'[x] \subseteq
            response_channels[x] \cup (IF x = "client" THEN {ch} ELSE {})
      BY <2>1 DEF TypeOK
    <3> QED
      BY <1>a, <2>2, <2>4, <2>5, <3>1
  <2> QED
    BY <1>a, <2>1, <2>4, <2>6, <2>7
<1>4. ASSUME NEW e \in Ends, start_handling_messages(e) PROVE Numbered'
  <2> DEFINE hello == [id |-> 0, kind |-> "Started", responding_to |-> NoId, ack_id |-> NoId]
  <2>1. \A x \in Ends : Envelopes(x)' \subseteq Envelopes(x) \cup {hello}
    <3>1. /\ Envelopes(e)' \subseteq Envelopes(e) \cup {hello}
          /\ Envelopes(Peer(e))' = Envelopes(Peer(e))
      BY <1>4, StartedEnvelopes
    <3> HIDE DEF hello
    <3> QED
      BY <1>a, <3>1
  <2>2. hello.id = 0 /\ hello.kind = "Started" /\ hello.responding_to = -1 /\ hello.ack_id = -1
    BY DEF NoId
  <2> HIDE DEF hello
  <2> QED
    BY <1>4, <2>1, <2>2 DEF start_handling_messages, history
<1>5. ASSUME NEW e \in Ends, NEW kind \in Kinds, kind # "Started", NEW to \in Nat \cup {NoId},
             send_buffered(e, kind, to), Issued(Peer(e), to), next_message_id[e] > 0,
             Envelopes(e)' = Envelopes(e) \cup {Outgoing(e, kind, to)},
             Envelopes(Peer(e))' = Envelopes(Peer(e)),
             UNCHANGED <<max_received, remote_started>>
      PROVE  /\ \A x \in Ends : next_message_id'[x] \in Nat /\ next_message_id'[x] >= next_message_id[x]
             /\ next_message_id'[e] = next_message_id[e] + 1
             /\ \A x \in Ends :
                  /\ remote_started'[x] => next_message_id'[x] > 0
                  /\ \A id \in posted'[x] : 0 < id /\ id < next_message_id'[x]
                  /\ Issued(Peer(x), max_received[x])'
                  /\ \A m \in Envelopes(x)' :
                       /\ IF m.kind = "Started" THEN m.id = 0 ELSE m.id < next_message_id'[x]
                       /\ Issued(Peer(x), m.responding_to)' /\ Issued(Peer(x), m.ack_id)'
  <2> DEFINE out == Outgoing(e, kind, to)
  <2>1. /\ next_message_id' = [next_message_id EXCEPT ![e] = next_message_id[e] + 1]
        /\ posted' = [posted EXCEPT ![e] = posted[e] \cup {next_message_id[e]}]
    BY <1>5 DEF send_buffered, Outgoing
  <2>2. /\ out.id = next_message_id[e] /\ out.kind = kind /\ out.responding_to = to
        /\ out.ack_id = max_received[e]
    BY DEF Outgoing
  <2>3. Envelopes(e)' = Envelopes(e) \cup {out}
    BY <1>5
  <2> HIDE DEF out
  <2>4. /\ \A x \in Ends : next_message_id'[x] \in Nat /\ next_message_id'[x] >= next_message_id[x]
        /\ next_message_id'[e] = next_message_id[e] + 1
    BY <1>a, <1>t, <2>1
  <2>5. \A x \in Ends : remote_started'[x] => next_message_id'[x] > 0
    BY <1>5, <1>a, <2>4
  <2>6. \A x \in Ends : \A id \in posted'[x] : 0 < id /\ id < next_message_id'[x]
    BY <1>5, <1>a, <1>t, <2>1, <2>4
  <2>7. \A x \in Ends : Issued(Peer(x), max_received[x])'
    BY <1>5, <1>a, <2>4
  <2>8. \A x \in Ends : \A m \in Envelopes(x)' :
          /\ IF m.kind = "Started" THEN m.id = 0 ELSE m.id < next_message_id'[x]
          /\ Issued(Peer(x), m.responding_to)' /\ Issued(Peer(x), m.ack_id)'
    <3>1. \A m \in Envelopes(Peer(e))' :
            /\ IF m.kind = "Started" THEN m.id = 0 ELSE m.id < next_message_id'[Peer(e)]
            /\ Issued(e, m.responding_to)' /\ Issued(e, m.ack_id)'
      BY <1>5, <1>a, <2>4
    <3>2. \A m \in Envelopes(e)' :
            /\ IF m.kind = "Started" THEN m.id = 0 ELSE m.id < next_message_id'[e]
            /\ Issued(Peer(e), m.responding_to)' /\ Issued(Peer(e), m.ack_id)'
      BY <1>5, <1>a, <2>2, <2>3, <2>4 DEF NoId
    <3> QED
      BY <1>a, <3>1, <3>2
  <2> QED
    BY <2>4, <2>5, <2>6, <2>7, <2>8
<1>6. ASSUME NEW e \in Ends, NEW kind \in Originals(e), send(e, kind) PROVE Numbered'
  <2>1. /\ kind \in Kinds /\ kind # "Started" /\ Issued(Peer(e), NoId)
        /\ send_buffered(e, kind, NoId) /\ next_message_id[e] > 0
        /\ Envelopes(e)' = Envelopes(e) \cup {Outgoing(e, kind, NoId)}
        /\ Envelopes(Peer(e))' = Envelopes(Peer(e))
        /\ UNCHANGED <<max_received, remote_started, serving>>
    <3>1. remote_started[e] /\ kind \in Kinds \ Answers /\ kind # "Started"
      BY <1>6, SendFacts DEF Kinds
    <3>2. Issued(Peer(e), NoId)
      BY DEF NoId
    <3>3. /\ send_buffered(e, kind, NoId)
          /\ Envelopes(e)' = Envelopes(e) \cup {Outgoing(e, kind, NoId)}
          /\ Envelopes(Peer(e))' = Envelopes(Peer(e))
      BY <1>6, SendFacts
    <3>4. UNCHANGED <<max_received, remote_started, serving>>
      BY <1>6 DEF send
    <3>5. next_message_id[e] > 0
      BY <3>1
    <3> QED
      BY <3>1, <3>2, <3>3, <3>4, <3>5
  <2> DEFINE ch == Channel(e, kind)
  <2>2. /\ response_channels'[e] \subseteq response_channels[e] \cup {ch}
        /\ response_channels'[Peer(e)] = response_channels[Peer(e)]
    BY <1>6, <1>a DEF send, TypeOK
  <2>3. ch.id = next_message_id[e]
    BY DEF Channel
  <2> HIDE DEF ch
  <2>4. /\ \A x \in Ends : next_message_id'[x] \in Nat /\ next_message_id'[x] >= next_message_id[x]
        /\ next_message_id'[e] = next_message_id[e] + 1
    BY <1>5, <2>1
  <2>5. \A x \in Ends : \A c \in response_channels'[x] : c.id < next_message_id'[x]
    BY <1>a, <2>2, <2>3, <2>4
  <2>6. \A x \in Ends : \A w \in Range(serving'[x]) : w.id < next_message_id'[Peer(x)]
    BY <1>a, <2>1, <2>4
  <2> QED
    BY <1>5, <2>1, <2>5, <2>6
<1>7. ASSUME NEW e \in Ends, NEW i \in DOMAIN serving[e], respond(e, i) PROVE Numbered'
  <2>1. PICK kind \in Answers, work \in Range(serving[e]) :
           /\ work \in Work /\ send_buffered(e, kind, work.id)
           /\ Envelopes(e)' = Envelopes(e) \cup {Outgoing(e, kind, work.id)}
           /\ Envelopes(Peer(e))' = Envelopes(Peer(e))
           /\ serving'[Peer(e)] = serving[Peer(e)]
           /\ \A w \in Range(serving'[e]) :
                \E v \in Range(serving[e]) : v.id = w.id /\ v.kind = w.kind
    BY <1>7, RespondFacts
  <2>2. kind \in Kinds /\ kind # "Started" /\ work.id \in Nat /\ Issued(Peer(e), work.id)
    BY <1>a, <2>1 DEF Kinds, Answers
  <2>3. next_message_id[e] > 0
    <3>1. serving[e] # <<>>
      BY <1>7
    <3> QED
      BY <1>a, <3>1 DEF Greeted
  <2>4. UNCHANGED <<max_received, remote_started, response_channels>>
    BY <1>7 DEF respond
  <2>5. \A x \in Ends : next_message_id'[x] \in Nat /\ next_message_id'[x] >= next_message_id[x]
    BY <1>5, <2>1, <2>2, <2>3, <2>4
  <2>6. \A x \in Ends : \A c \in response_channels'[x] : c.id < next_message_id'[x]
    BY <1>a, <2>4, <2>5
  <2>7. \A x \in Ends : \A w \in Range(serving'[x]) : w.id < next_message_id'[Peer(x)]
    <3>1. \A w \in Range(serving'[e]) : w.id < next_message_id'[Peer(e)]
      BY <1>a, <2>1, <2>5
    <3>2. \A w \in Range(serving'[Peer(e)]) : w.id < next_message_id'[e]
      BY <1>a, <2>1, <2>5
    <3> QED
      BY <1>a, <3>1, <3>2
  <2> QED
    BY <1>5, <2>1, <2>2, <2>3, <2>4, <2>6, <2>7
<1>8. ASSUME NEW e \in Ends, NEW c \in response_channels[e], drop_stream(e, c) PROVE Numbered'
  BY <1>8 DEF drop_stream, transport, history, Envelopes, TypeOK
<1>9. ASSUME NEW e \in Ends, receive_flush(e) \/ receive_started(e) PROVE Numbered'
  <2>1. /\ Incoming(e) \in Envelopes(Peer(e))
        /\ Envelopes(e)' \subseteq Envelopes(e) \cup {AckOf(e)}
        /\ Envelopes(Peer(e))' \subseteq Envelopes(Peer(e))
        /\ next_message_id' = [next_message_id EXCEPT ![e] = @ + 1]
        /\ remote_started' \in {remote_started, [remote_started EXCEPT ![e] = TRUE]}
        /\ UNCHANGED <<max_received, response_channels, serving, posted>>
    BY <1>9, ControlFacts
  <2>2. /\ AckOf(e).id = next_message_id[e] /\ AckOf(e).kind = "Ack"
        /\ AckOf(e).responding_to = Incoming(e).id /\ AckOf(e).ack_id = -1
    BY DEF AckOf, NoId
  <2>3. Incoming(e).id \in Nat /\ Issued(Peer(e), Incoming(e).id)
    BY <1>a, <2>1
  <2>4. /\ \A x \in Ends : next_message_id'[x] \in Nat /\ next_message_id'[x] >= next_message_id[x]
        /\ next_message_id'[e] = next_message_id[e] + 1
        /\ next_message_id'[Peer(e)] = next_message_id[Peer(e)]
    BY <1>a, <1>t, <2>1
  <2>5. \A x \in Ends : remote_started'[x] => next_message_id'[x] > 0
    BY <1>a, <1>t, <2>1, <2>4
  <2>6. \A m \in Envelopes(e)' :
          /\ IF m.kind = "Started" THEN m.id = 0 ELSE m.id < next_message_id'[e]
          /\ Issued(Peer(e), m.responding_to)' /\ Issued(Peer(e), m.ack_id)'
    BY <1>a, <2>1, <2>2, <2>3, <2>4
  <2>7. \A m \in Envelopes(Peer(e))' :
          /\ IF m.kind = "Started" THEN m.id = 0 ELSE m.id < next_message_id'[Peer(e)]
          /\ Issued(e, m.responding_to)' /\ Issued(e, m.ack_id)'
    BY <1>a, <2>1, <2>4
  <2>8. \A x \in Ends : \A m \in Envelopes(x)' :
          /\ IF m.kind = "Started" THEN m.id = 0 ELSE m.id < next_message_id'[x]
          /\ Issued(Peer(x), m.responding_to)' /\ Issued(Peer(x), m.ack_id)'
    BY <1>a, <2>6, <2>7
  <2> QED
    BY <1>a, <2>1, <2>4, <2>5, <2>8
<1>10. ASSUME NEW e \in Ends, record(e), \A x \in Ends : Envelopes(x)' \subseteq Envelopes(x),
              \A x \in Ends : response_channels'[x] \subseteq response_channels[x],
              serving'[Peer(e)] = serving[Peer(e)],
              \A w \in Range(serving'[e]) : w \in Range(serving[e]) \/ w.id = Incoming(e).id
       PROVE  Numbered'
  <2>1. /\ Incoming(e) \in Envelopes(Peer(e)) /\ Incoming(e).kind \notin {"Flush", "Started"}
        /\ UNCHANGED <<next_message_id, remote_started, posted>>
        /\ max_received'[e] = Incoming(e).id /\ max_received'[Peer(e)] = max_received[Peer(e)]
    BY <1>10, RecordFacts
  <2>2. Incoming(e).id < next_message_id[Peer(e)]
    BY <1>a, <2>1
  <2>3. \A x \in Ends : Issued(Peer(x), max_received[x])'
    BY <1>a, <2>1, <2>2
  <2>4. \A x \in Ends : \A w \in Range(serving'[x]) : w.id < next_message_id'[Peer(x)]
    BY <1>10, <1>a, <2>1, <2>2
  <2> QED
    BY <1>10, <2>1, <2>3, <2>4
<1>11. ASSUME NEW e \in Ends, receive_message(e) PROVE Numbered'
  BY <1>10, <1>11, MessageFacts, RecordEnvelopes
<1>12. ASSUME NEW e \in Ends, receive_late(e) PROVE Numbered'
  BY <1>10, <1>12, RecordEnvelopes DEF receive_late
<1>13. ASSUME NEW e \in Ends, NEW c \in response_channels[e],
              receive_response(e, c) \/ receive_item(e, c)
       PROVE  Numbered'
  <2>1. /\ record(e) /\ wire' = [wire EXCEPT ![Peer(e)] = Tail(@)] /\ UNCHANGED serving
        /\ \A x \in Ends : response_channels'[x] \subseteq response_channels[x]
    BY <1>13 DEF receive_response, receive_item, resolve, TypeOK
  <2> QED
    BY <1>10, <2>1, RecordEnvelopes
<1>14. ASSUME NEW c \in response_channels["client"], receive_flushed(c) PROVE Numbered'
  <2>1. /\ "client" \in Ends /\ record("client") /\ UNCHANGED serving
        /\ \A x \in Ends : response_channels'[x] \subseteq response_channels[x]
    BY <1>14 DEF receive_flushed, resolve, TypeOK, Ends
  <2>2. \A x \in Ends : Envelopes(x)' \subseteq Envelopes(x)
    BY <1>14, FlushedEnvelopes DEF receive_flushed, resolve, record
  <2> QED
    BY <1>10, <2>1, <2>2
<1>15. CASE UNCHANGED vars
  BY <1>15 DEF vars, transport, history, Envelopes
<1> QED
  BY <1>1, <1>2, <1>3, <1>4, <1>6, <1>7, <1>8, <1>9, <1>11, <1>12, <1>13, <1>14, <1>15
  DEF Next, receive

-----------------------------------------------------------------------------
(* Answers *)

\* What kind of answer a kind of request gets.
Fits(question, answer) ==
  \/ question = "Request" /\ answer = "Response"
  \/ question = "Stream" /\ answer \in {"Chunk", "End"}
  \/ question = "Flush" /\ answer = "Ack"

\* f says for which kind of envelope each id was given out: whoever refers to the id
\* agrees.  Id 0 is also that of the hello, whose Ack resolves a flush at most.
Names(f) ==
  /\ f \in [Ends -> [Nat -> Kinds]]
  /\ \A e \in Ends :
       /\ f[e][0] \notin {"Request", "Stream"}
       /\ \A m \in Envelopes(e) :
            /\ m.kind \in {"Request", "Stream", "Flush"} => f[e][m.id] = m.kind
            /\ m.kind \in Answers => \/ Fits(f[Peer(e)][m.responding_to], m.kind)
                                     \/ m.kind = "Ack" /\ m.responding_to = 0
       /\ \A c \in response_channels[e] : f[e][c.id] = c.kind
       /\ \A w \in Range(serving[e]) : f[Peer(e)][w.id] = w.kind

\* Some function says what each id was asked for.
Named == \E f : Names(f)

\* Without a new question the names stay.
LEMMA NamesKept ==
  ASSUME NEW f, Names(f),
         \A x \in Ends : \A m \in Envelopes(x)' :
           \/ m \in Envelopes(x)
           \/ /\ m.kind \notin {"Request", "Stream", "Flush"}
              /\ m.kind \in Answers => \/ Fits(f[Peer(x)][m.responding_to], m.kind)
                                       \/ m.kind = "Ack" /\ m.responding_to = 0,
         \A x \in Ends : response_channels'[x] \subseteq response_channels[x],
         \A x \in Ends : \A w \in Range(serving'[x]) : f[Peer(x)][w.id] = w.kind
  PROVE  Named'
<1>1. Names(f)'
  BY DEF Names
<1> QED
  BY <1>1 DEF Named

\* A new question has an id that nobody has referred to.
LEMMA NamesExtended ==
  ASSUME TypeOK, Marked, Numbered, Named, NEW e \in Ends,
         NEW kind \in {"Msg", "Request", "Stream", "Flush"},
         next_message_id[e] > 0 \/ kind = "Flush",
         NEW m, m.id = next_message_id[e], m.kind = kind, m.responding_to = NoId,
         Envelopes(e)' \subseteq Envelopes(e) \cup {m},
         Envelopes(Peer(e))' \subseteq Envelopes(Peer(e)),
         NEW c, c.id = next_message_id[e], c.kind = kind,
         response_channels'[e] \subseteq response_channels[e] \cup {c},
         response_channels'[Peer(e)] \subseteq response_channels[Peer(e)],
         UNCHANGED serving
  PROVE  Named'
<1>1. PICK f : Names(f)
  BY DEF Named
<1>2. PICK n : n = next_message_id[e]
  OBVIOUS
<1>3. PICK g : g = [f EXCEPT ![e] = [f[e] EXCEPT ![n] = kind]]
  OBVIOUS
<1>4. PICK p \in Ends : p = Peer(e) /\ Peer(p) = e /\ p # e
  BY PeerType
<1>5. n \in Nat /\ kind \in Kinds /\ (n = 0 => kind = "Flush") /\ \A x \in Ends : x = e \/ x = p
  BY <1>2, <1>4, IdTypes DEF Kinds, Ends
<1>6. /\ g \in [Ends -> [Nat -> Kinds]] /\ g[p] = f[p] /\ g[e][n] = kind
      /\ \A k \in Nat \ {n} : g[e][k] = f[e][k]
      /\ f[e] \in [Nat -> Kinds]
  BY <1>1, <1>3, <1>4, <1>5 DEF Names
<1>7. g[e][0] \notin {"Request", "Stream"} /\ g[p][0] \notin {"Request", "Stream"}
  BY <1>1, <1>5, <1>6 DEF Names
<1>8. ASSUME NEW y \in Envelopes(e)'
      PROVE  /\ y.kind \in {"Request", "Stream", "Flush"} => g[e][y.id] = y.kind
             /\ y.kind \in Answers => \/ Fits(g[p][y.responding_to], y.kind)
                                      \/ y.kind = "Ack" /\ y.responding_to = 0
  <2>1. CASE y = m
    BY <1>2, <1>6, <2>1 DEF Answers
  <2>2. CASE y \in Envelopes(e)
    <3>1. y.kind # "Started" => y.id < n /\ y.id \in Nat
      BY <1>2, <2>2, IdTypes DEF Numbered
    <3>2. y.kind \in {"Request", "Stream", "Flush"} => y.id # n /\ y.id \in Nat
      BY <1>5, <3>1
    <3> QED
      BY <1>1, <1>4, <1>6, <2>2, <3>2 DEF Names
  <2> QED
    BY <1>8, <2>1, <2>2
<1>9. ASSUME NEW y \in Envelopes(p)'
      PROVE  /\ y.kind \in {"Request", "Stream", "Flush"} => g[p][y.id] = y.kind
             /\ y.kind \in Answers => \/ Fits(g[e][y.responding_to], y.kind)
                                      \/ y.kind = "Ack" /\ y.responding_to = 0
  <2>1. y \in Envelopes(p)
    BY <1>4, <1>9
  <2>2. ASSUME y.kind \in Answers
        PROVE  \/ Fits(g[e][y.responding_to], y.kind)
               \/ y.kind = "Ack" /\ y.responding_to = 0
    <3>1. y.responding_to \in Nat /\ (y.responding_to = 0 \/ y.responding_to < n)
      BY <1>2, <1>4, <2>1, <2>2, IdTypes DEF Numbered, Issued, Marked
    <3>2. \/ Fits(f[e][y.responding_to], y.kind)
          \/ y.kind = "Ack" /\ y.responding_to = 0
      BY <1>1, <1>4, <2>1, <2>2 DEF Names
    <3>3. CASE y.responding_to # n
      BY <1>6, <3>1, <3>2, <3>3
    <3>4. CASE y.responding_to = n
      <4>1. n = 0 /\ kind = "Flush"
        BY <1>5, <3>1, <3>4
      <4>2. f[e][0] \notin {"Request", "Stream"}
        BY <1>1 DEF Names
      <4>3. y.kind = "Ack"
        BY <3>2, <3>4, <4>1, <4>2 DEF Fits
      <4> QED
        BY <3>4, <4>1, <4>3
    <3> QED
      BY <3>3, <3>4
  <2> QED
    BY <1>1, <1>6, <2>1, <2>2 DEF Names
<1>10. ASSUME NEW y \in response_channels'[e] PROVE g[e][y.id] = y.kind
  <2>1. CASE y = c
    BY <1>2, <1>6, <2>1
  <2>2. CASE y \in response_channels[e]
    <3>1. y.id < n /\ y.id \in Nat
      BY <1>2, <2>2, IdTypes DEF Numbered
    <3>2. y.id # n
      BY <1>5, <3>1
    <3> QED
      BY <1>1, <1>6, <2>2, <3>1, <3>2 DEF Names
  <2> QED
    BY <1>10, <2>1, <2>2
<1>11. ASSUME NEW y \in response_channels'[p] PROVE g[p][y.id] = y.kind
  BY <1>1, <1>4, <1>6, <1>11 DEF Names
<1>12. ASSUME NEW w \in Range(serving'[e]) PROVE g[p][w.id] = w.kind
  BY <1>1, <1>4, <1>6, <1>12 DEF Names
<1>13. ASSUME NEW w \in Range(serving'[p]) PROVE g[e][w.id] = w.kind
  <2>1. w \in Range(serving[p]) /\ w.id \in Nat /\ w.id < n
    BY <1>2, <1>4, <1>13, IdTypes DEF Numbered
  <2>2. w.id # n
    BY <1>5, <2>1
  <2> QED
    BY <1>1, <1>4, <1>6, <2>1, <2>2 DEF Names
<1>14. Names(g)'
  BY <1>4, <1>5, <1>6, <1>7, <1>8, <1>9, <1>10, <1>11, <1>12, <1>13 DEF Names
<1> QED
  BY <1>14 DEF Named

\* Every step keeps to the kind an id was asked for, or extends the function by a new id.
LEMMA NextNamed == TypeOK /\ Marked /\ Numbered /\ Named /\ [Next]_vars => Named'
<1> SUFFICES ASSUME TypeOK, Marked, Numbered, Named, [Next]_vars PROVE Named'
  OBVIOUS
<1>0. PICK f : Names(f)
  BY DEF Named
<1>a. \A x \in Ends : /\ Peer(x) \in Ends /\ Peer(x) # x /\ Peer(Peer(x)) = x
                     /\ \A y \in Ends : y = x \/ y = Peer(x)
  BY DEF Ends, Peer
<1>b. \A x \in Ends : \A w \in Range(serving[x]) : f[Peer(x)][w.id] = w.kind
  BY <1>0 DEF Names
<1>1. CASE disconnect
  BY <1>0, <1>1, <1>b, NamesKept DEF disconnect, Envelopes, Range
<1>2. CASE connect
  BY <1>0, <1>2, <1>b, NamesKept DEF connect, Envelopes
<1>3. CASE reconnect
  <2> DEFINE m == Outgoing("client", "Flush", NoId)
             c == Channel("client", "Flush")
  <2>1. /\ m.id = next_message_id["client"] /\ m.kind = "Flush" /\ m.responding_to = NoId
        /\ c.id = next_message_id["client"] /\ c.kind = "Flush"
        /\ "client" \in Ends /\ Peer("client") = "server"
    BY DEF Outgoing, Channel, Ends, Peer
  <2>2. /\ Envelopes("client")' = Envelopes("client") \cup {m}
        /\ Envelopes("server")' = Envelopes("server")
    BY <1>3, ReconnectEnvelopes
  <2>3. /\ response_channels'["client"] \subseteq response_channels["client"] \cup {c}
        /\ response_channels'["server"] \subseteq response_channels["server"]
        /\ UNCHANGED serving
    BY <1>3 DEF reconnect, TypeOK, Ends
  <2> HIDE DEF m, c
  <2> QED
    BY <2>1, <2>2, <2>3, NamesExtended
<1>4. ASSUME NEW e \in Ends, start_handling_messages(e) PROVE Named'
  <2> DEFINE hello == [id |-> 0, kind |-> "Started", responding_to |-> NoId, ack_id |-> NoId]
  <2>1. /\ Envelopes(e)' \subseteq Envelopes(e) \cup {hello}
        /\ Envelopes(Peer(e))' = Envelopes(Peer(e))
    BY <1>4, StartedEnvelopes
  <2>2. hello.kind = "Started"
    OBVIOUS
  <2> HIDE DEF hello
  <2>3. \A x \in Ends : \A y \in Envelopes(x)' : y \in Envelopes(x) \/ y.kind = "Started"
    BY <1>a, <2>1, <2>2
  <2> QED
    BY <1>0, <1>4, <1>b, <2>3, NamesKept DEF start_handling_messages, Answers
<1>5. ASSUME NEW e \in Ends, NEW kind \in Originals(e), send(e, kind) PROVE Named'
  <2> DEFINE m == Outgoing(e, kind, NoId)
             c == Channel(e, kind)
  <2>1. /\ m.id = next_message_id[e] /\ m.kind = kind /\ m.responding_to = NoId
        /\ c.id = next_message_id[e] /\ c.kind = kind
    BY DEF Outgoing, Channel
  <2>2. /\ Envelopes(e)' \subseteq Envelopes(e) \cup {m}
        /\ Envelopes(Peer(e))' \subseteq Envelopes(Peer(e))
        /\ kind \in {"Msg", "Request", "Stream", "Flush"} /\ next_message_id[e] > 0
    BY <1>5, SendFacts DEF Numbered
  <2>3. /\ response_channels'[e] \subseteq response_channels[e] \cup {c}
        /\ response_channels'[Peer(e)] \subseteq response_channels[Peer(e)]
        /\ UNCHANGED serving
    BY <1>5, <1>a DEF send, TypeOK
  <2> HIDE DEF m, c
  <2> QED
    BY <2>1, <2>2, <2>3, NamesExtended
<1>6. ASSUME NEW e \in Ends, NEW i \in DOMAIN serving[e], respond(e, i) PROVE Named'
  <2>1. PICK kind \in Answers, work \in Range(serving[e]) :
           /\ \/ kind = "Response" /\ work.kind = "Request"
              \/ kind \in {"Chunk", "End"} /\ work.kind = "Stream"
           /\ Envelopes(e)' = Envelopes(e) \cup {Outgoing(e, kind, work.id)}
           /\ Envelopes(Peer(e))' = Envelopes(Peer(e))
           /\ serving'[Peer(e)] = serving[Peer(e)]
           /\ \A w \in Range(serving'[e]) :
                \E v \in Range(serving[e]) : v.id = w.id /\ v.kind = w.kind
    BY <1>6, RespondFacts
  <2> DEFINE m == Outgoing(e, kind, work.id)
  <2>2. m.kind = kind /\ m.responding_to = work.id
    BY DEF Outgoing
  <2>3. Envelopes(e)' = Envelopes(e) \cup {m}
    BY <2>1
  <2> HIDE DEF m
  <2>4. Fits(f[Peer(e)][m.responding_to], m.kind)
    BY <1>b, <2>1, <2>2 DEF Fits
  <2>5. \A x \in Ends : \A y \in Envelopes(x)' :
           \/ y \in Envelopes(x)
           \/ /\ y.kind \notin {"Request", "Stream", "Flush"}
              /\ y.kind \in Answers => \/ Fits(f[Peer(x)][y.responding_to], y.kind)
                                       \/ y.kind = "Ack" /\ y.responding_to = 0
    <3>1. \A y \in Envelopes(e)' : y \in Envelopes(e) \/ y = m
      BY <2>3
    <3>2. \A y \in Envelopes(Peer(e))' : y \in Envelopes(Peer(e))
      BY <2>1
    <3>3. m.kind \notin {"Request", "Stream", "Flush"}
      BY <2>2 DEF Answers
    <3> QED
      BY <1>a, <2>4, <3>1, <3>2, <3>3
  <2>6. \A x \in Ends : \A w \in Range(serving'[x]) : f[Peer(x)][w.id] = w.kind
    BY <1>a, <1>b, <2>1
  <2>7. \A x \in Ends : response_channels'[x] \subseteq response_channels[x]
    BY <1>6 DEF respond
  <2> QED
    BY <1>0, <2>5, <2>6, <2>7, NamesKept
<1>7. ASSUME NEW e \in Ends, NEW c \in response_channels[e], drop_stream(e, c) PROVE Named'
  <2>1. \A x \in Ends : Envelopes(x)' = Envelopes(x)
    BY <1>7 DEF drop_stream, transport, Envelopes
  <2>2. \A x \in Ends : response_channels'[x] \subseteq response_channels[x]
    BY <1>7 DEF drop_stream, TypeOK
  <2> QED
    BY <1>0, <1>7, <1>b, <2>1, <2>2, NamesKept DEF drop_stream
<1>8. ASSUME NEW e \in Ends, receive_flush(e) \/ receive_started(e) PROVE Named'
  <2>1. /\ Incoming(e) \in Envelopes(Peer(e)) /\ Incoming(e).kind \in {"Flush", "Started"}
        /\ Envelopes(e)' \subseteq Envelopes(e) \cup {AckOf(e)}
        /\ Envelopes(Peer(e))' \subseteq Envelopes(Peer(e))
        /\ UNCHANGED <<response_channels, serving>>
    BY <1>8, ControlFacts
  <2>2. AckOf(e).kind = "Ack" /\ AckOf(e).responding_to = Incoming(e).id
    BY DEF AckOf
  <2>3. Incoming(e).id = 0 \/ Fits(f[Peer(e)][Incoming(e).id], "Ack")
    BY <1>0, <1>a, <2>1 DEF Names, Numbered, Fits
  <2>4. \A x \in Ends : \A y \in Envelopes(x)' :
           \/ y \in Envelopes(x)
           \/ /\ y.kind \notin {"Request", "Stream", "Flush"}
              /\ y.kind \in Answers => \/ Fits(f[Peer(x)][y.responding_to], y.kind)
                                       \/ y.kind = "Ack" /\ y.responding_to = 0
    BY <1>a, <2>1, <2>2, <2>3
  <2> QED
    BY <1>0, <1>b, <2>1, <2>4, NamesKept
<1>9. ASSUME \A x \in Ends : Envelopes(x)' \subseteq Envelopes(x),
             \A x \in Ends : response_channels'[x] \subseteq response_channels[x],
             \A x \in Ends : \A w \in Range(serving'[x]) : f[Peer(x)][w.id] = w.kind
      PROVE  Named'
  BY <1>0, <1>9, NamesKept
<1>10. ASSUME NEW e \in Ends, receive_message(e) PROVE Named'
  <2>1. record(e) /\ wire' = [wire EXCEPT ![Peer(e)] = Tail(@)] /\ UNCHANGED response_channels
    BY <1>10, MessageFacts
  <2>2. \A x \in Ends : Envelopes(x)' \subseteq Envelopes(x)
    BY <2>1, RecordEnvelopes
  <2>3. Incoming(e) \in Envelopes(Peer(e))
    BY <2>1, RecordFacts
  <2>4. \A w \in Range(serving'[e]) : f[Peer(e)][w.id] = w.kind
    <3> SUFFICES ASSUME NEW w \in Range(serving'[e]), w \notin Range(serving[e])
                 PROVE  f[Peer(e)][w.id] = w.kind
      BY <1>b
    <3>1. w.id = Incoming(e).id /\ w.kind = Incoming(e).kind /\ w.kind \in {"Request", "Stream"}
      BY <1>10, MessageFacts
    <3> QED
      BY <1>0, <1>a, <2>3, <3>1 DEF Names
  <2>5. serving'[Peer(e)] = serving[Peer(e)]
    BY <1>10, MessageFacts
  <2> QED
    BY <1>9, <1>a, <1>b, <2>1, <2>2, <2>4, <2>5
<1>11. ASSUME NEW e \in Ends, receive_late(e) PROVE Named'
  BY <1>9, <1>11, <1>b, RecordEnvelopes DEF receive_late
<1>12. ASSUME NEW e \in Ends, NEW c \in response_channels[e],
              receive_response(e, c) \/ receive_item(e, c)
       PROVE  Named'
  <2>1. /\ record(e) /\ wire' = [wire EXCEPT ![Peer(e)] = Tail(@)] /\ UNCHANGED serving
        /\ \A x \in Ends : response_channels'[x] \subseteq response_channels[x]
    BY <1>12 DEF receive_response, receive_item, resolve, TypeOK
  <2> QED
    BY <1>9, <1>b, <2>1, RecordEnvelopes
<1>13. ASSUME NEW c \in response_channels["client"], receive_flushed(c) PROVE Named'
  <2>1. UNCHANGED serving /\ \A x \in Ends : response_channels'[x] \subseteq response_channels[x]
    BY <1>13 DEF receive_flushed, resolve, TypeOK
  <2>2. \A x \in Ends : Envelopes(x)' \subseteq Envelopes(x)
    BY <1>13, FlushedEnvelopes DEF receive_flushed, resolve, record
  <2> QED
    BY <1>9, <1>b, <2>1, <2>2
<1>14. CASE UNCHANGED vars
  BY <1>9, <1>14, <1>b DEF vars, transport, Envelopes
<1> QED
  BY <1>1, <1>2, <1>3, <1>4, <1>5, <1>6, <1>7, <1>8, <1>10, <1>11, <1>12, <1>13, <1>14
  DEF Next, receive

\* An answer resolves a request of the kind it was given for, because both agree with the
\* names; the Ack of a hello can only resolve a flush that has the id of the hello.
LEMMA NextAnswersFit == TypeOK /\ Marked /\ Named /\ AnswersFit /\ [Next]_vars => AnswersFit'
<1> SUFFICES ASSUME TypeOK, Marked, Named, AnswersFit, [Next]_vars PROVE AnswersFit'
  OBVIOUS
<1>0. PICK f : Names(f)
  BY DEF Named
<1>1. ASSUME NEW e \in Ends, NEW c \in response_channels[e], resolve(e, c) PROVE AnswersFit'
  <2> DEFINE m == Incoming(e)
  <2>1. m \in Envelopes(Peer(e)) /\ (m.responding_to # NoId => m.kind \in Answers)
    BY <1>1, RecordFacts DEF resolve
  <2>2. c.id \in Nat /\ c.kind \in {"Request", "Flush"} /\ m.responding_to = c.id
    BY <1>1 DEF TypeOK, resolve
  <2>3. m.kind \in Answers
    BY <2>1, <2>2 DEF NoId
  <2>4. f[e][c.id] = c.kind
    BY <1>0 DEF Names
  <2>5. Fits(f[e][m.responding_to], m.kind) \/ (m.kind = "Ack" /\ m.responding_to = 0)
    BY <1>0, <2>1, <2>3, PeerType DEF Names
  <2>6. f[e][0] \notin {"Request", "Stream"}
    BY <1>0 DEF Names
  <2>7. Fits(c.kind, m.kind)
    BY <2>2, <2>4, <2>5, <2>6 DEF Fits
  <2>8. <<c.kind, m.kind>> \in {<<"Request", "Response">>, <<"Flush", "Ack">>}
    BY <2>2, <2>7 DEF Fits
  <2>9. answered' = [answered EXCEPT ![e] = @ \cup {<<c.kind, m.kind>>}]
    BY <1>1 DEF resolve
  <2> QED
    BY <2>8, <2>9 DEF AnswersFit, TypeOK
<1>2. CASE UNCHANGED answered
  BY <1>2 DEF AnswersFit
<1> QED
  BY <1>1, <1>2
  DEF Next, vars, history, disconnect, connect, reconnect, start_handling_messages, send,
      respond, drop_stream, receive, receive_flush, receive_started, acknowledge,
      receive_message, receive_late, receive_item, receive_response, receive_flushed, Ends

\* Types, ids and names belong together: none of them is inductive without the others.
IInv ==
  TypeOK /\ Marked /\ Connected /\ Greeted /\ Numbered /\ Named /\ AnswersFit

\* Two new channels satisfy the invariant.
LEMMA InitIInv == Init => IInv
<1> SUFFICES ASSUME Init PROVE IInv
  OBVIOUS
<1>1. TypeOK
  BY InitTypeOK
<1>2. \A e \in Ends : /\ Envelopes(e) = {} /\ serving[e] = <<>> /\ Range(serving[e]) = {}
                      /\ wire[e] = <<>> /\ response_channels[e] = {} /\ posted[e] = {}
                      /\ answered[e] = {} /\ ~remote_started[e] /\ max_received[e] = 0
  BY DEF Init, Envelopes, Range
<1>3. Marked /\ Connected /\ AnswersFit
  BY <1>2 DEF Marked, Connected, AnswersFit
<1>4. Greeted /\ link = "new"
  BY <1>2 DEF Greeted, Init
<1>5. Numbered
  BY <1>2 DEF Numbered, Issued
<1>6. Named
  <2> DEFINE f == [e \in Ends |-> [n \in Nat |-> "Msg"]]
  <2>1. Names(f)
    BY <1>2 DEF Names, Kinds
  <2> QED
    BY <2>1 DEF Named
<1> QED
  BY <1>1, <1>3, <1>4, <1>5, <1>6 DEF IInv

\* Every step preserves it.
LEMMA NextIInv == IInv /\ [Next]_vars => IInv'
BY NextTypeOK, NextMarked, NextConnected, NextGreeted, NextNumbered, NextNamed, NextAnswersFit
DEF IInv

\* The invariant holds of every pair of channels.
THEOREM Inductive == Spec => []IInv
BY InitIInv, NextIInv, PTL DEF Spec

\* Fields of both ends, transport and handlers have their types; no message or request that
\* is handed to a handler is an answer.
THEOREM TypeCorrect == Spec => []TypeOK
<1>1. IInv => TypeOK
  BY DEF IInv
<1> QED
  BY <1>1, Inductive, PTL

\* An answer resolves only a request of its kind, whatever was lost, sent again or answered
\* twice: ids are never used for two questions, and the hello's id 0 for none but a flush.
THEOREM AnswersAlwaysFit == Spec => []AnswersFit
<1>1. IInv => AnswersFit
  BY DEF IInv
<1> QED
  BY <1>1, Inductive, PTL
=============================================================================
