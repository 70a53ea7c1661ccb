----------------------- MODULE RemoteChannelDelivery -----------------------
(***************************************************************************)
(* What reaches the other end: nothing that was given to `send_buffered`   *)
(* is lost while at most one connection is, and resync delivers a message  *)
(* at most once more for every connection that was lost.                   *)
(***************************************************************************)
EXTENDS RemoteChannelProofs

-----------------------------------------------------------------------------
(* Places in sequences *)

\* Where the members of a sequence are when its first one is gone.
LEMMA TailAt ==
  ASSUME NEW S, NEW s \in Seq(S), s # <<>>
  PROVE  /\ Len(s) \in Nat \ {0} /\ DOMAIN s = 1 .. Len(s)
         /\ DOMAIN Tail(s) = 1 .. Len(s) - 1
         /\ \A i \in 1 .. Len(s) - 1 : Tail(s)[i] = s[i + 1]
<1>1. Len(s) \in Nat \ {0} /\ DOMAIN s = 1 .. Len(s)
  BY LenProperties, EmptySeq
<1>2. /\ Tail(s) \in Seq(S) /\ Len(Tail(s)) = Len(s) - 1
      /\ \A i \in 1 .. Len(Tail(s)) : Tail(s)[i] = s[i + 1]
  BY HeadTailProperties
<1>3. DOMAIN Tail(s) = 1 .. Len(Tail(s))
  BY <1>2, LenProperties
<1> QED
  BY <1>1, <1>2, <1>3

\* Where the members of two sequences are in their concatenation.
LEMMA ConcatAt ==
  ASSUME NEW S, NEW s \in Seq(S), NEW t \in Seq(S)
  PROVE  /\ Len(s) \in Nat /\ Len(t) \in Nat
         /\ DOMAIN s = 1 .. Len(s) /\ DOMAIN t = 1 .. Len(t)
         /\ DOMAIN (s \o t) = 1 .. Len(s) + Len(t)
         /\ \A i \in 1 .. Len(s) : (s \o t)[i] = s[i]
         /\ \A i \in 1 .. Len(t) : (s \o t)[Len(s) + i] = t[i]
<1>1. /\ Len(s) \in Nat /\ Len(t) \in Nat
      /\ DOMAIN s = 1 .. Len(s) /\ DOMAIN t = 1 .. Len(t)
  BY LenProperties
<1>2. /\ s \o t \in Seq(S) /\ Len(s \o t) = Len(s) + Len(t)
      /\ \A i \in 1 .. Len(s) + Len(t) :
           (s \o t)[i] = IF i <= Len(s) THEN s[i] ELSE t[i - Len(s)]
  BY ConcatProperties
<1>3. DOMAIN (s \o t) = 1 .. Len(s) + Len(t)
  BY <1>2, LenProperties
<1>4. ASSUME NEW i \in 1 .. Len(s) PROVE (s \o t)[i] = s[i]
  <2>1. i \in 1 .. Len(s) + Len(t) /\ i <= Len(s)
    BY <1>1
  <2> QED
    BY <1>2, <2>1
<1>5. ASSUME NEW i \in 1 .. Len(t) PROVE (s \o t)[Len(s) + i] = t[i]
  <2>1. /\ Len(s) + i \in 1 .. Len(s) + Len(t) /\ ~(Len(s) + i <= Len(s))
        /\ (Len(s) + i) - Len(s) = i
    BY <1>1
  <2> QED
    BY <1>2, <2>1
<1> QED
  BY <1>1, <1>3, <1>4, <1>5

\* Appending to the wire twice appends the concatenation.
LEMMA ConcatThree ==
  \A a, b, c \in Seq(Envelope) : (a \o b) \o c = a \o (b \o c)
<1> SUFFICES ASSUME NEW a \in Seq(Envelope), NEW b \in Seq(Envelope), NEW c \in Seq(Envelope)
             PROVE  (a \o b) \o c = a \o (b \o c)
  OBVIOUS
<1> QED
  BY ConcatAssociative, SMTT(60)

\* The last member of a sequence one longer.
LEMMA SnocAt ==
  ASSUME NEW S, NEW s \in Seq(S), NEW x \in S
  PROVE  /\ Len(s) \in Nat /\ DOMAIN s = 1 .. Len(s)
         /\ DOMAIN (s \o <<x>>) = 1 .. Len(s) + 1
         /\ \A i \in 1 .. Len(s) : (s \o <<x>>)[i] = s[i]
         /\ (s \o <<x>>)[Len(s) + 1] = x
<1>1. <<x>> \in Seq(S) /\ Len(<<x>>) = 1 /\ <<x>>[1] = x
  BY RangeOne
<1> DEFINE t == <<x>>
<1>2. t \in Seq(S) /\ Len(t) = 1 /\ t[1] = x
  BY <1>1
<1> HIDE DEF t
<1>3. /\ Len(s) \in Nat /\ DOMAIN s = 1 .. Len(s)
      /\ DOMAIN (s \o t) = 1 .. Len(s) + 1
      /\ \A i \in 1 .. Len(s) : (s \o t)[i] = s[i]
      /\ \A i \in 1 .. 1 : (s \o t)[Len(s) + i] = t[i]
  BY <1>2, ConcatAt
<1>4. (s \o t)[Len(s) + 1] = x
  BY <1>2, <1>3
<1> QED
  BY <1>3, <1>4 DEF t

-----------------------------------------------------------------------------
(* The steps, as the messages see them *)

\* The request of `resync` waits for its answer.
Awaited == [id |-> resyncing, kind |-> "Flush"] \in response_channels["client"]

\* e gives m to `send_buffered`.
Posts(e, m) ==
  /\ m \in Envelope /\ m.kind \notin {"Flush", "Started", "Ack"}
  /\ m.id = next_message_id[e] /\ m.ack_id = max_received[e] /\ m.id > 0
  /\ link # "new"
  /\ wire'[e] = IF link = "up" THEN wire[e] \o <<m>> ELSE wire[e]
  /\ buffer'[e] = Append(buffer[e], m)
  /\ posted'[e] = posted[e] \cup {m.id}
  /\ next_message_id'[e] = next_message_id[e] + 1
  /\ wire'[Peer(e)] = wire[Peer(e)] /\ buffer'[Peer(e)] = buffer[Peer(e)]
  /\ posted'[Peer(e)] = posted[Peer(e)]
  /\ next_message_id'[Peer(e)] = next_message_id[Peer(e)]
  /\ UNCHANGED <<max_received, heard, link, resyncing, drops>>
  /\ Awaited => Awaited'

\* e says hello with m.
Greets(e, m) ==
  /\ m \in Envelope /\ m.kind = "Started" /\ m.id = 0 /\ m.ack_id = NoId
  /\ wire'[e] = wire[e] \/ wire'[e] = wire[e] \o <<m>>
  /\ wire'[Peer(e)] = wire[Peer(e)]
  /\ UNCHANGED <<buffer, posted, next_message_id, max_received, heard, link, resyncing, drops,
                 response_channels>>

\* e takes a hello or a flush and acknowledges it after sending `first`.
Acknowledges(e, first) ==
  /\ take(e) /\ Incoming(e).kind \in {"Flush", "Started"}
  /\ first = IF Incoming(e).kind = "Flush" THEN Kept(e) ELSE <<>>
  /\ AckOf(e) \in Envelope
  /\ wire'[e] = (wire[e] \o first) \o <<AckOf(e)>>
  /\ wire'[Peer(e)] = Tail(wire[Peer(e)])
  /\ next_message_id'[e] = next_message_id[e] + 1
  /\ next_message_id'[Peer(e)] = next_message_id[Peer(e)]
  /\ UNCHANGED <<posted, max_received, heard, link, resyncing, drops, response_channels>>

\* e takes an envelope that counts as received.
Takes(e) ==
  /\ record(e)
  /\ wire'[e] = wire[e] /\ wire'[Peer(e)] = Tail(wire[Peer(e)])
  /\ UNCHANGED resyncing
  /\ Awaited => Awaited'
  /\ e = "client" /\ Awaited => Incoming(e).responding_to # resyncing

\* The client takes the answer to its flush and sends what it keeps again.
Resends ==
  /\ record("client") /\ resyncing # NoId /\ resyncing' = NoId
  /\ wire'["server"] = Tail(wire["server"])
  /\ wire'["client"] = wire["client"] \o Kept("client")
  /\ Awaited => Incoming("client").kind = "Ack"

\* Nothing moves.
Idles ==
  /\ UNCHANGED <<wire, buffer, posted, next_message_id, max_received, heard, resyncing, drops>>
  /\ link' = link \/ (link = "new" /\ link' = "up")
  /\ Awaited => Awaited'

\* What happens while the connection stays, and when it is opened.
Moves ==
  \/ Idles \/ Resends
  \/ \E e \in Ends : \/ \E m : Posts(e, m) \/ Greets(e, m)
                     \/ \E first : Acknowledges(e, first)
                     \/ Takes(e)

\* What `send_buffered` does, pointwise.
LEMMA SendPosts ==
  ASSUME TypeOK, NEW e \in Ends, NEW kind \in Kinds \ {"Flush", "Started", "Ack"},
         NEW to \in Nat \cup {NoId}, send_buffered(e, kind, to), next_message_id[e] > 0,
         link # "new",
         UNCHANGED <<max_received, heard, link, resyncing, drops>>, Awaited => Awaited'
  PROVE  \E m : Posts(e, m)
<1> DEFINE m == Outgoing(e, kind, to)
<1>1. /\ m \in Envelope /\ m.kind = kind /\ m.id = next_message_id[e]
      /\ m.ack_id = max_received[e]
  BY DEF TypeOK, Outgoing, Envelope
<1>2. /\ wire' = [wire EXCEPT ![e] = OntoWire(e, <<m>>)]
      /\ buffer' = [buffer EXCEPT ![e] = Append(@, m)]
      /\ posted' = [posted EXCEPT ![e] = @ \cup {m.id}]
      /\ next_message_id' = [next_message_id EXCEPT ![e] = @ + 1]
  BY DEF send_buffered
<1> HIDE DEF m
<1>3. /\ wire'[e] = OntoWire(e, <<m>>) /\ wire'[Peer(e)] = wire[Peer(e)]
      /\ buffer'[e] = Append(buffer[e], m) /\ buffer'[Peer(e)] = buffer[Peer(e)]
      /\ posted'[e] = posted[e] \cup {m.id} /\ posted'[Peer(e)] = posted[Peer(e)]
      /\ next_message_id'[e] = next_message_id[e] + 1
      /\ next_message_id'[Peer(e)] = next_message_id[Peer(e)]
  BY <1>2, PeerType DEF TypeOK
<1>4. Posts(e, m)
  BY <1>1, <1>3 DEF Posts, OntoWire
<1> QED
  BY <1>4

\* An envelope that counts as received leaves the request of `resync` alone, unless it is
\* the answer to it.
LEMMA TakesAwaited ==
  ASSUME IInv, NEW e \in Ends,
         \/ receive_message(e) \/ receive_late(e)
         \/ \E c \in response_channels[e] : receive_response(e, c) \/ receive_item(e, c)
  PROVE  Takes(e)
<1> DEFINE flush == [id |-> resyncing, kind |-> "Flush"]
<1>0. /\ TypeOK /\ Marked /\ Named
      /\ response_channels \in [Ends -> SUBSET [id : Nat, kind : {"Request", "Stream", "Flush"}]]
      /\ flush.id = resyncing /\ flush.kind = "Flush" /\ "client" \in Ends
  BY DEF IInv, TypeOK, Ends
<1>a. PICK f : Names(f)
  BY <1>0 DEF Named
<1>b. flush \in response_channels["client"] => /\ resyncing \in Nat
                                               /\ f["client"][resyncing] = "Flush"
  BY <1>0, <1>a DEF Names
<1>c. \A c \in response_channels[e] : c.id \in Nat /\ f[e][c.id] = c.kind
  BY <1>0, <1>a DEF Names
<1> HIDE DEF flush
<1>1. record(e) /\ wire' = [wire EXCEPT ![Peer(e)] = Tail(@)] /\ UNCHANGED resyncing
  BY DEF receive_message, receive_late, receive_response, receive_item, resolve
<1>2. wire'[e] = wire[e] /\ wire'[Peer(e)] = Tail(wire[Peer(e)])
  BY <1>0, <1>1, PeerType DEF TypeOK
<1>3. flush \in response_channels["client"] => flush \in response_channels'["client"]
  <2>1. CASE UNCHANGED response_channels
    BY <2>1
  <2>2. ASSUME NEW c \in response_channels[e], receive_response(e, c)
        PROVE  flush \in response_channels["client"] => flush \in response_channels'["client"]
    <3>1. response_channels' = [response_channels EXCEPT ![e] = @ \ {c}]
      BY <2>2 DEF receive_response, resolve
    <3>2. e = "client" => c # flush
      BY <1>0, <2>2 DEF receive_response
    <3> QED
      BY <1>0, <3>1, <3>2
  <2>3. ASSUME NEW c \in response_channels[e], receive_item(e, c)
        PROVE  flush \in response_channels["client"] => flush \in response_channels'["client"]
    <3>1. \/ response_channels' = [response_channels EXCEPT ![e] = @ \ {c}]
          \/ response_channels' = [response_channels EXCEPT ![e] = @]
      BY <2>3 DEF receive_item
    <3>2. c # flush
      BY <1>0, <2>3 DEF receive_item
    <3> QED
      BY <1>0, <3>1, <3>2
  <2> QED
    BY <2>1, <2>2, <2>3 DEF receive_message, receive_late
<1>4. ASSUME e = "client", flush \in response_channels["client"]
      PROVE  Incoming(e).responding_to # resyncing
  <2>0. resyncing \in Nat /\ f[e][resyncing] = "Flush" /\ NoId \notin Nat
    BY <1>4, <1>b DEF NoId
  <2>1. CASE receive_message(e)
    BY <2>0, <2>1 DEF receive_message
  <2>2. CASE receive_late(e)
    BY <1>0, <1>4, <2>2 DEF receive_late
  <2>3. ASSUME NEW c \in response_channels[e], receive_response(e, c)
        PROVE  Incoming(e).responding_to # resyncing
    BY <1>4, <2>3 DEF receive_response, resolve
  <2>4. ASSUME NEW c \in response_channels[e], receive_item(e, c)
        PROVE  Incoming(e).responding_to # resyncing
    BY <1>c, <2>0, <2>4 DEF receive_item
  <2> QED
    BY <2>1, <2>2, <2>3, <2>4
<1>5. /\ Awaited <=> flush \in response_channels["client"]
      /\ Awaited' <=> flush \in response_channels'["client"]
  BY <1>1 DEF Awaited, flush
<1> QED
  BY <1>1, <1>2, <1>3, <1>4, <1>5 DEF Takes

\* Every step but the loss and the return of the connection is one of these.
LEMMA Steps ==
  ASSUME IInv, [Next]_vars
  PROVE  disconnect \/ reconnect \/ Moves
<1>0. /\ TypeOK /\ Marked /\ Connected /\ Greeted /\ Numbered
      /\ NoId = -1 /\ NoId \in Nat \cup {NoId}
  BY DEF IInv, NoId
<1>t. response_channels \in [Ends -> SUBSET [id : Nat, kind : {"Request", "Stream", "Flush"}]]
  BY <1>0 DEF TypeOK
<1>1. CASE connect \/ UNCHANGED vars
  BY <1>1 DEF Moves, connect, vars, transport, history, Idles, Awaited
<1>2. ASSUME NEW e \in Ends, NEW c \in response_channels[e], drop_stream(e, c) PROVE Idles
  <2>1. \A x \in Ends : \A d \in response_channels[x] :
          d.kind = "Flush" => d \in response_channels'[x]
    BY <1>t, <1>2 DEF drop_stream
  <2>2. UNCHANGED <<wire, buffer, posted, next_message_id, max_received, heard, resyncing,
                    drops, link>>
    BY <1>2 DEF drop_stream, transport, history
  <2> DEFINE flush == [id |-> resyncing, kind |-> "Flush"]
  <2>3. flush.kind = "Flush" /\ "client" \in Ends
    BY DEF Ends
  <2>4. /\ Awaited <=> flush \in response_channels["client"]
        /\ Awaited' <=> flush \in response_channels'["client"]
    BY <2>2 DEF Awaited
  <2> HIDE DEF flush
  <2>5. Awaited => Awaited'
    BY <2>1, <2>3, <2>4
  <2> QED
    BY <2>2, <2>5 DEF Idles
<1>3. ASSUME NEW e \in Ends, start_handling_messages(e) PROVE \E m : Greets(e, m)
  <2> DEFINE hello == [id |-> 0, kind |-> "Started", responding_to |-> NoId, ack_id |-> NoId]
  <2>1. /\ wire'[Peer(e)] = wire[Peer(e)]
        /\ wire'[e] = wire[e] \/ (wire'[e] = wire[e] \o <<hello>>)
    BY <1>0, <1>3, StartedEnvelopes
  <2>2. /\ hello \in Envelope /\ hello.kind = "Started" /\ hello.id = 0
        /\ hello.ack_id = NoId
    BY DEF Envelope, Kinds
  <2> HIDE DEF hello
  <2>3. Greets(e, hello)
    BY <1>3, <2>1, <2>2 DEF Greets, start_handling_messages, history
  <2> QED
    BY <2>3
<1>4. ASSUME NEW e \in Ends, NEW kind \in Originals(e), send(e, kind)
      PROVE  \E m : Posts(e, m)
  <2>1. /\ kind \in {"Msg", "Request", "Stream"} /\ kind \in Kinds \ Answers
        /\ send_buffered(e, kind, NoId) /\ remote_started[e]
    BY <1>0, <1>4, SendFacts
  <2>2. /\ kind \in Kinds \ {"Flush", "Started", "Ack"}
        /\ next_message_id[e] > 0 /\ link # "new"
    BY <1>0, <2>1 DEF Numbered, Connected
  <2>3. UNCHANGED <<max_received, heard, link, resyncing, drops>>
    BY <1>4 DEF send
  <2>4. Awaited => Awaited'
    <3>1. \A x \in Ends : response_channels[x] \subseteq response_channels'[x]
      BY <1>t, <1>4 DEF send
    <3> QED
      BY <2>3, <3>1 DEF Awaited, Ends
  <2> QED
    BY <1>0, <2>1, <2>2, <2>3, <2>4, SendPosts
<1>5. ASSUME NEW e \in Ends, NEW i \in DOMAIN serving[e], respond(e, i)
      PROVE  \E m : Posts(e, m)
  <2>1. PICK kind \in Answers, work \in Range(serving[e]) :
           /\ work \in Work /\ send_buffered(e, kind, work.id)
           /\ kind \in {"Response", "Chunk", "End"}
    BY <1>0, <1>5, RespondFacts
  <2>2. kind \in Kinds \ {"Flush", "Started", "Ack"} /\ work.id \in Nat \cup {NoId}
    BY <2>1 DEF Kinds, Answers, Work
  <2>3. next_message_id[e] > 0 /\ link # "new"
    <3>1. serving[e] # <<>>
      BY <1>5
    <3>2. next_message_id[e] # 0 /\ next_message_id[e] \in Nat
      BY <1>0, <3>1 DEF Greeted, TypeOK
    <3>3. link # "new"
      BY <1>0, <3>1 DEF Connected
    <3> QED
      BY <3>2, <3>3
  <2>4. UNCHANGED <<max_received, heard, link, resyncing, drops>> /\ (Awaited => Awaited')
    BY <1>5 DEF respond, Awaited
  <2> QED
    BY <1>0, <2>1, <2>2, <2>3, <2>4, SendPosts
<1>6. ASSUME NEW e \in Ends, receive_flush(e) \/ receive_started(e)
      PROVE  \E first : Acknowledges(e, first)
  <2> DEFINE first == IF Incoming(e).kind = "Flush" THEN Kept(e) ELSE <<>>
  <2>1. /\ take(e) /\ Incoming(e).kind \in {"Flush", "Started"} /\ acknowledge(e, first)
    BY <1>6 DEF receive_flush, receive_started
  <2>2. first \in Seq(Envelope) /\ Range(first) \subseteq Range(Kept(e))
    <3>1. <<>> \in Seq(Envelope) /\ Range(<<>>) = {}
      BY EmptySeq DEF Range
    <3>2. Kept(e) \in Seq(Envelope)
      BY <1>0, <2>1, TakeEnvelopes
    <3> QED
      BY <3>1, <3>2
  <2>3. first = IF Incoming(e).kind = "Flush" THEN Kept(e) ELSE <<>>
    OBVIOUS
  <2> HIDE DEF first
  <2>4. /\ wire'[e] = (wire[e] \o first) \o <<AckOf(e)>> /\ AckOf(e) \in Envelope
        /\ wire'[Peer(e)] = Tail(wire[Peer(e)])
    BY <1>0, <2>1, <2>2, AckEnvelopes DEF AckOf
  <2>5. /\ next_message_id' = [next_message_id EXCEPT ![e] = @ + 1]
        /\ UNCHANGED <<max_received, response_channels, posted, heard, link, drops, resyncing>>
    BY <2>1 DEF acknowledge, history
  <2>6. /\ next_message_id'[e] = next_message_id[e] + 1
        /\ next_message_id'[Peer(e)] = next_message_id[Peer(e)]
    BY <1>0, <2>5, PeerType DEF TypeOK
  <2>7. Acknowledges(e, first)
    BY <2>1, <2>3, <2>4, <2>5, <2>6 DEF Acknowledges
  <2> QED
    BY <2>7
<1>7. ASSUME NEW c \in response_channels["client"], receive_flushed(c) PROVE Resends
  <2>1. record("client") /\ c.id \in Nat /\ resyncing = c.id
    BY <1>t, <1>7 DEF receive_flushed, resolve, Ends
  <2>2. /\ wire'["client"] = wire["client"] \o Kept("client")
        /\ wire'["server"] = Tail(wire["server"])
    BY <1>0, <1>7, <2>1, FlushedEnvelopes DEF receive_flushed, record
  <2>3. resyncing # NoId
    BY <2>1 DEF NoId
  <2>4. resyncing' = NoId
    BY <1>7 DEF receive_flushed
  <2>5. ASSUME Awaited PROVE Incoming("client").kind = "Ack"
    <3>1. PICK f : Names(f)
      BY DEF IInv, Named
    <3> DEFINE flush == [id |-> resyncing, kind |-> "Flush"]
    <3>2. flush \in response_channels["client"] /\ flush.id = resyncing /\ flush.kind = "Flush"
      BY <2>5 DEF Awaited
    <3> HIDE DEF flush
    <3>3. f["client"][resyncing] = "Flush"
      BY <3>1, <3>2 DEF Names, Ends
    <3>4. /\ Incoming("client") \in Envelopes("server") /\ Incoming("client").kind \in Answers
          /\ Incoming("client").responding_to = resyncing
      <4>1. Incoming("client").responding_to = resyncing
        BY <1>7, <2>1 DEF receive_flushed, resolve
      <4> QED
        BY <1>0, <2>1, <2>3, <4>1, RecordFacts DEF Ends, Peer
    <3> QED
      BY <3>1, <3>3, <3>4 DEF Names, Fits, Ends, Peer
  <2> QED
    BY <2>1, <2>2, <2>3, <2>4, <2>5 DEF Resends
<1> QED
  BY <1>1, <1>2, <1>3, <1>4, <1>5, <1>6, <1>7, TakesAwaited DEF Next, receive, Moves

\* The envelopes after `send_buffered`.
LEMMA PostsSeen ==
  ASSUME TypeOK, NEW e \in Ends, NEW m, Posts(e, m)
  PROVE  /\ Range(buffer'[e]) = Range(buffer[e]) \cup {m}
         /\ Range(wire[e]) \subseteq Range(wire'[e])
         /\ Range(wire'[e]) \subseteq Range(wire[e]) \cup {m}
         /\ link = "up" => m \in Range(wire'[e])
         /\ Envelopes(e)' \subseteq Envelopes(e) \cup {m}
         /\ Envelopes(Peer(e))' = Envelopes(Peer(e))
<1>1. m \in Envelope /\ wire[e] \in Seq(Envelope) /\ buffer[e] \in Seq(Envelope)
  BY DEF TypeOK, Posts
<1>2. Range(wire[e] \o <<m>>) = Range(wire[e]) \cup {m}
  BY <1>1, RangeSnoc
<1>3. Range(Append(buffer[e], m)) = Range(buffer[e]) \cup {m}
  BY <1>1, RangeAppend
<1>4. /\ wire'[e] = (IF link = "up" THEN wire[e] \o <<m>> ELSE wire[e])
      /\ buffer'[e] = Append(buffer[e], m)
      /\ wire'[Peer(e)] = wire[Peer(e)] /\ buffer'[Peer(e)] = buffer[Peer(e)]
  BY DEF Posts
<1> QED
  BY <1>2, <1>3, <1>4 DEF Envelopes

\* The envelopes after a hello.
LEMMA GreetsSeen ==
  ASSUME TypeOK, NEW e \in Ends, NEW m, Greets(e, m)
  PROVE  /\ Range(wire[e]) \subseteq Range(wire'[e])
         /\ Range(wire'[e]) \subseteq Range(wire[e]) \cup {m}
         /\ Envelopes(e)' \subseteq Envelopes(e) \cup {m}
         /\ Envelopes(Peer(e))' = Envelopes(Peer(e))
<1>1. m \in Envelope /\ wire[e] \in Seq(Envelope)
  BY DEF TypeOK, Greets
<1>2. Range(wire[e] \o <<m>>) = Range(wire[e]) \cup {m}
  BY <1>1, RangeSnoc
<1>3. /\ wire'[e] = wire[e] \/ wire'[e] = wire[e] \o <<m>>
      /\ wire'[Peer(e)] = wire[Peer(e)] /\ UNCHANGED buffer
  BY DEF Greets
<1> QED
  BY <1>2, <1>3 DEF Envelopes

\* The envelopes after a turn of the handling loop, as far as it is always the same.
LEMMA TakeSeen ==
  ASSUME TypeOK, NEW e \in Ends, take(e), wire'[Peer(e)] = Tail(wire[Peer(e)])
  PROVE  /\ Incoming(e) \in Envelope /\ Incoming(e) \in Envelopes(Peer(e))
         /\ Range(wire[Peer(e)]) = {Incoming(e)} \cup Range(wire'[Peer(e)])
         /\ Kept(e) \in Seq(Envelope) /\ buffer'[e] = Kept(e)
         /\ Range(buffer'[e]) \subseteq Range(buffer[e])
         /\ \A m \in Range(buffer[e]) : m.id <= Incoming(e).ack_id \/ m \in Range(buffer'[e])
         /\ buffer'[Peer(e)] = buffer[Peer(e)]
         /\ Envelopes(Peer(e))' \subseteq Envelopes(Peer(e))
BY TakeEnvelopes DEF Envelopes

\* The envelopes after a hello or a flush was acknowledged.
LEMMA AcknowledgesSeen ==
  ASSUME TypeOK, NEW e \in Ends, NEW first, Acknowledges(e, first)
  PROVE  /\ first \in Seq(Envelope) /\ Range(first) \subseteq Range(buffer'[e])
         /\ Incoming(e).kind = "Flush" => Range(first) = Range(buffer'[e])
         /\ Range(wire'[e]) = Range(wire[e]) \cup Range(first) \cup {AckOf(e)}
         /\ Envelopes(e)' \subseteq Envelopes(e) \cup {AckOf(e)}
<1>1. /\ Kept(e) \in Seq(Envelope) /\ buffer'[e] = Kept(e)
      /\ Range(buffer'[e]) \subseteq Range(buffer[e])
  BY TakeSeen DEF Acknowledges
<1>2. <<>> \in Seq(Envelope) /\ Range(<<>>) = {}
  BY EmptySeq DEF Range
<1>3. /\ first \in Seq(Envelope) /\ Range(first) \subseteq Range(buffer'[e])
      /\ Incoming(e).kind = "Flush" => Range(first) = Range(buffer'[e])
  BY <1>1, <1>2 DEF Acknowledges
<1>4. wire[e] \in Seq(Envelope) /\ AckOf(e) \in Envelope
  BY DEF TypeOK, Acknowledges
<1> DEFINE front == wire[e] \o first
<1>5. front \in Seq(Envelope) /\ Range(front) = Range(wire[e]) \cup Range(first)
  BY <1>3, <1>4, RangeConcat
<1>6. wire'[e] = front \o <<AckOf(e)>>
  BY DEF Acknowledges
<1> HIDE DEF front
<1>7. Range(front \o <<AckOf(e)>>) = Range(front) \cup {AckOf(e)}
  BY <1>4, <1>5, RangeSnoc
<1>8. Range(wire'[e]) = Range(wire[e]) \cup Range(first) \cup {AckOf(e)}
  BY <1>5, <1>6, <1>7
<1> QED
  BY <1>1, <1>3, <1>8 DEF Envelopes

\* The envelopes after one was received.
LEMMA TakesSeen ==
  ASSUME TypeOK, NEW e \in Ends, Takes(e)
  PROVE  \A x \in Ends : Envelopes(x)' \subseteq Envelopes(x)
<1>1. take(e) /\ wire'[e] = wire[e] /\ wire'[Peer(e)] = Tail(wire[Peer(e)])
  BY DEF Takes, record
<1>2. /\ Range(buffer'[e]) \subseteq Range(buffer[e])
      /\ Envelopes(Peer(e))' \subseteq Envelopes(Peer(e))
  BY <1>1, TakeSeen
<1>3. Envelopes(e)' \subseteq Envelopes(e)
  BY <1>1, <1>2 DEF Envelopes
<1> QED
  BY <1>2, <1>3 DEF Ends, Peer

\* The envelopes after the client sent its buffer again.
LEMMA ResendsSeen ==
  ASSUME TypeOK, Resends
  PROVE  /\ Range(wire'["client"]) = Range(wire["client"]) \cup Range(buffer'["client"])
         /\ \A x \in Ends : Envelopes(x)' \subseteq Envelopes(x)
<1>1. "client" \in Ends /\ Peer("client") = "server"
  BY DEF Ends, Peer
<1>2. /\ take("client") /\ wire'[Peer("client")] = Tail(wire[Peer("client")])
      /\ wire'["client"] = wire["client"] \o Kept("client")
  BY <1>1 DEF Resends, record
<1>3. /\ Kept("client") \in Seq(Envelope) /\ buffer'["client"] = Kept("client")
      /\ Range(buffer'["client"]) \subseteq Range(buffer["client"])
      /\ Envelopes(Peer("client"))' \subseteq Envelopes(Peer("client"))
  BY <1>1, <1>2, TakeSeen
<1>4. wire["client"] \in Seq(Envelope)
  BY <1>1 DEF TypeOK
<1>5. Range(wire'["client"]) = Range(wire["client"]) \cup Range(buffer'["client"])
  BY <1>2, <1>3, <1>4, RangeConcat
<1>6. Envelopes("client")' \subseteq Envelopes("client")
  BY <1>3, <1>5 DEF Envelopes
<1> QED
  BY <1>1, <1>3, <1>5, <1>6 DEF Ends

-----------------------------------------------------------------------------
(* Flushes *)

\* Hellos and flushes are numbered apart from what the application posts, and nothing is
\* heard that was not given a number.
Apart ==
  \A e \in Ends :
    /\ \A m \in Envelopes(e) : m.kind \in {"Flush", "Started"} => m.id \notin posted[e]
    /\ \A id \in BagToSet(heard[e]) : id < next_message_id[e]

\* The server still has to send again what it keeps.
Flushing == link = "down" \/ \E m \in Range(wire["client"]) : m.kind = "Flush"

\* The client still has to.
Resyncing == link = "down" \/ resyncing # NoId

\* A flush is the first of the envelopes.
OnlyFirst(envelopes) ==
  \A i \in DOMAIN envelopes : envelopes[i].kind = "Flush" => i = 1

\* Only the client flushes, on a connection that replaces another, and before anything else.
Flushes ==
  /\ link = "new" => drops = 0
  /\ Flushing \/ Resyncing => drops > 0
  /\ OnlyFirst(wire["client"])
  /\ \A m \in Envelopes("server") \cup Range(buffer["client"]) : m.kind # "Flush"

\* The types the following lemmas compare, and what is said of the two ends.
LEMMA Facts ==
  ASSUME IInv
  PROVE  /\ TypeOK /\ Numbered /\ Connected /\ drops \in Nat /\ NoId = -1
         /\ \A e \in Ends :
              /\ Peer(e) \in Ends /\ Peer(e) # e /\ Peer(Peer(e)) = e
              /\ \A x \in Ends : x = e \/ x = Peer(e)
              /\ wire[e] \in Seq(Envelope) /\ buffer[e] \in Seq(Envelope)
              /\ next_message_id[e] \in Nat /\ max_received[e] \in Nat
              /\ posted[e] \subseteq Nat /\ BagToSet(heard[e]) \subseteq Nat
              /\ \A id \in posted[e] : 0 < id /\ id < next_message_id[e]
              /\ \A m \in Envelopes(e) :
                   /\ m \in Envelope /\ m.id \in Nat /\ m.ack_id \in Int
                   /\ m.responding_to \in Int /\ m.kind \in Kinds
                   /\ m.kind = "Started" => m.id = 0
                   /\ m.kind # "Started" => m.id < next_message_id[e]
                   /\ m.ack_id <= 0 \/ m.ack_id < next_message_id[Peer(e)]
              /\ max_received[e] <= 0 \/ max_received[e] < next_message_id[Peer(e)]
<1>1. TypeOK /\ Numbered /\ Connected
  BY DEF IInv
<1>2. drops \in Nat /\ NoId = -1
  BY <1>1, RemoteChannelAssumption DEF TypeOK, NoId
<1>3. \A e \in Ends : \A x \in Ends : x = e \/ x = Peer(e)
  BY DEF Ends, Peer
<1>4. ASSUME NEW e \in Ends
      PROVE  /\ next_message_id[e] \in Nat /\ max_received[e] \in Nat /\ posted[e] \subseteq Nat
             /\ wire[e] \in Seq(Envelope) /\ buffer[e] \in Seq(Envelope)
             /\ BagToSet(heard[e]) \subseteq Nat
             /\ \A m \in Envelopes(e) :
                  /\ m \in Envelope /\ m.id \in Nat /\ m.ack_id \in Int
                  /\ m.responding_to \in Int /\ m.kind \in Kinds
  <2>1. wire[e] \in Seq(Envelope) /\ buffer[e] \in Seq(Envelope) /\ BagToSet(heard[e]) \subseteq Nat
    BY <1>1 DEF TypeOK
  <2> QED
    BY <1>1, <2>1, IdTypes, EnvelopeTypes
<1> QED
  BY <1>1, <1>2, <1>3, <1>4, PeerType DEF Numbered, Issued

\* There are no other ends.
LEMMA Pairs == \A e \in Ends : /\ Peer(e) \in Ends /\ Peer(e) # e /\ Peer(Peer(e)) = e
                              /\ \A x \in Ends : x = e \/ x = Peer(e)
BY DEF Ends, Peer

\* Every step keeps the numbers apart.
LEMMA NextApart == IInv /\ Apart /\ [Next]_vars => Apart'
<1> SUFFICES ASSUME IInv, Apart, [Next]_vars, NEW x \in Ends
             PROVE  /\ \A m \in Envelopes(x)' :
                         m.kind \in {"Flush", "Started"} => m.id \notin posted'[x]
                    /\ \A id \in BagToSet(heard'[x]) : id < next_message_id'[x]
  BY DEF Apart
<1> DEFINE Goal == /\ \A m \in Envelopes(x)' :
                        m.kind \in {"Flush", "Started"} => m.id \notin posted'[x]
                   /\ \A id \in BagToSet(heard'[x]) : id < next_message_id'[x]
<1>0. TypeOK
  BY Facts
<1>n. \A y \in Ends :
        /\ next_message_id[y] \in Nat /\ BagToSet(heard[y]) \subseteq Nat
        /\ \A id \in posted[y] : id \in Nat /\ 0 < id /\ id < next_message_id[y]
        /\ \A id \in BagToSet(heard[y]) : id < next_message_id[y]
        /\ \A m \in Envelopes(y) : m.kind \in {"Flush", "Started"} => m.id \notin posted[y]
  BY Facts DEF Apart
<1>m. \A y \in Ends : \A m \in Envelopes(y) :
        m.id \in Nat /\ (m.kind # "Started" => m.id < next_message_id[y])
  BY Facts
<1>1. CASE disconnect
  <2>1. Envelopes(x)' \subseteq Envelopes(x)
    BY <1>1 DEF disconnect, Envelopes, Range
  <2> QED
    BY <1>1, <1>n, <2>1 DEF disconnect, history
<1>2. CASE reconnect
  <2> DEFINE flush == Outgoing("client", "Flush", NoId)
  <2>1. /\ Envelopes("client")' = Envelopes("client") \cup {flush}
        /\ Envelopes("server")' = Envelopes("server")
    BY <1>0, <1>2, ReconnectEnvelopes
  <2>2. flush.id = next_message_id["client"] /\ x \in {"client", "server"}
    BY DEF Outgoing, Ends
  <2> HIDE DEF flush
  <2>3. /\ UNCHANGED <<heard, posted>> /\ "client" \in Ends
        /\ \A y \in Ends : next_message_id'[y] \in {next_message_id[y], next_message_id[y] + 1}
    BY <1>0, <1>2 DEF reconnect, history, TypeOK, Ends
  <2> QED
    BY <1>n, <2>1, <2>2, <2>3
<1>3. CASE Idles
  BY <1>3, <1>n DEF Idles, Envelopes
<1>4. CASE Resends
  <2>1. /\ record("client") /\ "client" \in Ends /\ Peer("client") = "server"
        /\ wire'[Peer("client")] = Tail(wire[Peer("client")])
    BY <1>4 DEF Resends, Ends, Peer
  <2>2. Incoming("client") \in Envelopes("server") /\ Incoming("client").kind # "Started"
    BY <1>0, <2>1, TakeSeen DEF record
  <2>3. Envelopes(x)' \subseteq Envelopes(x)
    BY <1>0, <1>4, ResendsSeen
  <2>4. /\ heard'["client"] = heard["client"]
        /\ BagToSet(heard'["server"]) = BagToSet(heard["server"]) \cup {Incoming("client").id}
    BY <1>0, <2>1, HeardMore
  <2>5. UNCHANGED <<posted, next_message_id>>
    BY <2>1 DEF record
  <2>6. x \in {"client", "server"}
    BY DEF Ends
  <2> QED
    BY <1>m, <1>n, <2>1, <2>2, <2>3, <2>4, <2>5, <2>6, Pairs
<1>5. ASSUME NEW e \in Ends, NEW m, Posts(e, m) PROVE Goal
  <2>1. /\ Envelopes(e)' \subseteq Envelopes(e) \cup {m}
        /\ Envelopes(Peer(e))' = Envelopes(Peer(e))
    BY <1>0, <1>5, PostsSeen
  <2>2. CASE x = e
    <3>1. /\ posted'[e] = posted[e] \cup {m.id} /\ m.id = next_message_id[e] /\ heard' = heard
          /\ next_message_id'[e] = next_message_id[e] + 1 /\ m.kind \notin {"Flush", "Started"}
          /\ m.id > 0
      BY <1>5 DEF Posts
    <3>2. \A k \in Envelopes(e) : k.kind \in {"Flush", "Started"} => k.id # m.id
      BY <3>1, Facts
    <3> QED
      BY <1>n, <2>1, <2>2, <3>1, <3>2
  <2>3. CASE x = Peer(e)
    BY <1>5, <1>n, <2>1, <2>3, Pairs DEF Posts
  <2> QED
    BY <2>2, <2>3, Pairs
<1>6. ASSUME NEW e \in Ends, NEW m, Greets(e, m) PROVE Goal
  <2>1. /\ Envelopes(e)' \subseteq Envelopes(e) \cup {m}
        /\ Envelopes(Peer(e))' = Envelopes(Peer(e))
    BY <1>0, <1>6, GreetsSeen
  <2> QED
    <3>1. m.id = 0 /\ UNCHANGED <<posted, heard, next_message_id>>
      BY <1>6 DEF Greets
    <3> QED
      BY <1>n, <2>1, <3>1, Pairs
<1>7. ASSUME NEW e \in Ends, NEW first, Acknowledges(e, first) PROVE Goal
  <2>1. /\ Envelopes(e)' \subseteq Envelopes(e) \cup {AckOf(e)}
        /\ Envelopes(Peer(e))' \subseteq Envelopes(Peer(e))
    BY <1>0, <1>7, AcknowledgesSeen, TakeSeen DEF Acknowledges
  <2>2. AckOf(e).kind = "Ack"
    BY DEF AckOf
  <2>3. /\ next_message_id'[e] = next_message_id[e] + 1
        /\ next_message_id'[Peer(e)] = next_message_id[Peer(e)]
        /\ UNCHANGED <<posted, heard>>
    BY <1>7 DEF Acknowledges
  <2> QED
    BY <1>n, <2>1, <2>2, <2>3, Pairs
<1>8. ASSUME NEW e \in Ends, Takes(e) PROVE Goal
  <2>1. record(e) /\ take(e) /\ wire'[Peer(e)] = Tail(wire[Peer(e)])
    BY <1>8 DEF Takes, record
  <2>2. Incoming(e) \in Envelopes(Peer(e)) /\ Incoming(e).kind # "Started"
    BY <1>0, <2>1, TakeSeen DEF record
  <2>3. Envelopes(x)' \subseteq Envelopes(x)
    BY <1>0, <1>8, TakesSeen
  <2>4. /\ heard'[e] = heard[e]
        /\ BagToSet(heard'[Peer(e)]) = BagToSet(heard[Peer(e)]) \cup {Incoming(e).id}
    BY <1>0, <2>1, HeardMore
  <2>5. UNCHANGED <<posted, next_message_id>>
    BY <2>1 DEF record
  <2> QED
    BY <1>m, <1>n, <2>2, <2>3, <2>4, <2>5, Pairs
<1> QED
  BY <1>1, <1>2, <1>3, <1>4, <1>5, <1>6, <1>7, <1>8, Steps DEF Moves

\* Once the first envelope is taken there is no flush.
LEMMA OnlyFirstTail ==
  ASSUME NEW s \in Seq(Envelope), s # <<>>, OnlyFirst(s)
  PROVE  OnlyFirst(Tail(s)) /\ \A m \in Range(Tail(s)) : m.kind # "Flush"
<1>1. /\ Len(s) \in Nat \ {0} /\ DOMAIN s = 1 .. Len(s)
      /\ DOMAIN Tail(s) = 1 .. Len(s) - 1
      /\ \A i \in 1 .. Len(s) - 1 : Tail(s)[i] = s[i + 1]
  BY TailAt
<1> DEFINE t == Tail(s)
<1> HIDE DEF t
<1>2. ASSUME NEW i \in DOMAIN t PROVE t[i].kind # "Flush"
  <2>1. i + 1 \in DOMAIN s /\ i + 1 # 1 /\ t[i] = s[i + 1]
    BY <1>1 DEF t
  <2> QED
    BY <2>1 DEF OnlyFirst
<1>3. OnlyFirst(t) /\ \A m \in Range(t) : m.kind # "Flush"
  BY <1>2 DEF OnlyFirst, Range
<1> QED
  BY <1>3 DEF t

\* Envelopes that are no flushes may join behind.
LEMMA OnlyFirstConcat ==
  ASSUME NEW s \in Seq(Envelope), NEW t \in Seq(Envelope), OnlyFirst(s),
         \A m \in Range(t) : m.kind # "Flush"
  PROVE  /\ OnlyFirst(s \o t)
         /\ \A m \in Range(s \o t) : m.kind = "Flush" => m \in Range(s)
<1>1. /\ Len(s) \in Nat /\ Len(t) \in Nat
      /\ DOMAIN s = 1 .. Len(s) /\ DOMAIN t = 1 .. Len(t)
      /\ DOMAIN (s \o t) = 1 .. Len(s) + Len(t)
      /\ \A i \in 1 .. Len(s) : (s \o t)[i] = s[i]
      /\ \A i \in 1 .. Len(t) : (s \o t)[Len(s) + i] = t[i]
  BY ConcatAt
<1> DEFINE u == s \o t
<1>2. ASSUME NEW i \in DOMAIN u, u[i].kind = "Flush" PROVE i = 1
  <2>1. CASE i <= Len(s)
    <3>1. i \in DOMAIN s /\ u[i] = s[i]
      BY <1>1, <2>1
    <3> QED
      BY <1>2, <3>1 DEF OnlyFirst
  <2>2. CASE ~(i <= Len(s))
    <3>1. i - Len(s) \in 1 .. Len(t) /\ Len(s) + (i - Len(s)) = i
      BY <1>1, <2>2
    <3>2. u[i] = t[i - Len(s)]
      BY <1>1, <3>1
    <3>3. u[i] \in Range(t)
      BY <1>1, <3>1, <3>2 DEF Range
    <3> QED
      BY <1>2, <3>3
  <2> QED
    BY <2>1, <2>2
<1>3. Range(u) = Range(s) \cup Range(t)
  BY RangeConcat
<1> QED
  BY <1>2, <1>3 DEF OnlyFirst

\* While the connection stays, a wire loses its first envelope, which the peer takes, or
\* gets others that are no flush.
LEMMA WireMoves ==
  ASSUME IInv, Flushes, NEW x \in Ends,
         Moves
  PROVE  \/ /\ wire[x] # <<>> /\ wire'[x] = Tail(wire[x])
            /\ Resends \/ Takes(Peer(x)) \/ \E first : Acknowledges(Peer(x), first)
         \/ \E t \in Seq(Envelope) : /\ wire'[x] = wire[x] \o t
                                     /\ \A m \in Range(t) : m.kind # "Flush"
<1> DEFINE Loses == /\ wire[x] # <<>> /\ wire'[x] = Tail(wire[x])
                    /\ Resends \/ Takes(Peer(x)) \/ \E first : Acknowledges(Peer(x), first)
           Gains == \E t \in Seq(Envelope) : /\ wire'[x] = wire[x] \o t
                                             /\ \A m \in Range(t) : m.kind # "Flush"
<1>0. TypeOK /\ wire[x] \in Seq(Envelope)
  BY Facts
<1>b. \A m \in Range(buffer[x]) : m.kind # "Flush"
  <2>1. Range(buffer["server"]) \subseteq Envelopes("server") /\ x \in {"client", "server"}
    BY DEF Envelopes, Ends
  <2> QED
    BY <2>1 DEF Flushes
<1>s. ASSUME wire'[x] = wire[x] PROVE Gains
  <2>1. <<>> \in Seq(Envelope) /\ wire[x] = wire[x] \o <<>> /\ Range(<<>>) = {}
    BY <1>0, EmptySeq, ConcatEmptySeq DEF Range
  <2> QED
    BY <1>s, <2>1
<1>1. ASSUME NEW m \in Envelope, m.kind # "Flush", wire'[x] = wire[x] \o <<m>>
      PROVE  Gains
  <2> DEFINE t == <<m>>
  <2>1. t \in Seq(Envelope) /\ Range(t) = {m} /\ wire'[x] = wire[x] \o t
    BY <1>1, RangeOne
  <2> HIDE DEF t
  <2> QED
    BY <1>1, <2>1
<1>2. CASE Idles
  BY <1>s, <1>2 DEF Idles
<1>3. CASE Resends
  <2>1. CASE x = "client"
    <3>1. /\ Kept(x) \in Seq(Envelope) /\ Range(Kept(x)) \subseteq Range(buffer[x])
          /\ wire'[x] = wire[x] \o Kept(x)
      BY <1>0, <1>3, <2>1, TakeEnvelopes DEF Resends, record
    <3> QED
      BY <1>b, <3>1
  <2>2. CASE x = "server"
    BY <1>3, <2>2 DEF Resends, record, take, Peer
  <2> QED
    BY <2>1, <2>2 DEF Ends
<1>4. ASSUME NEW e \in Ends, NEW m, Posts(e, m) \/ Greets(e, m) PROVE Gains
  <2>1. /\ m \in Envelope /\ m.kind # "Flush"
        /\ wire'[x] = wire[x] \/ wire'[x] = wire[x] \o <<m>>
    BY <1>4, Pairs DEF Posts, Greets
  <2> QED
    BY <1>s, <1>1, <2>1
<1>5. ASSUME NEW e \in Ends, NEW first, Acknowledges(e, first) PROVE Loses \/ Gains
  <2>1. CASE x = Peer(e)
    BY <1>5, <2>1, Pairs DEF Acknowledges, take
  <2>2. CASE x = e
    <3>1. /\ first \in Seq(Envelope) /\ Range(first) \subseteq Range(buffer[e])
          /\ AckOf(e) \in Envelope /\ AckOf(e).kind # "Flush"
          /\ wire'[e] = (wire[e] \o first) \o <<AckOf(e)>>
      <4>1. take(e) /\ wire'[Peer(e)] = Tail(wire[Peer(e)])
        BY <1>5 DEF Acknowledges
      <4>2. Range(buffer'[e]) \subseteq Range(buffer[e])
        BY <1>0, <4>1, TakeSeen
      <4>3. first \in Seq(Envelope) /\ Range(first) \subseteq Range(buffer'[e])
        BY <1>0, <1>5, AcknowledgesSeen
      <4> QED
        BY <1>5, <4>2, <4>3 DEF Acknowledges, AckOf
    <3> DEFINE last == <<AckOf(e)>>
    <3>2. last \in Seq(Envelope) /\ Range(last) = {AckOf(e)}
      BY <3>1, RangeOne
    <3>3. wire'[e] = (wire[e] \o first) \o last
      BY <3>1
    <3> HIDE DEF last
    <3>4. first \o last \in Seq(Envelope) /\ Range(first \o last) = Range(first) \cup Range(last)
      BY <3>1, <3>2, RangeConcat
    <3>5. (wire[e] \o first) \o last = wire[e] \o (first \o last)
      <4>1. first \in Seq(Envelope) /\ last \in Seq(Envelope) /\ wire[e] \in Seq(Envelope)
        BY <1>0, <2>2, <3>1, <3>2
      <4> QED
        BY <4>1, ConcatThree, Zenon
    <3>6. \A m \in Range(first \o last) : m.kind # "Flush"
      BY <1>b, <2>2, <3>1, <3>2, <3>4
    <3>7. wire'[x] = wire[x] \o (first \o last)
      BY <2>2, <3>3, <3>5
    <3> QED
      BY <3>4, <3>6, <3>7
  <2> QED
    BY <2>1, <2>2, Pairs
<1>6. ASSUME NEW e \in Ends, Takes(e) PROVE Loses \/ Gains
  BY <1>s, <1>6, Pairs DEF Takes, record, take
<1> QED
  BY <1>2, <1>3, <1>4, <1>5, <1>6 DEF Moves

\* Every step keeps flushes where they belong.
LEMMA NextFlushes == IInv /\ Flushes /\ [Next]_vars => Flushes'
<1> SUFFICES ASSUME IInv, Flushes, [Next]_vars PROVE Flushes'
  OBVIOUS
<1>0. /\ TypeOK /\ Connected /\ drops \in Nat /\ "client" \in Ends /\ "server" \in Ends
      /\ Peer("client") = "server" /\ Peer("server") = "client"
      /\ \A e \in Ends : e = "client" \/ e = "server"
      /\ wire["client"] \in Seq(Envelope)
  BY Facts DEF Ends, Peer
<1>f. /\ link = "new" => drops = 0
      /\ link = "down" \/ (\E m \in Range(wire["client"]) : m.kind = "Flush") \/ resyncing # NoId
           => drops > 0
      /\ OnlyFirst(wire["client"])
      /\ \A m \in Envelopes("server") \cup Range(buffer["client"]) : m.kind # "Flush"
  BY DEF Flushes, Flushing, Resyncing
<1>1. CASE disconnect
  <2>1. /\ link' = "down" /\ drops' > 0 /\ wire'["client"] = <<>> /\ wire'["server"] = <<>>
        /\ UNCHANGED buffer
    BY <1>0, <1>1 DEF disconnect
  <2>2. OnlyFirst(wire'["client"]) /\ Envelopes("server")' \subseteq Envelopes("server")
    BY <2>1 DEF OnlyFirst, Envelopes, Range
  <2> QED
    BY <1>f, <2>1, <2>2 DEF Flushes
<1>2. CASE reconnect
  <2> DEFINE flush == Outgoing("client", "Flush", NoId)
  <2>1. /\ flush \in Envelope /\ wire'["client"] = Append(wire["client"], flush)
        /\ Envelopes("server")' = Envelopes("server")
    BY <1>0, <1>2, ReconnectEnvelopes
  <2> HIDE DEF flush
  <2>2. link = "down" /\ link' = "up" /\ UNCHANGED <<drops, buffer>>
    BY <1>2 DEF reconnect
  <2>3. wire'["client"] = <<flush>>
    <3>1. wire["client"] = <<>>
      BY <1>0, <2>2 DEF Connected
    <3>2. Append(<<>>, flush) = <<flush>>
      OBVIOUS
    <3> QED
      BY <2>1, <3>1, <3>2
  <2>4. OnlyFirst(wire'["client"])
    BY <2>3 DEF OnlyFirst
  <2> QED
    BY <1>f, <2>1, <2>2, <2>4 DEF Flushes
<1>3. ASSUME Moves
      PROVE  Flushes'
  <2>1. /\ OnlyFirst(wire'["client"])
        /\ \A m \in Range(wire'["client"]) : m.kind = "Flush" => m \in Range(wire["client"])
    <3>1. CASE wire["client"] # <<>> /\ wire'["client"] = Tail(wire["client"])
      BY <1>0, <1>f, <3>1, OnlyFirstTail
    <3>2. ASSUME NEW t \in Seq(Envelope), wire'["client"] = wire["client"] \o t,
                 \A m \in Range(t) : m.kind # "Flush"
          PROVE  /\ OnlyFirst(wire'["client"])
                 /\ \A m \in Range(wire'["client"]) :
                      m.kind = "Flush" => m \in Range(wire["client"])
      BY <1>0, <1>f, <3>2, OnlyFirstConcat
    <3> QED
      BY <1>0, <1>3, <3>1, <3>2, WireMoves
  <2>2. /\ link' = link \/ (link = "new" /\ link' = "up")
        /\ resyncing' = resyncing \/ resyncing' = NoId
        /\ drops' = drops
    BY <1>3 DEF Moves, Idles, Resends, Posts, Greets, Acknowledges, Takes, record
  <2>3. \A m \in Envelopes("server")' \cup Range(buffer'["client"]) : m.kind # "Flush"
    <3>1. CASE Idles
      BY <1>f, <3>1 DEF Idles, Envelopes
    <3>2. CASE Resends
      <4>1. Envelopes("server")' \subseteq Envelopes("server")
        BY <1>0, <3>2, ResendsSeen
      <4>2. Range(buffer'["client"]) \subseteq Range(buffer["client"])
        BY <1>0, <3>2, TakeSeen DEF Resends, record
      <4> QED
        BY <1>f, <4>1, <4>2
    <3>3. ASSUME NEW e \in Ends, NEW m, Posts(e, m)
          PROVE  \A k \in Envelopes("server")' \cup Range(buffer'["client"]) : k.kind # "Flush"
      <4>1. /\ Range(buffer'[e]) = Range(buffer[e]) \cup {m}
            /\ Envelopes(e)' \subseteq Envelopes(e) \cup {m}
            /\ Envelopes(Peer(e))' = Envelopes(Peer(e))
        BY <1>0, <3>3, PostsSeen
      <4>2. m.kind # "Flush" /\ buffer'[Peer(e)] = buffer[Peer(e)]
        BY <3>3 DEF Posts
      <4> QED
        BY <1>0, <1>f, <4>1, <4>2
    <3>4. ASSUME NEW e \in Ends, NEW m, Greets(e, m)
          PROVE  \A k \in Envelopes("server")' \cup Range(buffer'["client"]) : k.kind # "Flush"
      <4>1. /\ Envelopes(e)' \subseteq Envelopes(e) \cup {m}
            /\ Envelopes(Peer(e))' = Envelopes(Peer(e))
        BY <1>0, <3>4, GreetsSeen
      <4>2. m.kind # "Flush" /\ UNCHANGED buffer
        BY <3>4 DEF Greets
      <4> QED
        BY <1>0, <1>f, <4>1, <4>2
    <3>5. ASSUME NEW e \in Ends, NEW first, Acknowledges(e, first)
          PROVE  \A k \in Envelopes("server")' \cup Range(buffer'["client"]) : k.kind # "Flush"
      <4>1. /\ Envelopes(e)' \subseteq Envelopes(e) \cup {AckOf(e)}
            /\ Envelopes(Peer(e))' \subseteq Envelopes(Peer(e))
            /\ Range(buffer'[e]) \subseteq Range(buffer[e])
            /\ buffer'[Peer(e)] = buffer[Peer(e)]
        BY <1>0, <3>5, AcknowledgesSeen, TakeSeen DEF Acknowledges
      <4>2. AckOf(e).kind # "Flush"
        BY DEF AckOf
      <4> QED
        BY <1>0, <1>f, <4>1, <4>2
    <3>6. ASSUME NEW e \in Ends, Takes(e)
          PROVE  \A k \in Envelopes("server")' \cup Range(buffer'["client"]) : k.kind # "Flush"
      <4>1. /\ Envelopes("server")' \subseteq Envelopes("server")
            /\ Range(buffer'[e]) \subseteq Range(buffer[e])
            /\ buffer'[Peer(e)] = buffer[Peer(e)]
        BY <1>0, <3>6, TakesSeen, TakeSeen DEF Takes, record
      <4> QED
        BY <1>0, <1>f, <4>1
    <3> QED
      BY <1>3, <3>1, <3>2, <3>3, <3>4, <3>5, <3>6 DEF Moves
  <2> QED
    BY <1>f, <2>1, <2>2, <2>3 DEF Flushes, Flushing, Resyncing
<1> QED
  BY <1>1, <1>2, <1>3, Steps DEF Moves

-----------------------------------------------------------------------------
(* What is never lost *)

\* Every message of e up to n has been heard: an `ack_id` of n may let go of it.
Covered(e, n) == \A id \in posted[e] : id <= n => id \in BagToSet(heard[e])

\* Every message of e has been heard or is on its way.
Delivering(e) ==
  \A id \in posted[e] : id \in BagToSet(heard[e]) \/ \E m \in Range(wire[e]) : m.id = id

\* Every message of e has been heard or is kept.
Safe(e) ==
  \A id \in posted[e] : id \in BagToSet(heard[e]) \/ \E m \in Range(buffer[e]) : m.id = id

\* Whatever the peer of e says it received lets go only of what was heard.
CoveredAcks(e) ==
  /\ Covered(e, max_received[Peer(e)])
  /\ \A m \in Envelopes(Peer(e)) : Covered(e, m.ack_id)

\* In front of an envelope with a number in P there are only lower numbers.
Ordered(envelopes, P) ==
  \A i, j \in DOMAIN envelopes :
    i < j /\ envelopes[j].id \in P => envelopes[i].id < envelopes[j].id

\* The messages of e are on the wire in the order in which they were posted.
InOrder(e) == Ordered(wire[e], posted[e])

\* A step posts at most the next number, and what was heard stays so.
LEMMA Histories ==
  ASSUME IInv, [Next]_vars, NEW x \in Ends
  PROVE  /\ posted'[x] \subseteq posted[x] \cup {next_message_id[x]}
         /\ BagToSet(heard[x]) \subseteq BagToSet(heard'[x])
<1>0. TypeOK
  BY Facts
<1>1. CASE disconnect \/ reconnect \/ Idles
  BY <1>1 DEF disconnect, reconnect, history, Idles
<1>2. CASE Resends
  <2>1. record("client") /\ "client" \in Ends
    BY <1>2 DEF Resends, Ends
  <2>2. /\ heard'["client"] = heard["client"] /\ UNCHANGED posted
        /\ BagToSet(heard[Peer("client")]) \subseteq BagToSet(heard'[Peer("client")])
    BY <1>0, <2>1, HeardMore DEF record
  <2> QED
    BY <2>1, <2>2, Pairs
<1>3. ASSUME NEW e \in Ends, NEW m, Posts(e, m)
      PROVE  /\ posted'[x] \subseteq posted[x] \cup {next_message_id[x]}
             /\ BagToSet(heard[x]) \subseteq BagToSet(heard'[x])
  BY <1>3, Pairs DEF Posts
<1>4. ASSUME NEW e \in Ends, NEW m, Greets(e, m) \/ Acknowledges(e, m)
      PROVE  UNCHANGED <<posted, heard>>
  BY <1>4 DEF Greets, Acknowledges
<1>5. ASSUME NEW e \in Ends, Takes(e)
      PROVE  /\ posted'[x] \subseteq posted[x] \cup {next_message_id[x]}
             /\ BagToSet(heard[x]) \subseteq BagToSet(heard'[x])
  <2>1. record(e)
    BY <1>5 DEF Takes
  <2>2. /\ heard'[e] = heard[e] /\ UNCHANGED posted
        /\ BagToSet(heard[Peer(e)]) \subseteq BagToSet(heard'[Peer(e)])
    BY <1>0, <2>1, HeardMore DEF record
  <2> QED
    BY <2>2, Pairs
<1> QED
  BY <1>1, <1>2, <1>3, <1>4, <1>5, Steps DEF Moves

\* What a given number covers stays covered: new messages have higher numbers.
LEMMA CoveredStays ==
  ASSUME IInv, [Next]_vars, NEW x \in Ends, NEW n \in Int,
         n <= 0 \/ n < next_message_id[x], Covered(x, n)
  PROVE  \A id \in posted'[x] : id <= n => id \in BagToSet(heard'[x])
<1>1. /\ posted'[x] \subseteq posted[x] \cup {next_message_id[x]}
      /\ BagToSet(heard[x]) \subseteq BagToSet(heard'[x])
  BY Histories
<1>2. IInv'
  BY NextIInv
<1>3. next_message_id[x] \in Nat /\ \A id \in posted'[x] : 0 < id
  <2>1. Numbered'
    BY <1>2 DEF IInv
  <2> QED
    BY <2>1, Facts DEF Numbered
<1> SUFFICES ASSUME NEW id \in posted'[x], id <= n PROVE id \in BagToSet(heard'[x])
  OBVIOUS
<1>4. id # next_message_id[x]
  BY <1>3
<1> QED
  BY <1>1, <1>4 DEF Covered

\* While the connection is not down, what is on its way to be heard stays so.
LEMMA DeliveringStays ==
  ASSUME IInv, Apart, NEW x \in Ends, Delivering(x), link # "down",
         Moves
  PROVE  Delivering(x)'
<1>0. TypeOK
  BY Facts
<1>1. ASSUME NEW id \in posted[x]
      PROVE  id \in BagToSet(heard'[x]) \/ \E m \in Range(wire'[x]) : m.id = id
  <2>0. id \in BagToSet(heard[x]) \/ \E m \in Range(wire[x]) : m.id = id
    BY DEF Delivering
  <2>1. CASE Idles
    BY <2>0, <2>1 DEF Idles
  <2>2. ASSUME NEW e \in Ends, record(e), Range(wire[e]) \subseteq Range(wire'[e]),
               wire'[Peer(e)] = Tail(wire[Peer(e)])
        PROVE  id \in BagToSet(heard'[x]) \/ \E m \in Range(wire'[x]) : m.id = id
    <3>1. /\ heard'[e] = heard[e]
          /\ BagToSet(heard'[Peer(e)]) = BagToSet(heard[Peer(e)]) \cup {Incoming(e).id}
      BY <1>0, <2>2, HeardMore
    <3>2. Range(wire[Peer(e)]) = {Incoming(e)} \cup Range(wire'[Peer(e)])
      BY <1>0, <2>2, TakeSeen DEF record
    <3> QED
      BY <2>0, <2>2, <3>1, <3>2, Pairs
  <2>3. CASE Resends
    <3>1. "client" \in Ends /\ Peer("client") = "server" /\ record("client")
          /\ wire'["server"] = Tail(wire["server"])
      BY <2>3 DEF Ends, Peer, Resends
    <3>2. Range(wire["client"]) \subseteq Range(wire'["client"])
      BY <1>0, <2>3, ResendsSeen
    <3> QED
      BY <2>2, <3>1, <3>2
  <2>4. ASSUME NEW e \in Ends, NEW m, Posts(e, m) \/ Greets(e, m)
        PROVE  id \in BagToSet(heard'[x]) \/ \E k \in Range(wire'[x]) : k.id = id
    <3>1. /\ Range(wire[e]) \subseteq Range(wire'[e]) /\ UNCHANGED heard
          /\ wire'[Peer(e)] = wire[Peer(e)]
      BY <1>0, <2>4, PostsSeen, GreetsSeen DEF Posts, Greets
    <3> QED
      BY <2>0, <3>1, Pairs
  <2>5. ASSUME NEW e \in Ends, NEW first, Acknowledges(e, first)
        PROVE  id \in BagToSet(heard'[x]) \/ \E k \in Range(wire'[x]) : k.id = id
    <3>1. /\ Range(wire[e]) \subseteq Range(wire'[e]) /\ UNCHANGED heard
          /\ Range(wire[Peer(e)]) = {Incoming(e)} \cup Range(wire'[Peer(e)])
          /\ Incoming(e) \in Envelopes(Peer(e)) /\ Incoming(e).kind \in {"Flush", "Started"}
      <4>1. /\ take(e) /\ wire'[Peer(e)] = Tail(wire[Peer(e)]) /\ UNCHANGED heard
            /\ Incoming(e).kind \in {"Flush", "Started"}
        BY <2>5 DEF Acknowledges
      <4>2. Range(wire'[e]) = Range(wire[e]) \cup Range(first) \cup {AckOf(e)}
        BY <1>0, <2>5, AcknowledgesSeen
      <4> QED
        BY <1>0, <4>1, <4>2, TakeSeen
    <3>2. Incoming(e).id \notin posted[Peer(e)]
      BY <3>1, Pairs DEF Apart
    <3> QED
      BY <2>0, <3>1, <3>2, Pairs
  <2>6. ASSUME NEW e \in Ends, Takes(e)
        PROVE  id \in BagToSet(heard'[x]) \/ \E k \in Range(wire'[x]) : k.id = id
    BY <2>2, <2>6 DEF Takes
  <2> QED
    BY <2>1, <2>3, <2>4, <2>5, <2>6 DEF Moves
<1>2. ASSUME NEW id \in posted'[x], id \notin posted[x]
      PROVE  \E m \in Range(wire'[x]) : m.id = id
  <2>1. PICK e \in Ends : \E m : Posts(e, m) /\ x = e /\ id = m.id
    <3>1. posted' # posted
      BY <1>2
    <3>2. PICK e \in Ends : \E m : Posts(e, m)
      BY <3>1 DEF Moves, Idles, Resends, Greets, Acknowledges, Takes, record
    <3>3. PICK m : Posts(e, m)
      BY <3>2
    <3>4. posted'[e] = posted[e] \cup {m.id} /\ posted'[Peer(e)] = posted[Peer(e)]
      BY <3>3 DEF Posts
    <3> QED
      BY <1>2, <3>3, <3>4, Pairs
  <2>2. PICK m : Posts(e, m) /\ x = e /\ id = m.id
    BY <2>1
  <2>3. link \in {"new", "up", "down"} /\ link # "new"
    BY <1>0, <2>2 DEF TypeOK, Posts
  <2> QED
    BY <1>0, <2>2, <2>3, PostsSeen
<1> QED
  BY <1>1, <1>2 DEF Delivering

\* What is kept stays kept or was heard, provided that an envelope which is taken covers
\* what it acknowledges.
LEMMA SafeStays ==
  ASSUME IInv, [Next]_vars, NEW x \in Ends, Safe(x), take(x) => Covered(x, Incoming(x).ack_id)
  PROVE  Safe(x)'
<1>0. TypeOK
  BY Facts
<1>h. BagToSet(heard[x]) \subseteq BagToSet(heard'[x])
  BY Histories
<1>1. ASSUME Range(buffer[x]) \subseteq Range(buffer'[x]), posted'[x] = posted[x]
      PROVE  Safe(x)'
  BY <1>1, <1>h DEF Safe
<1>2. ASSUME NEW e \in Ends, take(e), wire'[Peer(e)] = Tail(wire[Peer(e)]), UNCHANGED posted
      PROVE  Safe(x)'
  <2>1. /\ \A m \in Range(buffer[e]) : m.id <= Incoming(e).ack_id \/ m \in Range(buffer'[e])
        /\ buffer'[Peer(e)] = buffer[Peer(e)]
    BY <1>0, <1>2, TakeSeen
  <2>2. CASE x = e
    BY <1>2, <1>h, <2>1, <2>2 DEF Safe, Covered
  <2>3. CASE x = Peer(e)
    BY <1>1, <1>2, <2>1, <2>3
  <2> QED
    BY <2>2, <2>3, Pairs
<1>3. CASE disconnect \/ reconnect \/ Idles
  BY <1>1, <1>3 DEF disconnect, reconnect, history, Idles
<1>4. CASE Resends
  BY <1>2, <1>4 DEF Resends, record, Ends, Peer
<1>5. ASSUME NEW e \in Ends, NEW m, Posts(e, m) PROVE Safe(x)'
  <2>1. Range(buffer'[e]) = Range(buffer[e]) \cup {m}
    BY <1>0, <1>5, PostsSeen
  <2>2. /\ posted'[e] = posted[e] \cup {m.id} /\ posted'[Peer(e)] = posted[Peer(e)]
        /\ buffer'[Peer(e)] = buffer[Peer(e)]
    BY <1>5 DEF Posts
  <2> QED
    BY <1>h, <2>1, <2>2, Pairs DEF Safe
<1>6. ASSUME NEW e \in Ends, NEW m, Greets(e, m) PROVE Safe(x)'
  BY <1>1, <1>6 DEF Greets
<1>7. ASSUME NEW e \in Ends, NEW first, Acknowledges(e, first) PROVE Safe(x)'
  BY <1>2, <1>7 DEF Acknowledges
<1>8. ASSUME NEW e \in Ends, Takes(e) PROVE Safe(x)'
  BY <1>2, <1>8 DEF Takes, record
<1> QED
  BY <1>3, <1>4, <1>5, <1>6, <1>7, <1>8, Steps DEF Moves

\* A new envelope acknowledges what its sender received last, or nothing.
LEMMA NewAcks ==
  ASSUME IInv, [Next]_vars, NEW y \in Ends, NEW m \in Envelopes(y)', m \notin Envelopes(y)
  PROVE  m.ack_id \in {NoId, max_received[y]}
<1>0. TypeOK
  BY Facts
<1>1. CASE disconnect
  BY <1>1 DEF disconnect, Envelopes, Range
<1>2. CASE reconnect
  BY <1>0, <1>2, ReconnectEnvelopes DEF Outgoing, Ends
<1>3. CASE Idles
  BY <1>3 DEF Idles, Envelopes
<1>4. CASE Resends
  BY <1>0, <1>4, ResendsSeen
<1>5. ASSUME NEW e \in Ends, NEW k, Posts(e, k) PROVE m.ack_id \in {NoId, max_received[y]}
  <2>1. /\ Envelopes(e)' \subseteq Envelopes(e) \cup {k} /\ k.ack_id = max_received[e]
        /\ Envelopes(Peer(e))' = Envelopes(Peer(e))
    BY <1>0, <1>5, PostsSeen DEF Posts
  <2> QED
    BY <2>1, Pairs
<1>6. ASSUME NEW e \in Ends, NEW k, Greets(e, k) PROVE m.ack_id \in {NoId, max_received[y]}
  <2>1. /\ Envelopes(e)' \subseteq Envelopes(e) \cup {k} /\ k.ack_id = NoId
        /\ Envelopes(Peer(e))' = Envelopes(Peer(e))
    BY <1>0, <1>6, GreetsSeen DEF Greets
  <2> QED
    BY <2>1, Pairs
<1>7. ASSUME NEW e \in Ends, NEW first, Acknowledges(e, first)
      PROVE  m.ack_id \in {NoId, max_received[y]}
  <2>1. /\ Envelopes(e)' \subseteq Envelopes(e) \cup {AckOf(e)} /\ AckOf(e).ack_id = NoId
        /\ Envelopes(Peer(e))' \subseteq Envelopes(Peer(e))
    BY <1>0, <1>7, AcknowledgesSeen, TakeSeen DEF Acknowledges, AckOf
  <2> QED
    BY <2>1, Pairs
<1>8. ASSUME NEW e \in Ends, Takes(e) PROVE FALSE
  BY <1>0, <1>8, TakesSeen
<1> QED
  BY <1>1, <1>2, <1>3, <1>4, <1>5, <1>6, <1>7, <1>8, Steps DEF Moves

\* Acknowledgements stay covered when what the peer received last is.
LEMMA AcksStay ==
  ASSUME IInv, [Next]_vars, NEW x \in Ends, CoveredAcks(x),
         \A id \in posted'[x] : id <= max_received'[Peer(x)] => id \in BagToSet(heard'[x])
  PROVE  CoveredAcks(x)'
<1>1. ASSUME NEW m \in Envelopes(Peer(x))', NEW id \in posted'[x], id <= m.ack_id
      PROVE  id \in BagToSet(heard'[x])
  <2>0. Peer(x) \in Ends /\ Peer(Peer(x)) = x
    BY Pairs
  <2>1. PICK n \in Int : /\ n = m.ack_id
                         /\ n <= 0 \/ n < next_message_id[x]
                         /\ Covered(x, n)
    <3>1. CASE m \in Envelopes(Peer(x))
      BY <2>0, <3>1, Facts DEF CoveredAcks
    <3>2. CASE m.ack_id = max_received[Peer(x)]
      BY <2>0, <3>2, Facts DEF CoveredAcks
    <3>3. CASE m.ack_id = NoId
      BY <2>0, <3>3, Facts DEF Covered
    <3> QED
      BY <2>0, <3>1, <3>2, <3>3, NewAcks
  <2> QED
    BY <1>1, <2>1, CoveredStays
<1> QED
  BY <1>1 DEF CoveredAcks, Covered

\* When messages arrive in order, the number of the one that arrives covers those before.
LEMMA Receipt ==
  ASSUME IInv, NEW p \in Ends, NEW x \in Ends, x = Peer(p), Delivering(x), InOrder(x),
         record(p), wire'[x] = Tail(wire[x])
  PROVE  \A id \in posted'[x] : id <= Incoming(p).id => id \in BagToSet(heard'[x])
<1> SUFFICES ASSUME NEW id \in posted[x], id <= Incoming(p).id, id \notin BagToSet(heard'[x])
             PROVE  FALSE
  BY DEF record
<1>1. TypeOK /\ wire[x] \in Seq(Envelope) /\ wire[x] # <<>> /\ id \in Nat
  BY Facts DEF record, take
<1>2. BagToSet(heard'[x]) = BagToSet(heard[x]) \cup {Incoming(p).id}
  BY <1>1, HeardMore
<1>3. PICK m \in Range(wire[x]) : m.id = id
  BY <1>2 DEF Delivering
<1>4. Len(wire[x]) \in Nat \ {0} /\ DOMAIN wire[x] = 1 .. Len(wire[x])
  BY <1>1, TailAt
<1>5. PICK j \in 1 .. Len(wire[x]) : m = wire[x][j]
  BY <1>3, <1>4 DEF Range
<1>6. j # 1
  BY <1>2, <1>3, <1>5 DEF Incoming
<1>7. 1 \in DOMAIN wire[x] /\ j \in DOMAIN wire[x] /\ 1 < j
  BY <1>4, <1>6
<1>8. wire[x][1].id < wire[x][j].id
  BY <1>3, <1>5, <1>7 DEF InOrder, Ordered
<1>9. Incoming(p).id < id /\ Incoming(p).id \in Nat
  BY <1>1, <1>3, <1>5, <1>8, TakeEnvelopes DEF Incoming, record, Envelope
<1> QED
  BY <1>1, <1>9

\* Order survives that the first envelope leaves.
LEMMA OrderedTail ==
  ASSUME NEW s \in Seq(Envelope), s # <<>>, NEW P, Ordered(s, P)
  PROVE  Ordered(Tail(s), P)
<1>1. /\ Len(s) \in Nat \ {0} /\ DOMAIN s = 1 .. Len(s)
      /\ DOMAIN Tail(s) = 1 .. Len(s) - 1
      /\ \A i \in 1 .. Len(s) - 1 : Tail(s)[i] = s[i + 1]
  BY TailAt
<1> DEFINE t == Tail(s)
<1> HIDE DEF t
<1>2. ASSUME NEW i \in DOMAIN t, NEW j \in DOMAIN t, i < j, t[j].id \in P
      PROVE  t[i].id < t[j].id
  <2>1. /\ i + 1 \in DOMAIN s /\ j + 1 \in DOMAIN s /\ i + 1 < j + 1
        /\ t[i] = s[i + 1] /\ t[j] = s[j + 1]
    BY <1>1, <1>2 DEF t
  <2> QED
    BY <1>2, <2>1 DEF Ordered
<1>3. Ordered(t, P)
  BY <1>2 DEF Ordered
<1> QED
  BY <1>3 DEF t

\* It survives that another with a higher number joins behind.
LEMMA OrderedSnoc ==
  ASSUME NEW s \in Seq(Envelope), NEW m \in Envelope, NEW P, Ordered(s, P),
         m.id \in P => \A k \in Range(s) : k.id < m.id
  PROVE  Ordered(s \o <<m>>, P)
<1>1. /\ Len(s) \in Nat /\ DOMAIN s = 1 .. Len(s)
      /\ DOMAIN (s \o <<m>>) = 1 .. Len(s) + 1
      /\ \A i \in 1 .. Len(s) : (s \o <<m>>)[i] = s[i]
      /\ (s \o <<m>>)[Len(s) + 1] = m
  BY SnocAt
<1> DEFINE t == s \o <<m>>
<1> HIDE DEF t
<1>2. ASSUME NEW i \in DOMAIN t, NEW j \in DOMAIN t, i < j, t[j].id \in P
      PROVE  t[i].id < t[j].id
  <2>1. i \in DOMAIN s /\ t[i] = s[i]
    BY <1>1, <1>2 DEF t
  <2>2. CASE j = Len(s) + 1
    BY <1>1, <1>2, <2>1, <2>2 DEF t, Range
  <2>3. CASE j # Len(s) + 1
    <3>1. j \in DOMAIN s /\ t[j] = s[j]
      BY <1>1, <2>3 DEF t
    <3> QED
      BY <1>2, <2>1, <3>1 DEF Ordered
  <2> QED
    BY <2>2, <2>3
<1>3. Ordered(t, P)
  BY <1>2 DEF Ordered
<1> QED
  BY <1>3 DEF t

\* It survives that numbers are posted which are not on the wire.
LEMMA OrderedMore ==
  ASSUME NEW s, NEW P, NEW Q, Ordered(s, P), \A k \in Range(s) : k.id \in Q => k.id \in P
  PROVE  Ordered(s, Q)
BY DEF Ordered, Range

-----------------------------------------------------------------------------
(* The first connection *)

\* Until a connection is lost, messages arrive in order: what is acknowledged was heard.
BeforeDrop ==
  drops = 0 => \A e \in Ends : Delivering(e) /\ Safe(e) /\ CoveredAcks(e) /\ InOrder(e)

\* Order survives every step on the first connection.
LEMMA InOrderStays ==
  ASSUME IInv, NEW x \in Ends, InOrder(x),
         \/ Idles
         \/ \E e \in Ends : \/ \E m : Posts(e, m) \/ Greets(e, m)
                            \/ Acknowledges(e, <<>>)
                            \/ Takes(e)
  PROVE  InOrder(x)'
<1>0. /\ TypeOK /\ wire[x] \in Seq(Envelope) /\ Ordered(wire[x], posted[x])
      /\ next_message_id[x] \in Nat
      /\ \A id \in posted[x] : 0 < id /\ id < next_message_id[x]
  BY Facts DEF InOrder
<1>m. \A k \in Range(wire[x]) :
        k.id \in Nat /\ (k.id = 0 \/ k.id < next_message_id[x])
  BY Facts DEF Envelopes
<1>1. CASE wire'[x] = wire[x] /\ posted'[x] = posted[x]
  BY <1>0, <1>1 DEF InOrder
<1>2. CASE wire[x] # <<>> /\ wire'[x] = Tail(wire[x]) /\ posted'[x] = posted[x]
  BY <1>0, <1>2, OrderedTail DEF InOrder
<1>3. ASSUME NEW m \in Envelope, m.id \notin posted[x], posted'[x] = posted[x],
             wire'[x] = wire[x] \o <<m>>
      PROVE  InOrder(x)'
  BY <1>0, <1>3, OrderedSnoc DEF InOrder
<1>4. ASSUME NEW m, Posts(x, m) PROVE InOrder(x)'
  <2>1. /\ m \in Envelope /\ m.id = next_message_id[x] /\ m.id > 0
        /\ posted'[x] = posted[x] \cup {m.id}
        /\ wire'[x] = wire[x] \/ wire'[x] = wire[x] \o <<m>>
    BY <1>4 DEF Posts
  <2>2. \A k \in Range(wire[x]) : k.id < m.id
    BY <1>m, <1>0, <2>1
  <2>3. \A k \in Range(wire[x]) : k.id \in posted'[x] => k.id \in posted[x]
    BY <1>m, <2>1, <2>2
  <2>4. Ordered(wire[x], posted'[x])
    BY <1>0, <2>3, OrderedMore
  <2>5. Ordered(wire[x] \o <<m>>, posted'[x])
    BY <1>0, <2>1, <2>2, <2>4, OrderedSnoc
  <2> QED
    BY <2>1, <2>4, <2>5 DEF InOrder
<1>5. ASSUME NEW e \in Ends, NEW m, Posts(e, m) PROVE InOrder(x)'
  <2>1. CASE x = e
    BY <1>4, <1>5, <2>1
  <2>2. CASE x = Peer(e)
    BY <1>1, <1>5, <2>2 DEF Posts
  <2> QED
    BY <2>1, <2>2, Pairs
<1>6. ASSUME NEW e \in Ends, NEW m, Greets(e, m) PROVE InOrder(x)'
  <2>1. /\ m \in Envelope /\ m.id = 0 /\ UNCHANGED posted
        /\ wire'[x] = wire[x] \/ wire'[x] = wire[x] \o <<m>>
    BY <1>6, Pairs DEF Greets
  <2> QED
    BY <1>0, <1>1, <1>3, <2>1
<1>7. ASSUME NEW e \in Ends, Acknowledges(e, <<>>) PROVE InOrder(x)'
  <2>1. CASE x = Peer(e)
    BY <1>2, <1>7, <2>1 DEF Acknowledges, take
  <2>2. CASE x = e
    <3>1. /\ AckOf(e) \in Envelope /\ AckOf(e).id = next_message_id[x] /\ UNCHANGED posted
          /\ wire'[x] = (wire[x] \o <<>>) \o <<AckOf(e)>>
      BY <1>7, <2>2 DEF Acknowledges, AckOf
    <3>2. wire[x] \o <<>> = wire[x]
      BY <1>0, ConcatEmptySeq
    <3>3. AckOf(e).id \notin posted[x]
      BY <1>0, <3>1
    <3> QED
      BY <1>3, <3>1, <3>2, <3>3
  <2> QED
    BY <2>1, <2>2, Pairs
<1>8. ASSUME NEW e \in Ends, Takes(e) PROVE InOrder(x)'
  BY <1>1, <1>2, <1>8, Pairs DEF Takes, record, take
<1>9. CASE Idles
  BY <1>1, <1>9 DEF Idles
<1> QED
  BY <1>5, <1>6, <1>7, <1>8, <1>9

\* Every step on the first connection preserves it.
LEMMA NextBeforeDrop ==
  IInv /\ Apart /\ Flushes /\ BeforeDrop /\ [Next]_vars => BeforeDrop'
<1> SUFFICES ASSUME IInv, Apart, Flushes, BeforeDrop, [Next]_vars, drops' = 0, NEW x \in Ends
             PROVE  Delivering(x)' /\ Safe(x)' /\ CoveredAcks(x)' /\ InOrder(x)'
  BY DEF BeforeDrop
<1>0. TypeOK /\ drops \in Nat /\ max_received[Peer(x)] \in Nat /\ Peer(x) \in Ends
      /\ Peer(Peer(x)) = x
  BY Facts
<1>1. drops = 0 /\ ~disconnect
  <2>1. ~disconnect
    BY <1>0 DEF disconnect
  <2> QED
    BY <2>1, Steps DEF Moves, reconnect, Idles, Resends, Posts, Greets, Acknowledges, Takes, record
<1>2. ~Flushing /\ ~Resyncing
  BY <1>1 DEF Flushes
<1>3. ~reconnect /\ ~Resends /\ link # "down"
  BY <1>2 DEF reconnect, Resends, Flushing, Resyncing
<1>4. ASSUME NEW e \in Ends, NEW first, Acknowledges(e, first) PROVE first = <<>>
  <2>1. /\ take(e) /\ wire'[Peer(e)] = Tail(wire[Peer(e)])
        /\ first = (IF Incoming(e).kind = "Flush" THEN Kept(e) ELSE <<>>)
    BY <1>4 DEF Acknowledges
  <2>2. Incoming(e) \in Range(wire[Peer(e)]) /\ Incoming(e) \in Envelopes(Peer(e))
    BY <1>0, <2>1, TakeEnvelopes, TakeSeen
  <2>3. Incoming(e).kind # "Flush"
    BY <1>2, <2>2, Pairs DEF Flushes, Flushing, Ends
  <2> QED
    BY <2>1, <2>3
<1>5. \/ Idles
      \/ \E e \in Ends : \/ \E m : Posts(e, m) \/ Greets(e, m)
                         \/ Acknowledges(e, <<>>)
                         \/ Takes(e)
  BY <1>1, <1>3, <1>4, Steps DEF Moves
<1>6. Delivering(x) /\ Safe(x) /\ CoveredAcks(x) /\ InOrder(x)
  BY <1>1 DEF BeforeDrop
<1>7. Delivering(x)'
  BY <1>3, <1>5, <1>6, DeliveringStays DEF Moves
<1>8. Safe(x)'
  <2>1. take(x) => Covered(x, Incoming(x).ack_id)
    BY <1>0, <1>6, TakeEnvelopes DEF CoveredAcks, Envelopes
  <2> QED
    BY <1>6, <2>1, SafeStays
<1>9. CoveredAcks(x)'
  <2>1. CASE max_received'[Peer(x)] = max_received[Peer(x)]
    <3>1. \A id \in posted'[x] : id <= max_received[Peer(x)] => id \in BagToSet(heard'[x])
      <4>1. max_received[Peer(x)] <= 0 \/ max_received[Peer(x)] < next_message_id[x]
        BY <1>0, Facts
      <4>2. Covered(x, max_received[Peer(x)]) /\ max_received[Peer(x)] \in Int
        BY <1>0, <1>6 DEF CoveredAcks
      <4> QED
        BY <4>1, <4>2, CoveredStays
    <3> QED
      BY <1>6, <2>1, <3>1, AcksStay
  <2>2. CASE Takes(Peer(x))
    <3>1. record(Peer(x)) /\ wire'[x] = Tail(wire[x])
      BY <1>0, <2>2 DEF Takes
    <3>2. max_received'[Peer(x)] = Incoming(Peer(x)).id
      BY <1>0, <3>1 DEF record, TypeOK
    <3>3. \A id \in posted'[x] : id <= Incoming(Peer(x)).id => id \in BagToSet(heard'[x])
      BY <1>0, <1>6, <3>1, Receipt
    <3> QED
      BY <1>6, <3>2, <3>3, AcksStay
  <2>3. ASSUME NEW e \in Ends, Takes(e), e # Peer(x)
        PROVE  max_received'[Peer(x)] = max_received[Peer(x)]
    BY <1>0, <2>3 DEF Takes, record, TypeOK
  <2> QED
    BY <1>5, <2>1, <2>2, <2>3 DEF Idles, Posts, Greets, Acknowledges
<1>10. InOrder(x)'
  BY <1>5, <1>6, InOrderStays
<1> QED
  BY <1>7, <1>8, <1>9, <1>10

-----------------------------------------------------------------------------
(* After the first drop *)

\* The flush of the client is on its way, and the server has answered nothing of the sort.
Ready ==
  /\ wire["client"] # <<>> /\ wire["client"][1].kind = "Flush"
  /\ wire["client"][1].id = resyncing
  /\ Covered("server", wire["client"][1].ack_id)
  /\ \A m \in Range(wire["server"]) : m.kind # "Ack"

\* The answer to the flush is on its way, and nothing in front of it lets go of a message
\* that was not heard.
Promised ==
  \E k \in DOMAIN wire["server"] :
    /\ wire["server"][k].responding_to = resyncing
    /\ \A j \in 1 .. k : Covered("client", wire["server"][j].ack_id)

\* While one connection was lost, each end keeps what was not heard until it has sent it
\* again; from then on everything is on its way.
AfterDrop ==
  drops = 1 =>
    /\ IF Flushing THEN Safe("server") /\ CoveredAcks("client") ELSE Delivering("server")
    /\ IF Resyncing THEN Safe("client") ELSE Delivering("client")
    /\ link = "down" => Covered("server", max_received["client"])
    /\ link = "up" /\ Flushing => Ready
    /\ link = "up" /\ Resyncing => Awaited /\ (Flushing \/ Promised)

\* The connection is lost for the first time.
LEMMA FirstDrop ==
  ASSUME IInv, BeforeDrop, disconnect, drops = 0, [Next]_vars
  PROVE  AfterDrop'
<1>0. /\ TypeOK /\ "client" \in Ends /\ "server" \in Ends
      /\ Peer("client") = "server" /\ Peer("server") = "client"
      /\ \A x \in Ends : max_received[x] \in Int
  BY Facts DEF Ends, Peer
<1>1. link' = "down" /\ UNCHANGED max_received
  BY DEF disconnect
<1>2. ASSUME NEW x \in Ends
      PROVE  /\ Safe(x)' /\ CoveredAcks(x)'
             /\ \A id \in posted'[x] : id <= max_received[Peer(x)] => id \in BagToSet(heard'[x])
  <2>1. Safe(x) /\ CoveredAcks(x) /\ Peer(x) \in Ends
    BY PeerType DEF BeforeDrop
  <2>2. take(x) => Covered(x, Incoming(x).ack_id)
    BY <1>0, <2>1, TakeEnvelopes DEF CoveredAcks, Envelopes
  <2>3. Safe(x)'
    BY <2>1, <2>2, SafeStays
  <2>4. \A id \in posted'[x] : id <= max_received[Peer(x)] => id \in BagToSet(heard'[x])
    <3>1. /\ max_received[Peer(x)] <= 0 \/ max_received[Peer(x)] < next_message_id[x]
          /\ max_received[Peer(x)] \in Int
      BY <2>1, PeerType, Facts
    <3>2. Covered(x, max_received[Peer(x)])
      BY <2>1 DEF CoveredAcks
    <3> QED
      BY <3>1, <3>2, CoveredStays
  <2>5. CoveredAcks(x)'
    BY <1>1, <2>1, <2>4, AcksStay
  <2> QED
    BY <2>3, <2>4, <2>5
<1>3. Flushing' /\ Resyncing'
  BY <1>1 DEF Flushing, Resyncing
<1>4. Covered("server", max_received["client"])'
  BY <1>0, <1>1, <1>2 DEF Covered
<1> QED
  BY <1>0, <1>1, <1>2, <1>3, <1>4 DEF AfterDrop

\* The connection comes back.
LEMMA ComesBack ==
  ASSUME IInv, AfterDrop, reconnect, drops = 1, [Next]_vars
  PROVE  AfterDrop'
<1>0. /\ TypeOK /\ Connected /\ "client" \in Ends /\ "server" \in Ends
      /\ Peer("client") = "server" /\ Peer("server") = "client"
      /\ next_message_id["client"] \in Nat /\ NoId = -1
      /\ \A x \in Ends : max_received[x] \in Int
      /\ max_received["client"] <= 0 \/ max_received["client"] < next_message_id["server"]
      /\ max_received["server"] <= 0 \/ max_received["server"] < next_message_id["client"]
  BY Facts DEF Ends, Peer
<1>1. link = "down" /\ link' = "up" /\ UNCHANGED <<max_received, drops>>
  BY DEF reconnect
<1>2. /\ Safe("server") /\ CoveredAcks("client") /\ Safe("client")
      /\ Covered("server", max_received["client"])
  BY <1>1 DEF AfterDrop, Flushing, Resyncing
<1>3. wire["client"] = <<>> /\ wire["server"] = <<>>
  BY <1>0, <1>1 DEF Connected
<1>4. Safe("server")' /\ Safe("client")'
  <2>1. ~take("server") /\ ~take("client")
    BY <1>0, <1>3 DEF take
  <2> QED
    BY <1>0, <1>2, <2>1, SafeStays
<1>5. CoveredAcks("client")'
  <2>1. \A id \in posted'["client"] :
          id <= max_received["server"] => id \in BagToSet(heard'["client"])
    BY <1>0, <1>2, CoveredStays DEF CoveredAcks
  <2> QED
    BY <1>0, <1>1, <1>2, <2>1, AcksStay
<1> DEFINE flush == Outgoing("client", "Flush", NoId)
<1>6. /\ wire'["client"] = Append(wire["client"], flush) /\ wire'["server"] = wire["server"]
      /\ Range(wire'["client"]) = Range(wire["client"]) \cup {flush}
  BY <1>0, ReconnectEnvelopes
<1>7. /\ flush.kind = "Flush" /\ flush.id = next_message_id["client"]
      /\ flush.ack_id = max_received["client"]
  BY DEF Outgoing
<1> HIDE DEF flush
<1>8. resyncing' = next_message_id["client"] /\ resyncing' # NoId
  BY <1>0 DEF reconnect
<1>9. Flushing' /\ Resyncing'
  BY <1>6, <1>7, <1>8 DEF Flushing, Resyncing
<1>10. Ready'
  <2>1. Append(<<>>, flush) = <<flush>> /\ <<flush>># <<>> /\ <<flush>>[1] = flush
    OBVIOUS
  <2>2. wire'["client"] # <<>> /\ wire'["client"][1] = flush
    BY <1>3, <1>6, <2>1
  <2>3. \A id \in posted'["server"] :
          id <= max_received["client"] => id \in BagToSet(heard'["server"])
    BY <1>0, <1>2, CoveredStays
  <2>4. Range(wire'["server"]) = {}
    BY <1>3, <1>6 DEF Range
  <2> QED
    BY <1>7, <1>8, <2>2, <2>3, <2>4 DEF Ready, Covered
<1>11. Awaited'
  <2>1. /\ response_channels' =
             [response_channels EXCEPT !["client"] = @ \cup {Channel("client", "Flush")}]
        /\ Channel("client", "Flush") = [id |-> resyncing', kind |-> "Flush"]
    BY <1>8 DEF reconnect, Channel
  <2> QED
    BY <1>0, <2>1 DEF Awaited, TypeOK
<1> QED
  BY <1>1, <1>4, <1>5, <1>9, <1>10, <1>11 DEF AfterDrop

\* What a move leaves as it is.
LEMMA MovesKeep ==
  ASSUME Moves, link # "new"
  PROVE  /\ link' = link /\ drops' = drops
         /\ Resends \/ (resyncing' = resyncing /\ (Awaited => Awaited'))
BY DEF Moves, Idles, Resends, Posts, Greets, Acknowledges, Takes, record, Awaited

\* What an end received last changes only when it takes something.
LEMMA MovesReceive ==
  ASSUME TypeOK, Moves, NEW y \in Ends, max_received'[y] # max_received[y]
  PROVE  record(y)
<1>1. ASSUME NEW e \in Ends, record(e) PROVE record(y)
  BY <1>1 DEF record, TypeOK
<1> QED
  BY <1>1 DEF Moves, Idles, Resends, Posts, Greets, Acknowledges, Takes, Ends

\* What was received last stays covered while nothing more is received.
LEMMA ReceivedStays ==
  ASSUME IInv, [Next]_vars, NEW x \in Ends, Covered(x, max_received[Peer(x)]),
         max_received'[Peer(x)] = max_received[Peer(x)]
  PROVE  Covered(x, max_received[Peer(x)])'
<1>1. /\ max_received[Peer(x)] <= 0 \/ max_received[Peer(x)] < next_message_id[x]
      /\ max_received[Peer(x)] \in Int
  BY PeerType, Facts
<1>2. \A id \in posted'[x] : id <= max_received[Peer(x)] => id \in BagToSet(heard'[x])
  BY <1>1, CoveredStays
<1> QED
  BY <1>2 DEF Covered

\* While the connection is down, whatever is sent is kept.
LEMMA WhileDown ==
  ASSUME IInv, AfterDrop, Moves, drops = 1, link = "down", [Next]_vars
  PROVE  AfterDrop'
<1>0. /\ TypeOK /\ Connected /\ "client" \in Ends /\ "server" \in Ends
      /\ Peer("client") = "server" /\ Peer("server") = "client"
  BY Facts DEF Ends, Peer
<1>1. \A x \in Ends : ~take(x) /\ ~record(x)
  BY <1>0, PeerType DEF Connected, take, record
<1>2. /\ Safe("server") /\ CoveredAcks("client") /\ Safe("client")
      /\ Covered("server", max_received["client"])
  BY DEF AfterDrop, Flushing, Resyncing
<1>3. link' = "down"
  BY MovesKeep
<1>4. \A y \in Ends : max_received'[y] = max_received[y]
  BY <1>0, <1>1, MovesReceive
<1>5. Safe("server")' /\ Safe("client")'
  BY <1>0, <1>1, <1>2, SafeStays
<1>6. Covered("server", max_received["client"])' /\ Covered("client", max_received["server"])'
  <2>1. Covered("client", max_received["server"])
    BY <1>0, <1>2 DEF CoveredAcks
  <2>2. Covered("client", max_received[Peer("client")])'
    BY <1>0, <1>4, <2>1, ReceivedStays
  <2>3. Covered("server", max_received[Peer("server")])'
    BY <1>0, <1>2, <1>4, ReceivedStays
  <2> QED
    BY <1>0, <2>2, <2>3
<1>7. CoveredAcks("client")'
  BY <1>0, <1>2, <1>6, AcksStay DEF Covered
<1> QED
  BY <1>3, <1>5, <1>6, <1>7 DEF AfterDrop, Flushing, Resyncing

\* While the flush is on its way, the server takes nothing else.
LEMMA WhileFlushing ==
  ASSUME IInv, Flushes, AfterDrop, Moves, drops = 1, link = "up", Flushing, [Next]_vars
  PROVE  AfterDrop'
<1>0. /\ TypeOK /\ "client" \in Ends /\ "server" \in Ends
      /\ Peer("client") = "server" /\ Peer("server") = "client"
      /\ \A e \in Ends : e = "client" \/ e = "server"
      /\ wire["client"] \in Seq(Envelope) /\ wire["server"] \in Seq(Envelope)
  BY Facts DEF Ends, Peer
<1>1. /\ Safe("server") /\ CoveredAcks("client") /\ Ready
  BY DEF AfterDrop
<1>2. /\ Incoming("server").kind = "Flush" /\ Incoming("server").id = resyncing
      /\ Covered("server", Incoming("server").ack_id)
      /\ Incoming("server") \in Envelopes("client") /\ resyncing \in Nat /\ resyncing # NoId
  <2>1. wire["client"][1] \in Envelope /\ wire["client"][1] \in Range(wire["client"])
    BY <1>0, <1>1, RangeTail DEF Ready
  <2> QED
    BY <1>0, <1>1, <2>1 DEF Ready, Incoming, Envelopes, Envelope, NoId
<1>3. Safe("client") /\ Awaited
  BY <1>2 DEF AfterDrop, Resyncing
<1>4. ~record("server") /\ ~Takes("server")
  BY <1>2 DEF record, Takes
<1>5. ~Resends
  <2>1. SUFFICES ASSUME Resends PROVE FALSE
    OBVIOUS
  <2>2. take("client") /\ Incoming("client").kind = "Ack"
    BY <1>3, <2>1 DEF Resends, record
  <2>3. Incoming("client") \in Range(wire["server"])
    BY <1>0, <2>2, TakeEnvelopes
  <2> QED
    BY <1>1, <2>2, <2>3 DEF Ready
<1>6. link' = "up" /\ resyncing' = resyncing /\ Awaited' /\ Resyncing'
  BY <1>2, <1>3, <1>5, MovesKeep DEF Resyncing
<1>7. Safe("server")'
  BY <1>0, <1>1, <1>2, SafeStays
<1>8. Safe("client")'
  <2>1. take("client") => Covered("client", Incoming("client").ack_id)
    BY <1>0, <1>1, TakeEnvelopes DEF CoveredAcks, Envelopes
  <2> QED
    BY <1>0, <1>3, <2>1, SafeStays
<1>9. CoveredAcks("client")'
  <2>1. max_received'["server"] = max_received["server"]
    BY <1>0, <1>4, MovesReceive
  <2>2. Covered("client", max_received[Peer("client")])'
    BY <1>0, <1>1, <2>1, ReceivedStays DEF CoveredAcks
  <2> QED
    BY <1>0, <1>1, <2>2, AcksStay DEF Covered
<1>10. ASSUME NEW first, Acknowledges("server", first) PROVE AfterDrop'
  <2>1. /\ take("server") /\ wire'["client"] = Tail(wire["client"]) /\ wire["client"] # <<>>
        /\ wire'["server"] = (wire["server"] \o first) \o <<AckOf("server")>>
        /\ AckOf("server") \in Envelope /\ AckOf("server").responding_to = resyncing
    BY <1>0, <1>2, <1>10 DEF Acknowledges, take, AckOf
  <2>2. /\ first \in Seq(Envelope) /\ Range(first) = Range(buffer'["server"])
        /\ Range(wire'["server"]) = Range(wire["server"]) \cup Range(first) \cup {AckOf("server")}
    BY <1>0, <1>2, <1>10, AcknowledgesSeen
  <2>3. ~Flushing'
    <3>1. \A m \in Range(Tail(wire["client"])) : m.kind # "Flush"
      BY <1>0, <2>1, OnlyFirstTail DEF Flushes
    <3> QED
      BY <1>6, <2>1, <3>1 DEF Flushing
  <2>4. Delivering("server")'
    BY <1>7, <2>2 DEF Safe, Delivering
  <2>5. Promised'
    <3> DEFINE front == wire["server"] \o first
    <3>1. front \in Seq(Envelope)
      BY <1>0, <2>2, RangeConcat
    <3>2. PICK w : w = wire'["server"] /\ w = front \o <<AckOf("server")>>
      BY <2>1
    <3> HIDE DEF front
    <3>3. /\ Len(front) \in Nat /\ DOMAIN w = 1 .. Len(front) + 1
          /\ w[Len(front) + 1] = AckOf("server")
      <4> DEFINE ack == AckOf("server")
      <4>1. ack \in Envelope /\ w = front \o <<ack>>
        BY <2>1, <3>2
      <4> HIDE DEF ack
      <4>2. /\ Len(front) \in Nat /\ DOMAIN (front \o <<ack>>) = 1 .. Len(front) + 1
            /\ (front \o <<ack>>)[Len(front) + 1] = ack
        BY <3>1, <4>1, SnocAt
      <4> QED
        BY <4>1, <4>2 DEF ack
    <3>4. \A j \in DOMAIN w : w[j] \in Envelopes("server")'
      BY <3>2 DEF Envelopes, Range
    <3>5. \A j \in DOMAIN w : Covered("client", w[j].ack_id)'
      BY <1>0, <1>9, <3>4 DEF CoveredAcks
    <3>6. PICK k \in DOMAIN w : k = Len(front) + 1
      BY <3>3
    <3>7. w[k].responding_to = resyncing' /\ \A j \in 1 .. k : Covered("client", w[j].ack_id)'
      BY <1>6, <2>1, <3>3, <3>5, <3>6
    <3> QED
      BY <3>2, <3>6, <3>7 DEF Promised
  <2> QED
    BY <1>6, <1>8, <2>3, <2>4, <2>5 DEF AfterDrop
<1>11. ASSUME \/ Idles \/ Takes("client")
              \/ \E e \in Ends : \E m : Posts(e, m) \/ Greets(e, m)
              \/ \E first : Acknowledges("client", first)
       PROVE  AfterDrop'
  <2>1. \/ wire'["client"] = wire["client"]
        \/ \E m \in Envelope : wire'["client"] = wire["client"] \o <<m>>
    <3>1. ASSUME NEW first, Acknowledges("client", first)
          PROVE  /\ AckOf("client") \in Envelope
                 /\ wire'["client"] = wire["client"] \o <<AckOf("client")>>
      <4>1. Incoming("client") \in Envelopes("server")
        BY <1>0, <3>1, TakeEnvelopes DEF Acknowledges, Envelopes
      <4>2. Incoming("client").kind # "Flush"
        BY <4>1 DEF Flushes
      <4>3. wire["client"] \o <<>> = wire["client"]
        BY <1>0, ConcatEmptySeq
      <4> QED
        BY <3>1, <4>2, <4>3 DEF Acknowledges
    <3>2. ASSUME NEW e \in Ends, NEW m, Posts(e, m) \/ Greets(e, m)
          PROVE  /\ m \in Envelope
                 /\ wire'["client"] = wire["client"] \/ wire'["client"] = wire["client"] \o <<m>>
      BY <1>0, <3>2 DEF Posts, Greets
    <3> QED
      BY <1>11, <3>1, <3>2 DEF Idles, Takes
  <2>2. /\ Range(wire["client"]) \subseteq Range(wire'["client"])
        /\ wire'["client"] # <<>> /\ wire'["client"][1] = wire["client"][1]
    <3>1. ASSUME NEW m \in Envelope, wire'["client"] = wire["client"] \o <<m>>
          PROVE  /\ Range(wire["client"]) \subseteq Range(wire'["client"])
                 /\ wire'["client"] # <<>> /\ wire'["client"][1] = wire["client"][1]
      <4> DEFINE t == <<m>>
      <4>1. t \in Seq(Envelope) /\ wire'["client"] = wire["client"] \o t
        BY <3>1, RangeOne
      <4> HIDE DEF t
      <4> QED
        BY <1>0, <1>1, <4>1, FirstStays, RangeConcat DEF Ready
    <3> QED
      BY <1>1, <2>1, <3>1 DEF Ready
  <2>3. \A m \in Range(wire'["server"]) : m.kind # "Ack"
    <3>1. ASSUME NEW e \in Ends, NEW m, Posts(e, m) \/ Greets(e, m)
          PROVE  Range(wire'["server"]) \subseteq Range(wire["server"]) \cup {m} /\ m.kind # "Ack"
      <4>1. /\ Range(wire'[e]) \subseteq Range(wire[e]) \cup {m} /\ m.kind # "Ack"
            /\ wire'[Peer(e)] = wire[Peer(e)]
        BY <1>0, <3>1, PostsSeen, GreetsSeen DEF Posts, Greets
      <4> QED
        BY <1>0, <4>1
    <3>2. ASSUME take("client"), wire'["server"] = Tail(wire["server"])
          PROVE  Range(wire'["server"]) \subseteq Range(wire["server"])
      <4>1. Range(wire[Peer("client")]) =
              {Incoming("client")} \cup Range(Tail(wire[Peer("client")]))
        BY <1>0, <3>2, TakeEnvelopes
      <4> QED
        BY <1>0, <3>2, <4>1
    <3>3. ASSUME NEW first, Acknowledges("client", first)
          PROVE  Range(wire'["server"]) \subseteq Range(wire["server"])
      BY <1>0, <3>2, <3>3 DEF Acknowledges
    <3>4. ASSUME Takes("client") PROVE Range(wire'["server"]) \subseteq Range(wire["server"])
      BY <1>0, <3>2, <3>4 DEF Takes, record
    <3>5. ASSUME Idles PROVE wire'["server"] = wire["server"]
      BY <3>5 DEF Idles
    <3> QED
      BY <1>1, <1>11, <3>1, <3>3, <3>4, <3>5 DEF Ready
  <2>4. Flushing'
    BY <2>2 DEF Flushing
  <2>5. Covered("server", Incoming("server").ack_id)'
    <3>1. /\ Incoming("server").ack_id \in Int
          /\ \/ Incoming("server").ack_id <= 0
             \/ Incoming("server").ack_id < next_message_id["server"]
      BY <1>0, <1>2, Facts
    <3>2. \A id \in posted'["server"] :
            id <= Incoming("server").ack_id => id \in BagToSet(heard'["server"])
      BY <1>0, <1>2, <3>1, CoveredStays
    <3>3. Incoming("server")' = Incoming("server")
      BY <1>0, <2>2 DEF Incoming
    <3> QED
      BY <3>2, <3>3 DEF Covered
  <2>6. Ready'
    BY <1>0, <1>2, <1>6, <2>2, <2>3, <2>5 DEF Ready, Incoming
  <2> QED
    BY <1>6, <1>7, <1>8, <1>9, <2>4, <2>6 DEF AfterDrop
<1> QED
  BY <1>0, <1>4, <1>5, <1>10, <1>11 DEF Moves

\* Only a new connection brings a flush.
LEMMA FlushedStays ==
  ASSUME IInv, Flushes, Moves, ~Flushing
  PROVE  ~Flushing'
<1>1. wire["client"] \in Seq(Envelope) /\ OnlyFirst(wire["client"]) /\ "client" \in Ends
  BY Facts DEF Ends, Flushes
<1>2. \A m \in Range(wire'["client"]) : m.kind = "Flush" => m \in Range(wire["client"])
  <2>1. CASE wire["client"] # <<>> /\ wire'["client"] = Tail(wire["client"])
    BY <1>1, <2>1, OnlyFirstTail
  <2>2. ASSUME NEW t \in Seq(Envelope), wire'["client"] = wire["client"] \o t,
               \A m \in Range(t) : m.kind # "Flush"
        PROVE  \A m \in Range(wire'["client"]) : m.kind = "Flush" => m \in Range(wire["client"])
    BY <1>1, <2>2, OnlyFirstConcat
  <2> QED
    BY <1>1, <2>1, <2>2, WireMoves
<1>3. link' # "down"
  BY DEF Moves, Idles, Resends, Posts, Greets, Acknowledges, Takes, record, Flushing
<1> QED
  BY <1>2, <1>3 DEF Flushing

\* While the answer to the flush is on its way, the client keeps what was not heard; the
\* answer makes it send that again.
LEMMA WhileResyncing ==
  ASSUME IInv, Apart, Flushes, AfterDrop, Moves, drops = 1, link = "up", ~Flushing, Resyncing,
         [Next]_vars
  PROVE  AfterDrop'
<1>0. /\ TypeOK /\ Marked /\ "client" \in Ends /\ "server" \in Ends
      /\ Peer("client") = "server" /\ Peer("server") = "client"
      /\ wire["client"] \in Seq(Envelope) /\ wire["server"] \in Seq(Envelope)
      /\ resyncing # NoId
  BY Facts DEF Ends, Peer, IInv, Resyncing
<1>1. Delivering("server") /\ Safe("client") /\ Awaited /\ Promised
  BY DEF AfterDrop
<1>2. PICK k \in DOMAIN wire["server"] :
         /\ wire["server"][k].responding_to = resyncing
         /\ \A j \in 1 .. k : Covered("client", wire["server"][j].ack_id)
  BY <1>1 DEF Promised
<1>3. Len(wire["server"]) \in Nat /\ DOMAIN wire["server"] = 1 .. Len(wire["server"])
  BY <1>0, LenProperties
<1>4. Covered("client", Incoming("client").ack_id)
  BY <1>0, <1>2, <1>3 DEF Incoming
<1>5. Delivering("server")' /\ Safe("client")'
  BY <1>0, <1>1, <1>4, DeliveringStays, SafeStays
<1>6. link' = "up"
  BY MovesKeep
<1>7. ~Flushing'
  BY FlushedStays
<1>8. CASE Resends
  <2>1. ~Resyncing'
    BY <1>6, <1>8 DEF Resyncing, Resends
  <2>2. Range(wire'["client"]) = Range(wire["client"]) \cup Range(buffer'["client"])
    BY <1>0, <1>8, ResendsSeen
  <2>3. Delivering("client")'
    BY <1>5, <2>2 DEF Safe, Delivering
  <2> QED
    BY <1>5, <1>6, <1>7, <2>1, <2>3 DEF AfterDrop
<1>9. CASE ~Resends
  <2>1. resyncing' = resyncing /\ Awaited' /\ Resyncing'
    BY <1>0, <1>1, <1>9, MovesKeep DEF Resyncing
  <2>2. \A j \in 1 .. k : Covered("client", wire["server"][j].ack_id)
           /\ \A id \in posted'["client"] :
                id <= wire["server"][j].ack_id => id \in BagToSet(heard'["client"])
    <3> SUFFICES ASSUME NEW j \in 1 .. k
                 PROVE  \A id \in posted'["client"] :
                          id <= wire["server"][j].ack_id => id \in BagToSet(heard'["client"])
      BY <1>2
    <3>1. wire["server"][j] \in Envelopes("server") /\ Covered("client", wire["server"][j].ack_id)
      BY <1>2, <1>3 DEF Envelopes, Range
    <3>2. /\ wire["server"][j].ack_id \in Int
          /\ \/ wire["server"][j].ack_id <= 0
             \/ wire["server"][j].ack_id < next_message_id["client"]
      BY <1>0, <3>1, Facts
    <3> QED
      BY <1>0, <3>1, <3>2, CoveredStays
  <2>3. Promised'
    <3>1. ASSUME NEW t \in Seq(Envelope), wire'["server"] = wire["server"] \o t PROVE Promised'
      <4>1. /\ Len(t) \in Nat /\ DOMAIN (wire["server"] \o t) = 1 .. Len(wire["server"]) + Len(t)
            /\ \A i \in 1 .. Len(wire["server"]) : (wire["server"] \o t)[i] = wire["server"][i]
        BY <1>0, ConcatAt
      <4>2. k \in DOMAIN wire'["server"] /\ \A j \in 1 .. k : wire'["server"][j] = wire["server"][j]
        BY <1>3, <3>1, <4>1
      <4>3. wire'["server"][k].responding_to = resyncing'
        BY <1>2, <1>3, <2>1, <4>2
      <4> QED
        BY <2>2, <4>2, <4>3 DEF Promised, Covered
    <3>2. ASSUME wire["server"] # <<>>, wire'["server"] = Tail(wire["server"]), k # 1
          PROVE  Promised'
      <4>1. /\ DOMAIN Tail(wire["server"]) = 1 .. Len(wire["server"]) - 1
            /\ \A i \in 1 .. Len(wire["server"]) - 1 :
                 Tail(wire["server"])[i] = wire["server"][i + 1]
        BY <1>0, <3>2, TailAt
      <4>2. PICK h \in 1 .. Len(wire["server"]) - 1 : h + 1 = k
        <5>1. k - 1 \in 1 .. Len(wire["server"]) - 1 /\ (k - 1) + 1 = k
          BY <1>3, <3>2
        <5> QED
          BY <5>1
      <4>3. \A j \in 1 .. h : j + 1 \in 1 .. k /\ wire'["server"][j] = wire["server"][j + 1]
        BY <1>3, <3>2, <4>1, <4>2
      <4>4. h \in DOMAIN wire'["server"] /\ wire'["server"][h].responding_to = resyncing'
        BY <1>2, <2>1, <3>2, <4>1, <4>2
      <4> QED
        BY <2>2, <4>3, <4>4 DEF Promised, Covered
    <3>3. k = 1 => Incoming("client").responding_to = resyncing
      BY <1>0, <1>2 DEF Incoming
    <3>4. ASSUME take("client"), k = 1
          PROVE  ~Takes("client") /\ \A first : ~Acknowledges("client", first)
      <4>1. ~Takes("client")
        BY <1>1, <3>3, <3>4 DEF Takes
      <4>2. Incoming("client").kind \in Answers
        BY <1>0, <3>3, <3>4, TakeEnvelopes DEF Marked, Envelopes
      <4> QED
        BY <4>1, <4>2 DEF Acknowledges, Answers
    <3>5. ASSUME wire["server"] # <<>>, wire'["server"] = Tail(wire["server"]),
                 Takes("client") \/ \E first : Acknowledges("client", first)
          PROVE  Promised'
      <4>1. take("client")
        BY <3>5 DEF Takes, Acknowledges, record
      <4> QED
        BY <3>2, <3>4, <3>5, <4>1
    <3> QED
      BY <1>0, <1>9, <3>1, <3>5, WireMoves
  <2> QED
    BY <1>5, <1>6, <1>7, <2>1, <2>3 DEF AfterDrop
<1> QED
  BY <1>8, <1>9

\* Once both ends have sent again what they kept, everything is on its way.
LEMMA Settled ==
  ASSUME IInv, Apart, Flushes, AfterDrop, Moves, drops = 1, link = "up", ~Flushing, ~Resyncing
  PROVE  AfterDrop'
<1>1. "client" \in Ends /\ "server" \in Ends /\ Delivering("client") /\ Delivering("server")
  BY DEF Ends, AfterDrop
<1>2. Delivering("client")' /\ Delivering("server")'
  BY <1>1, DeliveringStays
<1>3. ~Flushing'
  BY FlushedStays
<1>4. link' = "up" /\ ~Resyncing'
  BY MovesKeep DEF Resyncing, Resends
<1> QED
  BY <1>2, <1>3, <1>4 DEF AfterDrop

\* Every step preserves what holds after the first drop.
LEMMA NextAfterDrop ==
  IInv /\ Apart /\ Flushes /\ BeforeDrop /\ AfterDrop /\ [Next]_vars => AfterDrop'
<1> SUFFICES ASSUME IInv, Apart, Flushes, BeforeDrop, AfterDrop, [Next]_vars, drops' = 1
             PROVE  AfterDrop'
  BY DEF AfterDrop
<1>0. drops \in Nat /\ link \in {"new", "up", "down"}
  BY Facts DEF TypeOK
<1>1. CASE disconnect
  BY <1>0, <1>1, FirstDrop DEF disconnect
<1>2. CASE reconnect
  BY <1>2, ComesBack DEF reconnect
<1>3. CASE Moves
  <2>1. drops = 1
    BY <1>3 DEF Moves, Idles, Resends, Posts, Greets, Acknowledges, Takes, record
  <2>2. link # "new"
    BY <2>1 DEF Flushes
  <2> QED
    BY <1>0, <1>3, <2>1, <2>2, WhileDown, WhileFlushing, WhileResyncing, Settled
<1> QED
  BY <1>1, <1>2, <1>3, Steps

\* Nothing was sent yet.
LEMMA InitDelivery == Init => Apart /\ Flushes /\ BeforeDrop /\ AfterDrop
<1> SUFFICES ASSUME Init PROVE Apart /\ Flushes /\ BeforeDrop /\ AfterDrop
  OBVIOUS
<1>1. /\ link = "new" /\ drops = 0 /\ resyncing = NoId
      /\ \A e \in Ends : /\ wire[e] = <<>> /\ buffer[e] = <<>> /\ posted[e] = {}
                         /\ heard[e] = EmptyBag
  BY DEF Init
<1>2. BagToSet(EmptyBag) = {} /\ Range(<<>>) = {} /\ "client" \in Ends /\ "server" \in Ends
  BY DEF BagToSet, EmptyBag, SetToBag, Range, Ends
<1>3. \A e \in Ends : Envelopes(e) = {} /\ Range(buffer[e]) = {} /\ Range(wire[e]) = {}
  BY <1>1, <1>2 DEF Envelopes
<1>4. Apart
  BY <1>1, <1>2, <1>3 DEF Apart
<1>5. Flushes
  BY <1>1, <1>2, <1>3 DEF Flushes, Flushing, Resyncing, OnlyFirst
<1>6. BeforeDrop
  BY <1>1, <1>3, PeerType DEF BeforeDrop, Delivering, Safe, CoveredAcks, Covered, InOrder, Ordered
<1> QED
  BY <1>1, <1>4, <1>5, <1>6 DEF AfterDrop

\* The invariant of the message layer, with what it says of deliveries.
DInv == IInv /\ Apart /\ Flushes /\ BeforeDrop /\ AfterDrop

\* It holds in every state: the two ends agree on what was delivered, through one drop.
THEOREM DeliveryAgreed == Spec => []DInv
<1>1. Init => DInv
  BY InitIInv, InitDelivery DEF DInv
<1>2. DInv /\ [Next]_vars => DInv'
  BY NextIInv, NextApart, NextFlushes, NextBeforeDrop, NextAfterDrop DEF DInv
<1> QED
  BY <1>1, <1>2, PTL DEF Spec

\* A message given to `send_buffered` is not lost while at most one connection is: until
\* the peer has heard it, it is on its way or kept for the next resync.
THEOREM NothingIsLost == Spec => [](drops <= 1 => NothingLost)
<1>1. DInv => (drops <= 1 => NothingLost)
  <2> SUFFICES ASSUME DInv, drops <= 1, NEW e \in Ends, NEW id \in posted[e]
               PROVE  BagIn(id, heard[e]) \/ id \in Ids(wire[e]) \/ id \in Ids(buffer[e])
    BY DEF NothingLost
  <2>1. drops = 0 \/ drops = 1
    BY Facts DEF DInv
  <2>2. Delivering(e) \/ Safe(e)
    BY <2>1 DEF DInv, BeforeDrop, AfterDrop, Ends
  <2>3. \/ id \in BagToSet(heard[e])
        \/ \E m \in Range(wire[e]) : m.id = id
        \/ \E m \in Range(buffer[e]) : m.id = id
    BY <2>2 DEF Delivering, Safe
  <2> QED
    BY <2>3 DEF BagIn, Ids, Range
<1> QED
  BY <1>1, DeliveryAgreed, PTL

-----------------------------------------------------------------------------
(* How often a message is delivered *)

\* Where a number is among the envelopes, and how often.
Places(envelopes, id) == {i \in DOMAIN envelopes : envelopes[i].id = id}
Occurrences(envelopes, id) == Cardinality(Places(envelopes, id))

\* There are finitely many places.
LEMMA PlacesFinite ==
  ASSUME NEW s \in Seq(Envelope), NEW id
  PROVE  IsFiniteSet(Places(s, id)) /\ Occurrences(s, id) \in Nat
<1>1. Len(s) \in Nat /\ DOMAIN s = 1 .. Len(s)
  BY LenProperties
<1>2. IsFiniteSet(1 .. Len(s)) /\ Places(s, id) \in SUBSET (1 .. Len(s))
  BY <1>1, FS_Interval DEF Places
<1>3. IsFiniteSet(Places(s, id))
  BY <1>2, FS_Subset
<1> QED
  BY <1>3, FS_CardinalityType DEF Occurrences

\* A set of places moved along has as many members.
LEMMA Shifted ==
  ASSUME NEW A \in SUBSET Int, IsFiniteSet(A), NEW n \in Int, NEW B \in SUBSET Int,
         \A b \in Int : b \in B <=> b - n \in A
  PROVE  IsFiniteSet(B) /\ Cardinality(B) = Cardinality(A)
<1> DEFINE f == [a \in A |-> a + n]
<1>1. f \in [A -> B]
  <2>1. \A a \in A : a + n \in Int /\ (a + n) - n = a
    OBVIOUS
  <2>2. \A a \in A : a + n \in B
    BY <2>1
  <2> QED
    BY <2>2
<1>2. \A a, b \in A : f[a] = f[b] => a = b
  OBVIOUS
<1>3. \A b \in B : \E a \in A : f[a] = b
  <2> SUFFICES ASSUME NEW b \in B PROVE \E a \in A : f[a] = b
    OBVIOUS
  <2>1. b - n \in A /\ (b - n) + n = b
    OBVIOUS
  <2> QED
    BY <2>1
<1> HIDE DEF f
<1>4. f \in Bijection(A, B)
  BY <1>1, <1>2, <1>3, Zenon DEF Bijection, Injection, Surjection, IsInjective
<1>5. ExistsBijection(A, B)
  BY <1>4 DEF ExistsBijection
<1> QED
  BY <1>5, FS_Bijection

\* A concatenation has the occurrences of both parts.
LEMMA OccurrencesConcat ==
  ASSUME NEW s \in Seq(Envelope), NEW t \in Seq(Envelope), NEW id
  PROVE  Occurrences(s \o t, id) = Occurrences(s, id) + Occurrences(t, id)
<1>1. /\ Len(s) \in Nat /\ Len(t) \in Nat
      /\ DOMAIN s = 1 .. Len(s) /\ DOMAIN t = 1 .. Len(t)
      /\ DOMAIN (s \o t) = 1 .. Len(s) + Len(t)
      /\ \A i \in 1 .. Len(s) : (s \o t)[i] = s[i]
      /\ \A i \in 1 .. Len(t) : (s \o t)[Len(s) + i] = t[i]
  BY ConcatAt
<1>2. PICK u : u = s \o t
  OBVIOUS
<1> DEFINE A == Places(s, id)
           B == Places(t, id)
           C == {i \in Places(u, id) : i > Len(s)}
<1>3. IsFiniteSet(A) /\ IsFiniteSet(B)
  BY PlacesFinite
<1>4. \A b \in Int : b \in C <=> b - Len(s) \in B
  <2> SUFFICES ASSUME NEW b \in Int PROVE b \in C <=> b - Len(s) \in B
    OBVIOUS
  <2>1. CASE b - Len(s) \in 1 .. Len(t)
    <3>1. /\ b \in 1 .. Len(s) + Len(t) /\ b > Len(s)
          /\ Len(s) + (b - Len(s)) = b
      BY <1>1, <2>1
    <3>2. u[b] = t[b - Len(s)]
      BY <1>1, <1>2, <2>1, <3>1
    <3> QED
      BY <1>1, <1>2, <2>1, <3>1, <3>2 DEF Places
  <2>2. CASE b - Len(s) \notin 1 .. Len(t)
    BY <1>1, <1>2, <2>2 DEF Places
  <2> QED
    BY <2>1, <2>2
<1>5. IsFiniteSet(C) /\ Cardinality(C) = Cardinality(B)
  <2>0. \A i \in B \cup C : i \in Int
    <3>1. \A i \in DOMAIN t \cup DOMAIN u : i \in Int
      BY <1>1, <1>2
    <3> QED
      BY <3>1 DEF Places
  <2> HIDE DEF B, C
  <2>1. PICK b \in SUBSET Int : b = B
    BY <2>0
  <2>2. PICK c \in SUBSET Int : c = C
    BY <2>0
  <2>3. PICK n \in Int : n = Len(s)
    <3>1. Len(s) \in Int
      BY LenProperties
    <3> QED
      BY <3>1
  <2>4. \A k \in Int : k \in c <=> k - n \in b
    BY <1>4, <2>1, <2>2, <2>3
  <2>5. IsFiniteSet(b)
    BY <1>3, <2>1
  <2>6. IsFiniteSet(c) /\ Cardinality(c) = Cardinality(b)
    BY <2>4, <2>5, Shifted
  <2> QED
    BY <2>1, <2>2, <2>6
<1>6. Places(u, id) = A \cup C /\ A \cap C = {}
  <2>1. \A i \in 1 .. Len(s) : u[i] = s[i] /\ i \in DOMAIN u /\ ~(i > Len(s))
    BY <1>1, <1>2
  <2>2. \A i \in DOMAIN u : i \in 1 .. Len(s) \/ i > Len(s)
    BY <1>1, <1>2
  <2> QED
    BY <1>1, <2>1, <2>2 DEF Places
<1>7. /\ Cardinality(A \cup C) = Cardinality(A) + Cardinality(C) - Cardinality(A \cap C)
      /\ Cardinality(A) \in Nat /\ Cardinality(B) \in Nat
  <2> HIDE DEF A, B, C
  <2> QED
    BY <1>3, <1>5, FS_Union, FS_CardinalityType
<1>8. Cardinality(A \cap C) = 0
  BY <1>6, FS_EmptySet
<1>9. Cardinality(Places(u, id)) = Cardinality(A) + Cardinality(B)
  <2> HIDE DEF A, B, C
  <2> QED
    BY <1>5, <1>6, <1>7, <1>8
<1> QED
  BY <1>2, <1>9 DEF Occurrences

\* A number that no envelope has does not occur.
LEMMA OccurrencesNone ==
  ASSUME NEW s, NEW id, \A m \in Range(s) : m.id # id
  PROVE  Occurrences(s, id) = 0
<1>1. Places(s, id) = {}
  BY DEF Places, Range
<1> QED
  BY <1>1, FS_EmptySet DEF Occurrences

\* Envelopes in order have every number at most once.
LEMMA OccurrencesOnce ==
  ASSUME NEW s \in Seq(Envelope), NEW id, Ordered(s, Nat)
  PROVE  Occurrences(s, id) <= 1
<1>1. /\ DOMAIN s \subseteq Int /\ \A i \in DOMAIN s : s[i].id \in Nat
  <2>1. Len(s) \in Nat /\ DOMAIN s = 1 .. Len(s) /\ \A i \in 1 .. Len(s) : s[i] \in Envelope
    BY LenProperties
  <2>2. \A m \in Envelope : m.id \in Nat
    BY DEF Envelope
  <2> QED
    BY <2>1, <2>2
<1>2. \A i, j \in Places(s, id) : i = j
  <2> SUFFICES ASSUME NEW i \in Places(s, id), NEW j \in Places(s, id) PROVE ~(i < j)
    BY <1>1 DEF Places
  <2> QED
    BY <1>1 DEF Places, Ordered
<1>3. CASE Places(s, id) = {}
  BY <1>3, FS_EmptySet DEF Occurrences
<1>4. CASE Places(s, id) # {}
  <2>1. PICK i : Places(s, id) = {i}
    BY <1>2, <1>4
  <2>2. Cardinality({i}) = 1
    BY FS_Singleton
  <2> QED
    BY <2>1, <2>2 DEF Occurrences
<1> QED
  BY <1>3, <1>4

\* One envelope is one occurrence of its number.
LEMMA OccurrencesOne ==
  ASSUME NEW m \in Envelope, NEW id
  PROVE  Occurrences(<<m>>, id) = IF m.id = id THEN 1 ELSE 0
<1>1. Places(<<m>>, id) = IF m.id = id THEN {1} ELSE {}
  BY DEF Places
<1> QED
  BY <1>1, FS_Singleton, FS_EmptySet DEF Occurrences

\* What the first envelope takes away when it is taken.
LEMMA OccurrencesTail ==
  ASSUME NEW s \in Seq(Envelope), s # <<>>, NEW id
  PROVE  Occurrences(s, id) = Occurrences(Tail(s), id) + (IF s[1].id = id THEN 1 ELSE 0)
<1>1. /\ s[1] \in Envelope /\ Tail(s) \in Seq(Envelope) /\ s = <<s[1]>> \o Tail(s)
  <2>1. s[1] \in Envelope /\ Tail(s) \in Seq(Envelope)
    BY RangeTail
  <2>2. Head(s) = s[1] /\ s = <<Head(s)>> \o Tail(s)
    OBVIOUS
  <2> QED
    BY <2>1, <2>2
<1>2. PICK t \in Seq(Envelope) : t = Tail(s)
  BY <1>1
<1>3. PICK m \in Envelope : m = s[1]
  BY <1>1
<1>4. PICK h : h = <<m>>
  OBVIOUS
<1>5. h \in Seq(Envelope) /\ s = h \o t
  BY <1>1, <1>2, <1>3, <1>4, RangeOne
<1>6. Occurrences(h \o t, id) = Occurrences(h, id) + Occurrences(t, id)
  BY <1>5, OccurrencesConcat
<1>7. Occurrences(h, id) = (IF m.id = id THEN 1 ELSE 0) /\ Occurrences(t, id) \in Nat
  BY <1>4, OccurrencesOne, PlacesFinite
<1>8. Occurrences(s, id) = Occurrences(t, id) + (IF m.id = id THEN 1 ELSE 0)
  BY <1>5, <1>6, <1>7
<1> QED
  BY <1>2, <1>3, <1>8

\* How often a message of e was heard, and how often it was or is about to be.
Heard(e, id) == IF id \in BagToSet(heard[e]) THEN heard[e][id] ELSE 0
Copies(e, id) == Heard(e, id) + Occurrences(wire[e], id)

\* e still has to send again what it keeps.
Owes(e) == IF e = "server" THEN Flushing ELSE Resyncing

\* Every lost connection brings one copy, when the end that keeps the message sends it again.
Bounded ==
  \A e \in Ends : \A id \in posted[e] : Copies(e, id) <= IF Owes(e) THEN drops ELSE drops + 1

\* What is kept was kept in the order of its numbers, so that every message is kept once.
KeptInOrder == \A e \in Ends : Ordered(buffer[e], Nat)

\* Copies are counted in natural numbers.
LEMMA CopiesTyped ==
  ASSUME TypeOK, NEW e \in Ends, NEW id
  PROVE  Heard(e, id) \in Nat /\ Occurrences(wire[e], id) \in Nat
<1>1. IsABag(heard[e]) /\ wire[e] \in Seq(Envelope)
  BY DEF TypeOK
<1>2. Heard(e, id) \in Nat
  BY <1>1 DEF IsABag, Heard, BagToSet
<1> QED
  BY <1>1, <1>2, PlacesFinite

\* A number is heard once more when an envelope with it is received.
LEMMA CopiesHeard ==
  ASSUME TypeOK, NEW e \in Ends, record(e), NEW id
  PROVE  /\ Heard(e, id)' = Heard(e, id)
         /\ Heard(Peer(e), id)' = Heard(Peer(e), id) + (IF id = Incoming(e).id THEN 1 ELSE 0)
<1>1. /\ heard'[e] = heard[e]
      /\ BagToSet(heard'[Peer(e)]) = BagToSet(heard[Peer(e)]) \cup {Incoming(e).id}
      /\ \A i \in BagToSet(heard'[Peer(e)]) :
           heard'[Peer(e)][i] = (IF i \in BagToSet(heard[Peer(e)]) THEN heard[Peer(e)][i] ELSE 0)
                                + (IF i = Incoming(e).id THEN 1 ELSE 0)
  BY HeardMore
<1> QED
  BY <1>1 DEF Heard

\* The end of envelopes in order is in order.
LEMMA OrderedSuffix ==
  ASSUME NEW s \in Seq(Envelope), NEW P, Ordered(s, P), NEW n \in 0 .. Len(s)
  PROVE  Ordered(SubSeq(s, n + 1, Len(s)), P)
<1>1. Len(s) \in Nat /\ DOMAIN s = 1 .. Len(s)
  BY LenProperties
<1>2. PICK t : t = SubSeq(s, n + 1, Len(s))
  OBVIOUS
<1>3. /\ DOMAIN t = 1 .. Len(s) - n
      /\ \A i \in 1 .. Len(s) - n : t[i] = s[n + i]
  BY <1>1, <1>2
<1>4. ASSUME NEW i \in DOMAIN t, NEW j \in DOMAIN t, i < j, t[j].id \in P
      PROVE  t[i].id < t[j].id
  <2>1. /\ n + i \in DOMAIN s /\ n + j \in DOMAIN s /\ n + i < n + j
        /\ t[i] = s[n + i] /\ t[j] = s[n + j]
    BY <1>1, <1>3, <1>4
  <2> QED
    BY <1>4, <2>1 DEF Ordered
<1> QED
  BY <1>2, <1>4 DEF Ordered

\* What stays in the buffer when an envelope is taken is in order.
LEMMA KeptOrdered ==
  ASSUME TypeOK, KeptInOrder, NEW e \in Ends, take(e)
  PROVE  Ordered(Kept(e), Nat)
<1>1. buffer[e] \in Seq(Envelope) /\ Incoming(e).ack_id \in Nat \cup {NoId}
  BY TakeEnvelopes DEF TypeOK, Envelope
<1>2. PICK n \in 0 .. Len(buffer[e]) : Kept(e) = SubSeq(buffer[e], n + 1, Len(buffer[e]))
  BY <1>1, Prefix DEF Kept
<1> QED
  BY <1>1, <1>2, OrderedSuffix DEF KeptInOrder

\* Every step keeps the buffers in order.
LEMMA NextKeptInOrder == IInv /\ KeptInOrder /\ [Next]_vars => KeptInOrder'
<1> SUFFICES ASSUME IInv, KeptInOrder, [Next]_vars, NEW x \in Ends
             PROVE  Ordered(buffer'[x], Nat)
  BY DEF KeptInOrder
<1>0. TypeOK /\ buffer[x] \in Seq(Envelope) /\ Ordered(buffer[x], Nat)
  BY Facts DEF KeptInOrder
<1>1. CASE disconnect \/ reconnect \/ Idles
  BY <1>0, <1>1 DEF disconnect, reconnect, Idles
<1>2. ASSUME NEW e \in Ends, take(e) PROVE Ordered(buffer'[x], Nat)
  <2>1. buffer'[e] = Kept(e) /\ buffer'[Peer(e)] = buffer[Peer(e)]
    BY <1>0, <1>2, TakeEnvelopes
  <2> QED
    BY <1>0, <1>2, <2>1, KeptOrdered, Pairs
<1>3. CASE Resends
  BY <1>2, <1>3 DEF Resends, record, Ends
<1>4. ASSUME NEW e \in Ends, NEW m, Posts(e, m) PROVE Ordered(buffer'[x], Nat)
  <2>1. CASE x = e
    <3>1. /\ m \in Envelope /\ m.id = next_message_id[e] /\ m.id > 0
          /\ buffer'[e] = Append(buffer[e], m)
      BY <1>4 DEF Posts
    <3>2. \A k \in Range(buffer[e]) : k.id < m.id
      BY <3>1, Facts DEF Envelopes
    <3>3. Append(buffer[e], m) = buffer[e] \o <<m>>
      BY <1>0, <2>1, <3>1, AppendIsConcat
    <3> QED
      BY <1>0, <2>1, <3>1, <3>2, <3>3, OrderedSnoc
  <2>2. CASE x = Peer(e)
    BY <1>0, <1>4, <2>2 DEF Posts
  <2> QED
    BY <2>1, <2>2, Pairs
<1>5. ASSUME NEW e \in Ends, NEW m, Greets(e, m) PROVE Ordered(buffer'[x], Nat)
  BY <1>0, <1>5 DEF Greets
<1>6. ASSUME NEW e \in Ends, NEW first, Acknowledges(e, first) PROVE Ordered(buffer'[x], Nat)
  BY <1>2, <1>6 DEF Acknowledges
<1>7. ASSUME NEW e \in Ends, Takes(e) PROVE Ordered(buffer'[x], Nat)
  BY <1>2, <1>7 DEF Takes, record
<1> QED
  BY <1>1, <1>3, <1>4, <1>5, <1>6, <1>7, Steps DEF Moves

\* A turn of the loop of p moves a copy of what the peer sent from the wire to what was
\* heard; a hello or a flush is no copy of a message.
LEMMA CopiesTaken ==
  ASSUME IInv, NEW p \in Ends, NEW x \in Ends, x = Peer(p), take(p), wire'[x] = Tail(wire[x]),
         NEW id, record(p) \/ UNCHANGED heard
  PROVE  Copies(x, id)' <= Copies(x, id)
<1>0. TypeOK /\ wire[x] \in Seq(Envelope) /\ wire[x] # <<>> /\ Tail(wire[x]) \in Seq(Envelope)
  BY Facts, TakeEnvelopes DEF take
<1>1. PICK w \in Seq(Envelope) : w = Tail(wire[x])
  BY <1>0
<1>2. /\ Occurrences(wire[x], id) = Occurrences(w, id) + (IF Incoming(p).id = id THEN 1 ELSE 0)
      /\ Occurrences(w, id) \in Nat
  BY <1>0, <1>1, OccurrencesTail, PlacesFinite DEF Incoming
<1>3. Occurrences(wire[x], id)' = Occurrences(w, id)
  BY <1>1
<1>4. Heard(x, id) \in Nat
  BY <1>0, CopiesTyped
<1>5. \/ Heard(x, id)' = Heard(x, id)
      \/ Heard(x, id)' = Heard(x, id) + (IF id = Incoming(p).id THEN 1 ELSE 0)
  BY <1>0, CopiesHeard DEF Heard
<1> QED
  BY <1>2, <1>3, <1>4, <1>5 DEF Copies

\* Envelopes that do not have the number are no copies; those in order have one.
LEMMA CopiesAdded ==
  ASSUME TypeOK, NEW x \in Ends, NEW id, NEW t \in Seq(Envelope), wire'[x] = wire[x] \o t,
         Heard(x, id)' = Heard(x, id)
  PROVE  Copies(x, id)' = Copies(x, id) + Occurrences(t, id)
<1>1. wire[x] \in Seq(Envelope)
  BY DEF TypeOK
<1>2. Occurrences(wire[x], id)' = Occurrences(wire[x], id) + Occurrences(t, id)
  BY <1>1, OccurrencesConcat
<1>3. Heard(x, id) \in Nat /\ Occurrences(wire[x], id) \in Nat /\ Occurrences(t, id) \in Nat
  BY CopiesTyped, PlacesFinite
<1> QED
  BY <1>2, <1>3 DEF Copies

\* x sends again what it keeps.
Repays(x) ==
  \/ x = "client" /\ Resends
  \/ \E first : Acknowledges(x, first) /\ Incoming(x).kind = "Flush"

\* Only then a message that was posted before gets another copy, and only one.
LEMMA CopiesGrow ==
  ASSUME IInv, KeptInOrder, Moves, NEW x \in Ends, NEW id \in posted[x]
  PROVE  \/ Copies(x, id)' <= Copies(x, id)
         \/ Repays(x) /\ Copies(x, id)' <= Copies(x, id) + 1
<1>0. /\ TypeOK /\ wire[x] \in Seq(Envelope) /\ next_message_id[x] \in Nat
      /\ id \in Nat /\ 0 < id /\ id < next_message_id[x]
  BY Facts
<1>t. Copies(x, id) \in Nat
  BY <1>0, CopiesTyped DEF Copies
<1>s. ASSUME wire'[x] = wire[x], heard'[x] = heard[x] PROVE Copies(x, id)' <= Copies(x, id)
  <2>1. Copies(x, id)' = Copies(x, id)
    BY <1>s DEF Copies, Heard
  <2> QED
    BY <1>t, <2>1
<1>1. ASSUME NEW m \in Envelope, m.id # id, wire'[x] = wire[x] \o <<m>>, heard'[x] = heard[x]
      PROVE  Copies(x, id)' <= Copies(x, id)
  <2>1. PICK t \in Seq(Envelope) : t = <<m>>
    BY RangeOne
  <2>2. Occurrences(t, id) = 0
    BY <1>1, <2>1, OccurrencesOne
  <2>3. Copies(x, id)' = Copies(x, id) + Occurrences(t, id)
    BY <1>0, <1>1, <2>1, CopiesAdded DEF Heard
  <2> QED
    BY <1>t, <2>2, <2>3
<1>2. CASE Idles
  BY <1>s, <1>2 DEF Idles
<1>3. CASE Resends
  <2>1. /\ "client" \in Ends /\ Peer("client") = "server" /\ record("client") /\ take("client")
        /\ wire'["server"] = Tail(wire["server"])
        /\ wire'["client"] = wire["client"] \o Kept("client")
    BY <1>3 DEF Ends, Peer, Resends, record
  <2>2. CASE x = "server"
    BY <2>1, <2>2, CopiesTaken
  <2>3. CASE x = "client"
    <3>1. PICK t \in Seq(Envelope) : t = Kept("client") /\ Ordered(t, Nat)
      BY <1>0, <2>1, TakeEnvelopes, KeptOrdered
    <3>2. Occurrences(t, id) <= 1 /\ Occurrences(t, id) \in Nat
      BY <3>1, OccurrencesOnce, PlacesFinite
    <3>3. Heard(x, id)' = Heard(x, id)
      BY <1>0, <2>1, <2>3, CopiesHeard
    <3>4. Copies(x, id)' = Copies(x, id) + Occurrences(t, id)
      BY <1>0, <2>1, <2>3, <3>1, <3>3, CopiesAdded
    <3> QED
      BY <1>3, <1>t, <2>3, <3>2, <3>4 DEF Repays
  <2> QED
    BY <2>2, <2>3 DEF Ends
<1>4. ASSUME NEW e \in Ends, NEW m, Posts(e, m) \/ Greets(e, m)
      PROVE  Copies(x, id)' <= Copies(x, id)
  <2>1. CASE x = e
    <3>1. /\ m \in Envelope /\ m.id \in {0, next_message_id[x]} /\ UNCHANGED heard
          /\ wire'[x] = wire[x] \/ wire'[x] = wire[x] \o <<m>>
      BY <1>4, <2>1 DEF Posts, Greets
    <3> QED
      BY <1>0, <1>s, <1>1, <3>1
  <2>2. CASE x = Peer(e)
    BY <1>4, <1>s, <2>2 DEF Posts, Greets
  <2> QED
    BY <2>1, <2>2, Pairs
<1>5. ASSUME NEW e \in Ends, NEW first, Acknowledges(e, first)
      PROVE  \/ Copies(x, id)' <= Copies(x, id)
             \/ Repays(x) /\ Copies(x, id)' <= Copies(x, id) + 1
  <2>1. CASE x = Peer(e)
    BY <1>5, <2>1, CopiesTaken DEF Acknowledges
  <2>2. CASE x = e
    <3>1. /\ take(e) /\ UNCHANGED heard /\ wire'[x] = (wire[x] \o first) \o <<AckOf(e)>>
          /\ first = (IF Incoming(e).kind = "Flush" THEN Kept(e) ELSE <<>>)
          /\ AckOf(e) \in Envelope /\ AckOf(e).id # id
      <4>1. AckOf(e).id = next_message_id[x] /\ next_message_id[x] # id
        BY <1>0, <2>2 DEF AckOf
      <4> QED
        BY <1>5, <2>2, <4>1 DEF Acknowledges
    <3>2. PICK a \in Seq(Envelope) : a = <<AckOf(e)>> /\ Occurrences(a, id) = 0
      BY <3>1, RangeOne, OccurrencesOne
    <3>3. /\ first \in Seq(Envelope)
          /\ Occurrences(first, id) = 0
             \/ (Incoming(x).kind = "Flush" /\ Occurrences(first, id) <= 1)
      <4>1. CASE Incoming(e).kind = "Flush"
        BY <1>0, <2>2, <3>1, <4>1, TakeEnvelopes, KeptOrdered, OccurrencesOnce
      <4>2. CASE Incoming(e).kind # "Flush"
        <5>1. first = <<>> /\ <<>> \in Seq(Envelope) /\ Range(<<>>) = {}
          BY <3>1, <4>2, EmptySeq DEF Range
        <5> QED
          BY <5>1, OccurrencesNone
      <4> QED
        BY <4>1, <4>2
    <3>4. PICK f \in Seq(Envelope) : f = first
      BY <3>3
    <3>5. PICK t \in Seq(Envelope) : t = f \o a /\ Occurrences(t, id) = Occurrences(f, id)
      <4>0. f \o a \in Seq(Envelope)
        BY RangeConcat
      <4>1. Occurrences(f \o a, id) = Occurrences(f, id) + Occurrences(a, id)
        BY OccurrencesConcat
      <4>2. Occurrences(f, id) \in Nat
        BY PlacesFinite
      <4>3. Occurrences(f \o a, id) = Occurrences(f, id)
        BY <3>2, <4>1, <4>2
      <4> QED
        BY <4>0, <4>3, Zenon
    <3>6. wire'[x] = wire[x] \o t
      <4>1. (wire[x] \o f) \o a = wire[x] \o (f \o a)
        BY <1>0, ConcatThree, Zenon
      <4> QED
        BY <3>1, <3>2, <3>4, <3>5, <4>1
    <3>7. Copies(x, id)' = Copies(x, id) + Occurrences(f, id) /\ Occurrences(f, id) \in Nat
      BY <1>0, <3>1, <3>5, <3>6, CopiesAdded, PlacesFinite DEF Heard
    <3> QED
      BY <1>5, <1>t, <2>2, <3>3, <3>4, <3>7 DEF Repays
  <2> QED
    BY <2>1, <2>2, Pairs
<1>6. ASSUME NEW e \in Ends, Takes(e) PROVE Copies(x, id)' <= Copies(x, id)
  <2>1. /\ record(e) /\ take(e) /\ wire'[e] = wire[e] /\ wire'[Peer(e)] = Tail(wire[Peer(e)])
    BY <1>6 DEF Takes, record
  <2>2. heard'[e] = heard[e]
    BY <1>0, <2>1, HeardMore
  <2> QED
    BY <1>s, <2>1, <2>2, CopiesTaken, Pairs
<1> QED
  BY <1>2, <1>3, <1>4, <1>5, <1>6 DEF Moves

\* A message has no copies before it is posted.
LEMMA CopiesNew ==
  ASSUME IInv, Apart, Moves, NEW x \in Ends, NEW id \in posted'[x], id \notin posted[x]
  PROVE  Copies(x, id)' <= 1
<1>1. PICK m : Posts(x, m) /\ id = m.id
  <2>1. posted' # posted
    OBVIOUS
  <2>2. PICK e \in Ends : \E m : Posts(e, m)
    BY <2>1 DEF Moves, Idles, Resends, Greets, Acknowledges, Takes, record
  <2>3. PICK m : Posts(e, m)
    BY <2>2
  <2>4. posted'[e] = posted[e] \cup {m.id} /\ posted'[Peer(e)] = posted[Peer(e)]
    BY <2>3 DEF Posts
  <2> QED
    BY <2>3, <2>4, Pairs
<1>2. /\ m \in Envelope /\ m.id = next_message_id[x] /\ m.id > 0 /\ UNCHANGED heard
      /\ wire'[x] = wire[x] \/ wire'[x] = wire[x] \o <<m>>
  BY <1>1 DEF Posts
<1>3. TypeOK /\ wire[x] \in Seq(Envelope) /\ next_message_id[x] \in Nat
  BY Facts
<1>4. Occurrences(wire[x], id) = 0
  <2>1. \A k \in Range(wire[x]) : k.id \in Nat /\ (k.id = 0 \/ k.id < next_message_id[x])
    BY Facts DEF Envelopes
  <2>2. \A k \in Range(wire[x]) : k.id # id
    BY <1>1, <1>2, <1>3, <2>1
  <2> QED
    BY <2>2, OccurrencesNone
<1>5. Heard(x, id) = 0
  <2>1. \A i \in BagToSet(heard[x]) : i \in Nat /\ i < next_message_id[x]
    BY Facts DEF Apart
  <2> QED
    BY <1>1, <1>2, <1>3, <2>1 DEF Heard
<1>6. CASE wire'[x] = wire[x]
  BY <1>2, <1>4, <1>5, <1>6 DEF Copies, Heard
<1>7. CASE wire'[x] = wire[x] \o <<m>>
  <2>1. PICK t \in Seq(Envelope) : t = <<m>>
    BY <1>2, RangeOne
  <2>2. Occurrences(t, id) = 1
    BY <1>1, <1>2, <2>1, OccurrencesOne
  <2>3. Copies(x, id)' = Copies(x, id) + Occurrences(t, id)
    BY <1>2, <1>3, <1>7, <2>1, CopiesAdded DEF Heard
  <2> QED
    BY <1>4, <1>5, <2>2, <2>3 DEF Copies
<1> QED
  BY <1>2, <1>6, <1>7

\* A move brings no new debt, and an end that sends again what it keeps had one.
LEMMA OwesLess ==
  ASSUME IInv, Flushes, Moves, NEW x \in Ends
  PROVE  /\ Owes(x)' => Owes(x)
         /\ Repays(x) => Owes(x) /\ ~Owes(x)'
<1>0. /\ TypeOK /\ Connected /\ "client" \in Ends /\ "server" \in Ends
      /\ Peer("client") = "server" /\ Peer("server") = "client" /\ x \in {"client", "server"}
      /\ wire["client"] \in Seq(Envelope)
  BY Facts DEF Ends, Peer
<1>1. link' = "down" => link = "down"
  BY DEF Moves, Idles, Resends, Posts, Greets, Acknowledges, Takes, record
<1>2. Flushing' => Flushing
  BY FlushedStays
<1>3. Resyncing' => Resyncing
  BY <1>1 DEF Resyncing, Moves, Idles, Resends, Posts, Greets, Acknowledges, Takes, record
<1>4. ASSUME NEW e \in Ends, take(e) PROVE link # "down" /\ link' # "down"
  BY <1>0, <1>1, <1>4, PeerType DEF take, Connected
<1>5. ASSUME Resends PROVE Resyncing /\ ~Resyncing'
  BY <1>0, <1>4, <1>5 DEF Resends, record, Resyncing
<1>6. ASSUME NEW first, Acknowledges(x, first), Incoming(x).kind = "Flush"
      PROVE  x = "server" /\ Flushing /\ ~Flushing'
  <2>1. /\ take(x) /\ wire'[Peer(x)] = Tail(wire[Peer(x)])
    BY <1>6 DEF Acknowledges
  <2>2. Incoming(x) \in Range(wire[Peer(x)]) /\ Incoming(x) \in Envelopes(Peer(x))
    BY <1>0, <2>1, TakeEnvelopes DEF Envelopes
  <2>3. x = "server"
    BY <1>0, <1>6, <2>2 DEF Flushes
  <2>4. Flushing
    BY <1>0, <1>6, <2>2, <2>3 DEF Flushing
  <2>5. \A m \in Range(Tail(wire["client"])) : m.kind # "Flush"
    BY <1>0, <2>1, <2>3, OnlyFirstTail DEF Flushes, take
  <2>6. ~Flushing'
    BY <1>0, <1>4, <2>1, <2>3, <2>5 DEF Flushing
  <2> QED
    BY <2>3, <2>4, <2>6
<1>7. Owes(x)' => Owes(x)
  BY <1>2, <1>3 DEF Owes
<1>8. CASE x = "client" /\ Resends
  BY <1>5, <1>7, <1>8 DEF Owes
<1> QED
  BY <1>6, <1>7, <1>8 DEF Owes, Repays

\* Every step keeps to the bound.
LEMMA NextBounded ==
  IInv /\ Apart /\ Flushes /\ KeptInOrder /\ Bounded /\ [Next]_vars => Bounded'
<1> SUFFICES ASSUME IInv, Apart, Flushes, KeptInOrder, Bounded, [Next]_vars,
                    NEW x \in Ends, NEW id \in posted'[x]
             PROVE  Copies(x, id)' <= IF Owes(x)' THEN drops' ELSE drops' + 1
  BY DEF Bounded
<1>0. TypeOK /\ Connected /\ drops \in Nat /\ wire[x] \in Seq(Envelope) /\ IInv' /\ Flushes'
  BY Facts, NextIInv, NextFlushes
<1>1. id \in posted[x] => /\ Copies(x, id) <= IF Owes(x) THEN drops ELSE drops + 1
                          /\ Copies(x, id) \in Nat
  BY <1>0, CopiesTyped DEF Bounded, Copies
<1>2. CASE disconnect
  <2>1. /\ link' = "down" /\ drops' = drops + 1 /\ wire'[x] = <<>> /\ UNCHANGED <<posted, heard>>
    BY <1>2 DEF disconnect, history
  <2>2. Occurrences(<<>>, id) = 0
    BY OccurrencesNone DEF Range
  <2>3. Heard(x, id) \in Nat /\ Occurrences(wire[x], id) \in Nat
    BY <1>0, CopiesTyped
  <2>4. Copies(x, id)' <= Copies(x, id)
    BY <2>1, <2>2, <2>3 DEF Copies, Heard
  <2>5. Copies(x, id)' \in Nat
    BY <2>1, <2>2, <2>3 DEF Copies, Heard
  <2> QED
    BY <1>0, <1>1, <2>1, <2>4, <2>5
<1>3. CASE reconnect
  <2> DEFINE flush == Outgoing("client", "Flush", NoId)
  <2>1. /\ flush \in Envelope /\ wire'["client"] = Append(wire["client"], flush)
        /\ wire'["server"] = wire["server"] /\ flush.id = next_message_id["client"]
    BY <1>0, <1>3, ReconnectEnvelopes DEF Outgoing
  <2> HIDE DEF flush
  <2>2. /\ link = "down" /\ UNCHANGED <<posted, heard, drops>> /\ x \in {"client", "server"}
    BY <1>3 DEF reconnect, history, Ends
  <2>3. Owes(x)
    BY <2>2 DEF Owes, Flushing, Resyncing
  <2>4. Copies(x, id)' = Copies(x, id)
    <3>1. CASE x = "server"
      BY <2>1, <2>2, <3>1 DEF Copies, Heard
    <3>2. CASE x = "client"
      <4>1. Append(wire[x], flush) = wire[x] \o <<flush>>
        BY <1>0, <2>1, AppendIsConcat
      <4>2. PICK t \in Seq(Envelope) : t = <<flush>>
        BY <2>1, RangeOne
      <4>3. id < next_message_id[x] /\ id \in Nat /\ next_message_id[x] \in Nat
        BY <2>2, Facts
      <4>4. flush.id # id
        BY <2>1, <3>2, <4>3
      <4>5. Occurrences(t, id) = 0
        BY <2>1, <4>2, <4>4, OccurrencesOne
      <4>6. Copies(x, id)' = Copies(x, id) + Occurrences(t, id)
        BY <1>0, <2>1, <2>2, <3>2, <4>1, <4>2, CopiesAdded DEF Heard
      <4> QED
        BY <1>1, <2>2, <4>5, <4>6
    <3> QED
      BY <2>2, <3>1, <3>2
  <2> QED
    BY <1>0, <1>1, <2>2, <2>3, <2>4
<1>4. CASE Moves
  <2>1. drops' = drops
    BY <1>4 DEF Moves, Idles, Resends, Posts, Greets, Acknowledges, Takes, record
  <2>2. Copies(x, id)' \in Nat
    <3>1. IsABag(heard'[x]) /\ wire'[x] \in Seq(Envelope)
      BY <1>0 DEF IInv, TypeOK
    <3>2. Heard(x, id)' \in Nat
      BY <3>1 DEF IsABag, Heard, BagToSet
    <3>3. Occurrences(wire'[x], id) \in Nat
      BY <3>1, PlacesFinite
    <3> QED
      BY <3>2, <3>3 DEF Copies
  <2>3. CASE id \in posted[x]
    <3>1. \/ Copies(x, id)' <= Copies(x, id)
          \/ Repays(x) /\ Copies(x, id)' <= Copies(x, id) + 1
      BY <1>4, <2>3, CopiesGrow
    <3>2. /\ Owes(x)' => Owes(x)
          /\ Repays(x) => Owes(x) /\ ~Owes(x)'
      BY <1>4, OwesLess
    <3> QED
      BY <1>0, <1>1, <2>1, <2>2, <2>3, <3>1, <3>2
  <2>4. CASE id \notin posted[x]
    <3>1. Copies(x, id)' <= 1
      BY <1>4, <2>4, CopiesNew
    <3>2. Owes(x)' => drops' > 0
      BY <1>0 DEF Flushes, Owes
    <3> QED
      BY <1>0, <2>1, <2>2, <3>1, <3>2
  <2> QED
    BY <2>3, <2>4
<1> QED
  BY <1>2, <1>3, <1>4, Steps

\* Resync delivers a message again at most once for every connection that was lost.
THEOREM CopiesStayBounded == Spec => []CopiesBounded
<1> DEFINE CInv == IInv /\ Apart /\ Flushes /\ KeptInOrder /\ Bounded
<1>1. Init => CInv
  <2>1. Init => KeptInOrder /\ Bounded
    BY DEF Init, KeptInOrder, Bounded, Ordered
  <2> QED
    BY <2>1, InitIInv, InitDelivery
<1>2. CInv /\ [Next]_vars => CInv'
  BY NextIInv, NextApart, NextFlushes, NextKeptInOrder, NextBounded
<1>3. CInv => CopiesBounded
  <2> SUFFICES ASSUME CInv, NEW e \in Ends, NEW id \in posted[e] \cap BagToSet(heard[e])
               PROVE  heard[e][id] <= 1 + drops
    BY DEF CopiesBounded
  <2>1. /\ Copies(e, id) <= (IF Owes(e) THEN drops ELSE drops + 1) /\ drops \in Nat
        /\ Heard(e, id) \in Nat /\ Occurrences(wire[e], id) \in Nat /\ heard[e][id] = Heard(e, id)
    BY Facts, CopiesTyped DEF Bounded, Heard
  <2> QED
    BY <2>1 DEF Copies
<1> QED
  BY <1>1, <1>2, <1>3, PTL DEF Spec
=============================================================================
