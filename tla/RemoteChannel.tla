--------------------------- MODULE RemoteChannel ---------------------------
(***************************************************************************)
(* ChannelClient of crates/remote: the message layer between the editor    *)
(* and the server on the remote host.  Both ends run the same code.  An    *)
(* end numbers its envelopes, keeps those sent with `send_buffered` until  *)
(* an `ack_id` of its peer covers them, and matches responses with the     *)
(* requests that wait for them.  When the transport is replaced, `resync`  *)
(* of the client and the FlushBufferedMessages handler of the server send  *)
(* the kept envelopes again.                                               *)
(*                                                                         *)
(* The transport is a FIFO in each direction that loses what it holds when *)
(* the connection drops (transport.rs); as in transport/mock.rs both ends  *)
(* get new queues when the proxy is started again.                         *)
(***************************************************************************)
EXTENDS Integers, Sequences, FiniteSets, Bags

CONSTANTS
  ClientKinds, ServerKinds,   \* what the application at each end sends on its own
  StreamLength,               \* chunks a handler of a stream request sends before the end
  MaxSends,                   \* bound on the application sends of each end
  MaxDrops                    \* bound on the number of lost connections

ASSUME RemoteChannelAssumption ==
  /\ ClientKinds \cup ServerKinds \subseteq {"Msg", "Request", "Stream"}
  /\ StreamLength \in Nat /\ MaxSends \in Nat /\ MaxDrops \in Nat

Ends == {"client", "server"}
Originals(e) == IF e = "client" THEN ClientKinds ELSE ServerKinds
Peer(e) == IF e = "client" THEN "server" ELSE "client"

NoId == -1   \* an absent `ack_id` or `responding_to`

Answers == {"Response", "Chunk", "End", "Ack"}
Kinds == {"Msg", "Request", "Stream", "Flush", "Started"} \cup Answers

Envelope == [id : Nat, kind : Kinds, responding_to : Nat \cup {NoId}, ack_id : Nat \cup {NoId}]

VARIABLES
  next_message_id, max_received, buffer,   \* fields of ChannelClient, per end
  response_channels,  \* requests that wait: one record each, streams included
  starting,           \* the handling task is spawned and has not run yet
  remote_started,     \* the Signal set when RemoteStarted of the peer arrives
  resyncing,          \* id of the FlushBufferedMessages that `resync` awaits
  link,               \* "new", "up" or "down"
  wire,               \* envelopes on their way from an end to its peer
  serving,            \* handlers at work: the request and the chunks still to send
  said, drops,        \* count the sends and drops, for the bounds
  posted,             \* history: ids given to `send_buffered`, per sender
  heard,              \* history: ids that reached the peer, a bag per sender
  answered            \* history: what resolved a request: <<its kind, answer's kind>>

transport == <<link, wire, starting, remote_started, resyncing>>
history == <<posted, heard, answered>>
vars == <<next_message_id, max_received, buffer, response_channels, transport,
          serving, said, drops, history>>

\* ChannelClient::new at both ends, before the proxy is started.
Init ==
  /\ next_message_id = [e \in Ends |-> 0] /\ max_received = [e \in Ends |-> 0]
  /\ buffer = [e \in Ends |-> <<>>]
  /\ response_channels = [e \in Ends |-> {}]
  /\ starting = [e \in Ends |-> FALSE] /\ remote_started = [e \in Ends |-> FALSE]
  /\ resyncing = NoId
  /\ link = "new" /\ wire = [e \in Ends |-> <<>>]
  /\ serving = [e \in Ends |-> <<>>]
  /\ said = [e \in Ends |-> 0] /\ drops = 0
  /\ posted = [e \in Ends |-> {}] /\ heard = [e \in Ends |-> EmptyBag]
  /\ answered = [e \in Ends |-> {}]

-----------------------------------------------------------------------------
\* `outgoing_tx.unbounded_send(..).ok()`: without a connection it goes nowhere.
OntoWire(e, envelopes) == IF link = "up" THEN wire[e] \o envelopes ELSE wire[e]

\* Mutant: an acknowledgement covers one envelope too many.
UnacknowledgedEager(kept, ack_id) ==
  LET popped == {i \in DOMAIN kept : \A j \in 1 .. i : kept[j].id <= ack_id + 1}
  IN SubSeq(kept, Cardinality(popped) + 1, Len(kept))

\* Envelopes acknowledged by `ack_id` leave the front of the buffer.
Unacknowledged(kept, ack_id) ==
  LET popped == {i \in DOMAIN kept : \A j \in 1 .. i : kept[j].id <= ack_id}
  IN SubSeq(kept, Cardinality(popped) + 1, Len(kept))

Outgoing(e, kind, to) ==
  [id |-> next_message_id[e], kind |-> kind, responding_to |-> to, ack_id |-> max_received[e]]

\* The entry `request_dynamic` or `request_stream_dynamic` makes for its envelope.
Channel(e, kind) == [id |-> next_message_id[e], kind |-> kind]

send_buffered(e, kind, to) ==
  LET envelope == Outgoing(e, kind, to) IN
  /\ next_message_id' = [next_message_id EXCEPT ![e] = @ + 1]
  /\ buffer' = [buffer EXCEPT ![e] = Append(@, envelope)]
  /\ wire' = [wire EXCEPT ![e] = OntoWire(e, <<envelope>>)]
  /\ posted' = [posted EXCEPT ![e] = @ \cup {envelope.id}]

\* `send`, `request` and `request_stream` of the application.  The client's
\* application exists only once RemoteClient::new has seen RemoteStarted; the
\* server's is taken to wait for the client's as well.
send(e, kind) ==
  /\ remote_started[e] /\ said[e] < MaxSends
  /\ send_buffered(e, kind, NoId)
  /\ response_channels' =
       [response_channels EXCEPT ![e] =
          IF kind = "Msg" THEN @ ELSE @ \cup {Channel(e, kind)}]
  /\ said' = [said EXCEPT ![e] = @ + 1]
  /\ UNCHANGED <<max_received, link, starting, remote_started, resyncing, serving, drops,
                 heard, answered>>

\* A handler answers: `send_response`, or the next item of a stream and its end.
respond(e, i) ==
  LET work == serving[e][i]
      kind == IF work.kind = "Request" THEN "Response"
              ELSE IF work.left > 0 THEN "Chunk" ELSE "End" IN
  /\ send_buffered(e, kind, work.id)
  /\ serving' = [serving EXCEPT ![e] =
       IF kind = "Chunk" THEN [@ EXCEPT ![i] = [work EXCEPT !.left = work.left - 1]]
       ELSE SubSeq(@, 1, i - 1) \o SubSeq(@, i + 1, Len(@))]
  /\ UNCHANGED <<max_received, response_channels, link, starting, remote_started, resyncing,
                 said, drops, heard, answered>>

\* The consumer drops the stream: its guard removes the channel.
drop_stream(e, channel) ==
  /\ channel.kind = "Stream"
  /\ response_channels' = [response_channels EXCEPT ![e] = @ \ {channel}]
  /\ UNCHANGED <<next_message_id, max_received, buffer, transport, serving, said, drops, history>>

\* The handling task runs for the first time and announces this end.
start_handling_messages(e) ==
  /\ starting[e]
  /\ starting' = [starting EXCEPT ![e] = FALSE]
  /\ wire' = [wire EXCEPT ![e] = OntoWire(e,
       <<[id |-> 0, kind |-> "Started", responding_to |-> NoId, ack_id |-> NoId]>>)]
  /\ UNCHANGED <<next_message_id, max_received, buffer, response_channels, link,
                 remote_started, resyncing, serving, said, drops, history>>

-----------------------------------------------------------------------------
\* One turn of the handling loop of `e` for the envelope at the head of its wire:
\* what it takes off the wire and the buffer, before it looks at the payload.
Incoming(e) == wire[Peer(e)][1]
Kept(e) == Unacknowledged(buffer[e], Incoming(e).ack_id)

take(e) ==
  /\ ~starting[e] /\ wire[Peer(e)] # <<>>
  /\ buffer' = [buffer EXCEPT ![e] = Kept(e)]

\* Mutant: the Ack reuses the next id instead of taking it.
acknowledge_unnumbered(e, first) ==
  /\ wire' = [wire EXCEPT ![Peer(e)] = Tail(@),
       ![e] = @ \o first \o <<[id |-> next_message_id[e], kind |-> "Ack",
                               responding_to |-> Incoming(e).id, ack_id |-> NoId]>>]
  /\ UNCHANGED <<next_message_id, max_received, response_channels, link, starting, resyncing,
                 serving, said, drops, history>>

\* The Ack for FlushBufferedMessages and RemoteStarted carries no `ack_id` and
\* does not count as received; before it `first` goes out.
acknowledge(e, first) ==
  /\ wire' = [wire EXCEPT ![Peer(e)] = Tail(@),
       ![e] = @ \o first \o <<[id |-> next_message_id[e], kind |-> "Ack",
                               responding_to |-> Incoming(e).id, ack_id |-> NoId]>>]
  /\ next_message_id' = [next_message_id EXCEPT ![e] = @ + 1]
  /\ UNCHANGED <<max_received, response_channels, link, starting, resyncing, serving, said,
                 drops, history>>

receive_flush(e) ==
  /\ take(e) /\ Incoming(e).kind = "Flush"
  /\ acknowledge(e, Kept(e))
  /\ UNCHANGED remote_started

\* Mutant: the hello of the peer triggers a flush as well.
receive_started_flushing(e) ==
  /\ take(e) /\ Incoming(e).kind = "Started"
  /\ acknowledge(e, Kept(e))
  /\ remote_started' = [remote_started EXCEPT ![e] = TRUE]

receive_started(e) ==
  /\ take(e) /\ Incoming(e).kind = "Started"
  /\ acknowledge(e, <<>>)
  /\ remote_started' = [remote_started EXCEPT ![e] = TRUE]

\* Everything else is recorded in `max_received`, whatever came before.
record(e) ==
  /\ take(e) /\ Incoming(e).kind \notin {"Flush", "Started"}
  /\ max_received' = [max_received EXCEPT ![e] = Incoming(e).id]
  /\ heard' = [heard EXCEPT ![Peer(e)] = @ (+) SetToBag({Incoming(e).id})]
  /\ UNCHANGED <<next_message_id, link, starting, remote_started, said, drops, posted>>

\* A message or request goes to its handler, which runs on its own.
receive_message(e) ==
  /\ record(e) /\ Incoming(e).responding_to = NoId
  /\ wire' = [wire EXCEPT ![Peer(e)] = Tail(@)]
  /\ serving' = [serving EXCEPT ![e] =
       IF Incoming(e).kind = "Msg" THEN @
       ELSE Append(@, [id |-> Incoming(e).id, kind |-> Incoming(e).kind,
                       left |-> IF Incoming(e).kind = "Stream" THEN StreamLength ELSE 0])]
  /\ UNCHANGED <<response_channels, resyncing, answered>>

\* A response resolves the request that waits for it.
resolve(e, channel) ==
  /\ record(e) /\ Incoming(e).responding_to = channel.id /\ channel.kind # "Stream"
  /\ response_channels' = [response_channels EXCEPT ![e] = @ \ {channel}]
  /\ answered' = [answered EXCEPT ![e] = @ \cup {<<channel.kind, Incoming(e).kind>>}]
  /\ UNCHANGED <<serving>>

receive_response(e, channel) ==
  /\ resolve(e, channel) /\ ~(e = "client" /\ channel.id = resyncing)
  /\ wire' = [wire EXCEPT ![Peer(e)] = Tail(@)]
  /\ UNCHANGED resyncing

\* The answer to the flush of `resync`: because the loop waits for the requester,
\* the whole buffer is sent again before the next envelope is looked at.
receive_flushed(channel) ==
  /\ resolve("client", channel) /\ channel.id = resyncing
  /\ resyncing' = NoId
  /\ wire' = [wire EXCEPT !["server"] = Tail(@), !["client"] = @ \o Kept("client")]

\* A chunk goes to the stream; the end closes it.  The loop waits until the consumer has
\* taken the chunk; that a consumer which keeps its stream also polls it is assumed here.
receive_item(e, channel) ==
  /\ record(e) /\ Incoming(e).responding_to = channel.id
  /\ channel.kind = "Stream"
  /\ wire' = [wire EXCEPT ![Peer(e)] = Tail(@)]
  /\ response_channels' = [response_channels EXCEPT ![e] =
       IF Incoming(e).kind = "End" THEN @ \ {channel} ELSE @]
  /\ UNCHANGED <<resyncing, serving, answered>>

\* Mutant: a response nobody waits for blocks the loop.
receive_late_blocking(e) ==
  /\ record(e) /\ Incoming(e).responding_to # NoId
  /\ Incoming(e).responding_to \in {c.id : c \in response_channels[e]}
  /\ wire' = [wire EXCEPT ![Peer(e)] = Tail(@)]
  /\ UNCHANGED <<response_channels, resyncing, serving, answered>>

\* A response nobody waits for, for example the second copy of one, is dropped.
receive_late(e) ==
  /\ record(e) /\ Incoming(e).responding_to # NoId
  /\ Incoming(e).responding_to \notin {c.id : c \in response_channels[e]}
  /\ wire' = [wire EXCEPT ![Peer(e)] = Tail(@)]
  /\ UNCHANGED <<response_channels, resyncing, serving, answered>>

receive(e) ==
  \/ receive_flush(e) \/ receive_started(e) \/ receive_message(e) \/ receive_late(e)
  \/ \E c \in response_channels[e] :
       receive_response(e, c) \/ receive_item(e, c) \/ (e = "client" /\ receive_flushed(c))

-----------------------------------------------------------------------------
\* The proxy process or the network dies: both queues are gone.
disconnect ==
  /\ link = "up" /\ drops < MaxDrops
  /\ link' = "down" /\ drops' = drops + 1
  /\ wire' = [e \in Ends |-> <<>>]
  /\ starting' = [e \in Ends |-> FALSE]
  /\ UNCHANGED <<next_message_id, max_received, buffer, response_channels, remote_started,
                 resyncing, serving, said, history>>

\* RemoteClient::new starts the proxy: new queues at both ends.
connect ==
  /\ link = "new" /\ link' = "up"
  /\ starting' = [e \in Ends |-> TRUE]
  /\ UNCHANGED <<next_message_id, max_received, buffer, response_channels, wire,
                 remote_started, resyncing, serving, said, drops, history>>

\* RemoteClient::reconnect starts it again and calls `reconnect` and, in the same
\* poll, `resync`: the flush goes out, unbuffered, before the handling task runs.
\* A `resync` that was cut off by a drop or its timeout is forgotten.
reconnect ==
  /\ link = "down" /\ link' = "up"
  /\ starting' = [e \in Ends |-> TRUE]
  /\ next_message_id' = [next_message_id EXCEPT !["client"] = @ + 1]
  /\ response_channels' =
       [response_channels EXCEPT !["client"] = @ \cup {Channel("client", "Flush")}]
  /\ resyncing' = next_message_id["client"]
  /\ wire' = [wire EXCEPT !["client"] = Append(@, Outgoing("client", "Flush", NoId))]
  /\ UNCHANGED <<max_received, buffer, remote_started, serving, said, drops, history>>

Next ==
  \/ disconnect \/ connect \/ reconnect
  \/ \E e \in Ends :
       \/ start_handling_messages(e) \/ receive(e)
       \/ \E kind \in Originals(e) : send(e, kind)
       \/ \E i \in DOMAIN serving[e] : respond(e, i)
       \/ \E c \in response_channels[e] : drop_stream(e, c)

Spec == Init /\ [][Next]_vars

\* The executors run their tasks, handlers answer, and RemoteClient reconnects.
Fairness ==
  /\ WF_vars(connect) /\ WF_vars(reconnect)
  /\ \A e \in Ends : /\ WF_vars(start_handling_messages(e)) /\ WF_vars(receive(e))
                     /\ WF_vars(\E i \in DOMAIN serving[e] : respond(e, i))

FairSpec == Spec /\ Fairness

-----------------------------------------------------------------------------
\* Fields of ChannelClient, the transport and the handlers have their types; a stream
\* handler ends after its last chunk.
TypeOK ==
  /\ next_message_id \in [Ends -> Nat] /\ max_received \in [Ends -> Nat]
  /\ buffer \in [Ends -> Seq(Envelope)] /\ wire \in [Ends -> Seq(Envelope)]
  /\ response_channels \in [Ends -> SUBSET [id : Nat, kind : {"Request", "Stream", "Flush"}]]
  /\ starting \in [Ends -> BOOLEAN] /\ remote_started \in [Ends -> BOOLEAN]
  /\ resyncing \in Nat \cup {NoId} /\ link \in {"new", "up", "down"}
  /\ serving \in [Ends -> Seq([id : Nat, kind : {"Request", "Stream"}, left : Nat])]
  /\ said \in [Ends -> 0 .. MaxSends] /\ drops \in 0 .. MaxDrops
  /\ posted \in [Ends -> SUBSET Nat] /\ answered \in [Ends -> SUBSET (Kinds \X Kinds)]
  /\ DOMAIN heard = Ends
  /\ \A e \in Ends : IsABag(heard[e]) /\ BagToSet(heard[e]) \subseteq Nat

Ids(envelopes) == {envelopes[i].id : i \in DOMAIN envelopes}

\* A message given to `send_buffered` has reached the peer, is on its way, or is
\* still kept for the next resync: an `ack_id` never lets go of one that was lost.
NothingLost ==
  \A e \in Ends :
    \A id \in posted[e] : BagIn(id, heard[e]) \/ id \in Ids(wire[e]) \/ id \in Ids(buffer[e])

\* Resync may deliver a message again, but not more often than once per
\* connection after the first.
CopiesBounded ==
  \A e \in Ends :
    \A id \in posted[e] \cap BagToSet(heard[e]) : heard[e][id] <= 1 + drops

\* A request is resolved by an answer of its own kind: the Ack of the hello, which
\* responds to id 0, and late answers from before a drop never resolve another.
AnswersFit ==
  \A e \in Ends : answered[e] \subseteq {<<"Request", "Response">>, <<"Flush", "Ack">>}

\* Once the connection is back for good, both ends catch up: everything that was
\* sent, before, during or after the outage, is heard.
AllHeard == []<>(\A e \in Ends : posted[e] \subseteq BagToSet(heard[e]))
=============================================================================
