---------------------------- MODULE Subscriptions ----------------------------
(***************************************************************************)
(* Push subscriptions over the control socket: the hub (subscriptions.rs), *)
(* one handler task per client connection (control_socket.rs, with the     *)
(* requests of control.rs that touch the hub), and the two publishers.     *)
(*                                                                         *)
(* Nothing is awaited while the hub's mutex is held, so one critical       *)
(* section is one step.  A handler that writes to a client which does not  *)
(* read waits, so no write is fair.                                        *)
(***************************************************************************)
EXTENDS Naturals, Sequences, SequencesExt

CONSTANTS
  Conns,        \* connection slots of the control socket
  Publishers,   \* the event loop and the priority listener
  TopicOf,      \* the topic a publisher publishes
  ChanCap,      \* capacity of a connection's push channel (128)
  MaxIds        \* bound: subscriptions ever made

Topics == {TopicOf[p] : p \in Publishers}
Ids == 0..MaxIds - 1

VARIABLES
  nextId,     \* SubscriptionHub::next_id
  entries,    \* SubscriptionHub::entries, in order
  task,       \* what the handler of each connection is at
  partial,    \* what read_line holds of a request: "none", "half" or "lost"
  chan,       \* the push channel of each connection
  owned,      \* owned_ids of each handler
  pub,        \* publishers with an event to publish
  announced,  \* history: ids whose reply was written, or that wanted none
  pushed,     \* history: ids of which an event was written
  torn        \* history: a request was dispatched that no client wrote

hub == <<nextId, entries>>
handlers == <<task, partial, chan, owned>>
ghosts == <<announced, pushed, torn>>
vars == <<hub, handlers, pub, ghosts>>

Closed == [op |-> "closed"]
Idle == [op |-> "select"]
Cleanup == [op |-> "cleanup"]
Reply(ids) == [op |-> "reply", ids |-> ids]

Init ==
  /\ nextId = 0
  /\ entries = <<>>
  /\ task = [c \in Conns |-> Closed]
  /\ partial = [c \in Conns |-> "none"]
  /\ chan = [c \in Conns |-> <<>>]
  /\ owned = [c \in Conns |-> {}]
  /\ pub = {}
  /\ announced = {}
  /\ pushed = {}
  /\ torn = FALSE

Without(es, ids) == SelectSeq(es, LAMBDA e : e.id \notin ids)

-----------------------------------------------------------------------------
(* A connection's handler *)

Accept(c) ==
  /\ task[c] = Closed
  /\ task' = [task EXCEPT ![c] = Idle]
  /\ partial' = [partial EXCEPT ![c] = "none"]
  /\ UNCHANGED <<hub, chan, owned, pub, ghosts>>

\* The first part of a request arrives; read_line waits for the rest.
ReadPart(c) ==
  /\ task[c] = Idle
  /\ partial[c] = "none"
  /\ partial' = [partial EXCEPT ![c] = "half"]
  /\ UNCHANGED <<hub, task, chan, owned, pub, ghosts>>

\* read_line returns a line the client wrote.
ReadLine(c) ==
  /\ task[c] = Idle
  /\ partial[c] # "lost"
  /\ partial' = [partial EXCEPT ![c] = "none"]

\* read_line returns the end of a line whose beginning was lost.  It is no
\* JSON: dispatch_async answers with a parse error.
ReadTornLine(c) ==
  /\ task[c] = Idle
  /\ partial[c] = "lost"
  /\ partial' = [partial EXCEPT ![c] = "none"]
  /\ task' = [task EXCEPT ![c] = Reply({})]
  /\ torn' = TRUE
  /\ UNCHANGED <<hub, chan, owned, pub, announced, pushed>>

FreshId == nextId

\* subscribe takes an id, then waits for the mutex.  A notification (quiet)
\* gets no reply.
TakeId(c, t, quiet) ==
  /\ ReadLine(c)
  /\ nextId < MaxIds
  /\ nextId' = nextId + 1
  /\ task' = [task EXCEPT ![c] = [op |-> "subscribe", id |-> FreshId, topic |-> t, quiet |-> quiet]]
  /\ UNCHANGED <<entries, chan, owned, pub, ghosts>>

AfterSubscribe(r) == IF r.quiet THEN Idle ELSE Reply({r.id})

\* The id is not kept for the cleanup.
KeepOwnedNot(ids, id) == ids
KeepOwned(ids, id) == ids \union {id}

HandleSubscribe(c) ==
  /\ task[c].op = "subscribe"
  /\ LET r == task[c]
     IN  /\ entries' = Append(entries, [id |-> r.id, topic |-> r.topic, conn |-> c])
         /\ owned' = [owned EXCEPT ![c] = KeepOwned(@, r.id)]
         /\ task' = [task EXCEPT ![c] = AfterSubscribe(r)]
         /\ announced' = IF r.quiet THEN announced \union {r.id} ELSE announced
  /\ UNCHANGED <<nextId, partial, chan, pub, pushed, torn>>

\* Any id may be named, also another connection's, by a request or a notification.
HandleUnsubscribe(c, id, quiet) ==
  /\ ReadLine(c)
  /\ entries' = Without(entries, {id})
  /\ owned' = [owned EXCEPT ![c] = @ \ {id}]
  /\ task' = [task EXCEPT ![c] = IF quiet THEN Idle ELSE Reply({})]
  /\ UNCHANGED <<nextId, chan, pub, ghosts>>

\* The reply is written, or the write fails and the handler ends.
WriteReply(c) ==
  /\ task[c].op = "reply"
  /\ \/ task' = [task EXCEPT ![c] = Idle] /\ announced' = announced \union task[c].ids
     \/ task' = [task EXCEPT ![c] = Cleanup] /\ UNCHANGED announced
  /\ UNCHANGED <<hub, partial, chan, owned, pub, pushed, torn>>

\* What read_line held when another arm of the select was taken: tokio's
\* read_line drops it.
Cancelled(part) == IF part = "half" THEN "lost" ELSE part

WritePush(c) ==
  /\ task[c] = Idle
  /\ chan[c] # <<>>
  /\ chan' = [chan EXCEPT ![c] = Tail(@)]
  /\ partial' = [partial EXCEPT ![c] = Cancelled(@)]
  /\ \/ pushed' = pushed \union {Head(chan[c])} /\ UNCHANGED task
     \/ task' = [task EXCEPT ![c] = Cleanup] /\ UNCHANGED pushed
  /\ UNCHANGED <<hub, owned, pub, announced, torn>>

\* End of file, or a read error.
HangUp(c) ==
  /\ task[c] = Idle
  /\ task' = [task EXCEPT ![c] = Cleanup]
  /\ UNCHANGED <<hub, partial, chan, owned, pub, ghosts>>

\* After the loop: one unsubscribe per owned id, then the channel closes.
CleanUp(c) ==
  /\ task[c] = Cleanup
  /\ \/ \E id \in owned[c] :
          /\ entries' = Without(entries, {id})
          /\ owned' = [owned EXCEPT ![c] = @ \ {id}]
          /\ UNCHANGED <<task, chan>>
     \/ /\ owned[c] = {}
        /\ task' = [task EXCEPT ![c] = Closed]
        /\ chan' = [chan EXCEPT ![c] = <<>>]
        /\ UNCHANGED <<entries, owned>>
  /\ UNCHANGED <<nextId, partial, pub, ghosts>>

-----------------------------------------------------------------------------
(* SubscriptionHub::publish *)

For(t) == SelectSeq(entries, LAMBDA e : e.topic = t)

\* try_send: a full channel drops the event.
TrySend(q, id) == IF Len(q) < ChanCap THEN Append(q, id) ELSE q

\* The housekeeping tick, or a datagram of the priority sidecar.
EventDue(p) ==
  /\ p \notin pub
  /\ pub' = pub \union {p}
  /\ UNCHANGED <<hub, handlers, ghosts>>

\* The fan-out, and the removal of entries whose channel is closed.  The
\* removal is a critical section of its own; by NoGhosts it is never entered.
Publish(p) ==
  /\ p \in pub
  /\ LET es == For(TopicOf[p])
         to(c) == SelectSeq(es, LAMBDA e : e.conn = c)
         closed == {es[i].id : i \in {j \in DOMAIN es : task[es[j].conn] = Closed}}
     IN  /\ chan' = [c \in Conns |->
                       IF task[c] = Closed THEN chan[c]
                       ELSE FoldLeft(LAMBDA q, e : TrySend(q, e.id), chan[c], to(c))]
         /\ entries' = Without(entries, closed)
  /\ pub' = pub \ {p}
  /\ UNCHANGED <<nextId, task, partial, owned, ghosts>>

-----------------------------------------------------------------------------
Next ==
  \/ \E c \in Conns :
       \/ Accept(c) \/ ReadPart(c) \/ ReadTornLine(c)
       \/ \E t \in Topics, quiet \in BOOLEAN : TakeId(c, t, quiet)
       \/ \E id \in Ids, quiet \in BOOLEAN : HandleUnsubscribe(c, id, quiet)
       \/ HandleSubscribe(c) \/ WriteReply(c) \/ WritePush(c) \/ HangUp(c) \/ CleanUp(c)
  \/ \E p \in Publishers : EventDue(p) \/ Publish(p)

Spec == Init /\ [][Next]_vars

-----------------------------------------------------------------------------
TypeOK ==
  /\ nextId \in 0..MaxIds
  /\ entries \in Seq([id : Ids, topic : Topics, conn : Conns])
  /\ task \in [Conns -> {Closed, Idle, Cleanup}
                 \union [op : {"subscribe"}, id : Ids, topic : Topics, quiet : BOOLEAN]
                 \union [op : {"reply"}, ids : SUBSET Ids]]
  /\ partial \in [Conns -> {"none", "half", "lost"}]
  /\ \A c \in Conns : chan[c] \in BoundedSeq(Ids, ChanCap)
  /\ owned \in [Conns -> SUBSET Ids]
  /\ pub \subseteq Publishers

\* Once a handler has ended, none of its subscriptions is in the hub, however
\* its requests, other clients' unsubscribes and its own cleanup interleaved
\* (handle: "Clean up this connection's subscriptions from the hub").  A client
\* demultiplexes events by id, so no event of a subscription is written before the
\* reply that tells it the id.
NoGhosts ==
  /\ \A i \in DOMAIN entries : task[entries[i].conn] # Closed
  /\ pushed \subseteq announced

\* That holds after every step, and a subscription leaves the hub only because its
\* own connection is being cleaned up, or alone, by a request in which a handler
\* forgets this id and nothing else is forgotten: ids are never used twice, so neither
\* a cleanup nor an unsubscribe takes a stranger's with it, and no publish takes any.
SubscriptionsKept ==
  [][LET gone == Range(entries) \ Range(entries') IN
     /\ NoGhosts'
     /\ \A e \in gone :
          \/ task[e.conn] = Cleanup
          \/ /\ gone = {e} /\ pub' = pub
             /\ \E c \in Conns : task[c] = Idle /\ owned' = [owned EXCEPT ![c] = @ \ {e.id}]]_vars

\* Every request that is dispatched is a line some client wrote ("one request
\* per line").
WholeRequests == ~torn
=============================================================================
