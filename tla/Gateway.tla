------------------------------- MODULE Gateway ------------------------------
(***************************************************************************)
(* The publish path of a topic (lib/polyglot/gateway/): events enter by    *)
(* HTTP (router.ex:33-52, handle_publish) or on a channel's socket         *)
(* (room_channel.ex, match_channel.ex, post_channel.ex:10-25) and are      *)
(* pushed to the topic's subscribers, one channel process per socket.      *)
(*                                                                         *)
(* Phoenix.PubSub.broadcast runs in the publisher: it looks up the         *)
(* subscribers of its own node and sends to one after the other, so it is  *)
(* not atomic.  Nodes are not connected: application.ex:11 names no        *)
(* adapter and nothing starts Polyglot.Clustering.  Between processes of a *)
(* node a message sent is in the receiver's mailbox.                       *)
(*                                                                         *)
(* Only HTTP events are stored (and forwarded to the processor); events of *)
(* a socket are only broadcast.  Of the channel's history the model has    *)
(* what decides whether a reader sees an event, and Storage the detail:    *)
(* the list in Redis that all nodes share, to which an event comes in      *)
(* time, late or never, and the table of the publisher's node.  Both also  *)
(* hold events the model does not name, of other publishers and, since the *)
(* key has no application in it, of other applications.                    *)
(***************************************************************************)
EXTENDS Naturals, FiniteSets, SequencesExt

CONSTANTS
    Nodes,         \* gateways behind the load balancer
    Subscribers,   \* channel processes; who joins again is another one
    NodeOf,        \* the gateway a subscriber's socket is connected to
    HttpEvents,    \* events published by a request, one process each
    SocketEvents,  \* events published on a subscriber's socket
    Admissible,    \* HTTP events with a valid key, a type and data
    Http,          \* the publisher of an event is an HTTP request
    Redis,         \* the store that get_history asks first
    Readers        \* bound of the model: whose clients read the history

Events == HttpEvents \cup SocketEvents

ASSUME GatewayAssumption ==
    /\ Nodes # {}
    /\ NodeOf \in [Subscribers -> Nodes]
    /\ HttpEvents \cap SocketEvents = {}
    /\ Admissible \subseteq HttpEvents
    /\ Http \notin Subscribers
    /\ Redis \notin Nodes
    /\ Readers \subseteq Subscribers

VARIABLES
    member,    \* the subscriber's channel process
    mailbox,   \* {:event, event} messages it has not handled
    pushed,    \* events pushed to its socket, in order
    fetched,   \* what its client has read from the history after joining
    phase,     \* how far the event's publisher is
    by,        \* the publisher: Http or a subscriber
    at,        \* the publisher's node
    rest,      \* subscribers the broadcast of the event has not come to
    history,   \* the events in the channel's Redis list, newest first
    added,     \* the events whose LPUSH Redis has executed
    ets,       \* the rows of :event_history on each node, oldest first
    late,      \* history: stored events whose LPUSH Redis has not executed
    wiped,     \* history: rows that went with their table
    forward,   \* the Task that posts the event to the Go processor
    earlier,   \* history: events answered before this one's publisher began
    audience   \* history: subscribers joined when its broadcast began

subscribers == <<member, mailbox, pushed, fetched>>
publishers == <<phase, by, at, rest, earlier, audience>>
storage == <<history, added, ets, late, wiped>>
vars == <<subscribers, publishers, storage, forward>>

Local(n) == {s \in Subscribers : NodeOf[s] = n}

Messages == Seq(Events)
Histories == Seq(Admissible)

\* An answer of the history endpoint: the store it came from, what it showed, what
\* that store had taken but it did not show, dropped since or beyond the limit, and
\* what had been stored without Redis having it.
Reading == [from : Nodes \cup {Redis},
            shown : SUBSET Admissible, gone : SUBSET Admissible, late : SUBSET Admissible]

\* What subscriber s has been sent, in order.
Sent(s) == pushed[s] \o mailbox[s]
Reached(s, e) == e \in Range(Sent(s))

TypeOK ==
    /\ member \in [Subscribers -> {"new", "joined", "left"}]
    /\ mailbox \in [Subscribers -> Messages]
    /\ pushed \in [Subscribers -> Messages]
    /\ fetched \in [Subscribers -> Reading \cup {Http}]
    /\ \A s \in Subscribers :
          /\ member[s] # "joined" => mailbox[s] = <<>>
          /\ member[s] = "new" => pushed[s] = <<>> /\ fetched[s] = Http
    /\ phase \in [Events -> {"new", "storing", "stored", "broadcasting",
                             "answered", "rejected", "aborted"}]
    /\ by \in [Events -> Subscribers \cup {Http}]
    /\ at \in [Events -> Nodes]
    /\ rest \in [Events -> SUBSET Subscribers]
    /\ \A e \in Events :
          /\ rest[e] \subseteq Local(at[e])
          /\ phase[e] # "broadcasting" => rest[e] = {}
          /\ e \in SocketEvents /\ phase[e] # "new" =>
                by[e] # Http /\ at[e] = NodeOf[by[e]]
    /\ history \in Histories
    /\ ets \in [Nodes -> Histories]
    /\ added \subseteq Admissible /\ late \subseteq Admissible /\ wiped \subseteq Admissible
    /\ forward \in [Events -> {"none", "running", "ended"}]
    /\ earlier \in [Events -> SUBSET Events]
    /\ audience \in [Events -> SUBSET Subscribers]

\* `fetched' is Http, and `at' has no meaning, until set.
Init ==
    /\ member = [s \in Subscribers |-> "new"]
    /\ mailbox = [s \in Subscribers |-> <<>>]
    /\ pushed = [s \in Subscribers |-> <<>>]
    /\ fetched = [s \in Subscribers |-> Http]
    /\ phase = [e \in Events |-> "new"]
    /\ by = [e \in Events |-> Http]
    /\ at = [e \in Events |-> CHOOSE n \in Nodes : TRUE]
    /\ rest = [e \in Events |-> {}]
    /\ history = <<>>
    /\ ets = [n \in Nodes |-> <<>>]
    /\ added = {} /\ late = {} /\ wiped = {}
    /\ forward = [e \in Events |-> "none"]
    /\ earlier = [e \in Events |-> {}]
    /\ audience = [e \in Events |-> {}]

-----------------------------------------------------------------------------
(* Publishers.                                                             *)

Answered == {e \in Events : phase[e] = "answered"}
Joined == {s \in Subscribers : member[s] = "joined"}

\* Fault variant of Recipients: the publisher's own socket is left out.
RecipientsOthers(n, p) == Local(n) \ {p}

\* Those a broadcast of p at n comes to; who has not joined when it does is passed over.
Recipients(n, p) == Local(n)

\* The broadcast of e begins.
BeginBroadcast(e, n, p) ==
    /\ phase' = [phase EXCEPT ![e] = "broadcasting"]
    /\ rest' = [rest EXCEPT ![e] = Recipients(n, p)]
    /\ audience' = [audience EXCEPT ![e] = Joined]

\* Fault variant of Request: the key and the body are not looked at.
RequestUnchecked(e, n) ==
    /\ e \in HttpEvents /\ phase[e] = "new"
    /\ phase' = [phase EXCEPT ![e] = "storing"]
    /\ at' = [at EXCEPT ![e] = n]
    /\ earlier' = [earlier EXCEPT ![e] = Answered]
    /\ UNCHANGED <<subscribers, by, rest, audience, storage, forward>>

\* POST .../publish at node n is taken up.
Request(e, n) ==
    /\ e \in Admissible /\ phase[e] = "new"
    /\ phase' = [phase EXCEPT ![e] = "storing"]
    /\ at' = [at EXCEPT ![e] = n]
    /\ earlier' = [earlier EXCEPT ![e] = Answered]
    /\ UNCHANGED <<subscribers, by, rest, audience, storage, forward>>

\* POST .../publish is refused with 401 or 400.
Refuse(e) ==
    /\ e \in HttpEvents \ Admissible /\ phase[e] = "new"
    /\ phase' = [phase EXCEPT ![e] = "rejected"]
    /\ UNCHANGED <<subscribers, by, at, rest, earlier, audience, storage, forward>>

\* Redis executes the LPUSH of e: while store_event waits, or later if the call has
\* timed out or its connection has broken, or never.
Lpush(e) ==
    /\ e \in HttpEvents \ added /\ phase[e] \notin {"new", "rejected"}
    /\ history' = <<e>> \o history
    /\ added' = added \cup {e}
    /\ late' = late \ {e}
    /\ UNCHANGED <<subscribers, publishers, ets, wiped, forward>>

\* Storage.store_event returns, having inserted the row: store_in_redis never
\* returns :ok, whatever Redis has done.
Store(e) ==
    /\ phase[e] = "storing"
    /\ ets' = [ets EXCEPT ![at[e]] = Append(@, e)]
    /\ late' = late \cup ({e} \ added)
    /\ phase' = [phase EXCEPT ![e] = "stored"]
    /\ UNCHANGED <<subscribers, by, at, rest, earlier, audience,
                   history, added, wiped, forward>>

\* The oldest drop out of the list, by the LTRIM of events the model does not name,
\* or all of them by its expiry.
Forget ==
    /\ \E k \in 0 .. Len(history) - 1 : history' = SubSeq(history, 1, k)
    /\ UNCHANGED <<subscribers, publishers, added, ets, late, wiped, forward>>

\* Storage ends on node n, and its table with it; the next one is empty.
Wipe(n) ==
    /\ ets[n] # <<>>
    /\ ets' = [ets EXCEPT ![n] = <<>>]
    /\ wiped' = wiped \cup Range(ets[n])
    /\ UNCHANGED <<subscribers, publishers, history, added, late, forward>>

\* Fault variant of Publish: broadcast first, store never.
PublishUnstored(e) ==
    /\ phase[e] \in {"storing", "stored"}
    /\ BeginBroadcast(e, at[e], Http)
    /\ forward' = [forward EXCEPT ![e] = "running"]
    /\ UNCHANGED <<subscribers, by, at, earlier, storage>>

\* store_event has returned: the Task is started, then the broadcast begins.
Publish(e) ==
    /\ phase[e] = "stored"
    /\ BeginBroadcast(e, at[e], Http)
    /\ forward' = [forward EXCEPT ![e] = "running"]
    /\ UNCHANGED <<subscribers, by, at, earlier, storage>>

\* The Task's post has ended, with whatever result.
ForwardEnds(e) ==
    /\ forward[e] = "running"
    /\ forward' = [forward EXCEPT ![e] = "ended"]
    /\ UNCHANGED <<subscribers, publishers, storage>>

\* The channel process of s is in handle_in.
Busy(s) == \E e \in SocketEvents : by[e] = s /\ phase[e] = "broadcasting"

\* Fault variant of HandleIn: the publisher is pushed its event besides.
HandleInEcho(e, s) ==
    /\ e \in SocketEvents /\ phase[e] = "new"
    /\ member[s] = "joined" /\ ~Busy(s)
    /\ by' = [by EXCEPT ![e] = s]
    /\ at' = [at EXCEPT ![e] = NodeOf[s]]
    /\ earlier' = [earlier EXCEPT ![e] = Answered]
    /\ BeginBroadcast(e, NodeOf[s], s)
    /\ pushed' = [pushed EXCEPT ![s] = Append(@, e)]
    /\ UNCHANGED <<member, mailbox, fetched, storage, forward>>

\* handle_in("publish", ...).
HandleIn(e, s) ==
    /\ e \in SocketEvents /\ phase[e] = "new"
    /\ member[s] = "joined" /\ ~Busy(s)
    /\ by' = [by EXCEPT ![e] = s]
    /\ at' = [at EXCEPT ![e] = NodeOf[s]]
    /\ earlier' = [earlier EXCEPT ![e] = Answered]
    /\ BeginBroadcast(e, NodeOf[s], s)
    /\ UNCHANGED <<subscribers, storage, forward>>

\* The broadcast of e comes to s and sends the event if s has subscribed.
Visit(e, s) ==
    /\ s \in rest[e]
    /\ rest' = [rest EXCEPT ![e] = @ \ {s}]
    /\ mailbox' = IF member[s] = "joined" THEN [mailbox EXCEPT ![s] = Append(@, e)] ELSE mailbox
    /\ UNCHANGED <<member, pushed, fetched, phase, by, at, earlier, audience,
                   storage, forward>>

\* Fault variant of Answer: the publisher does not wait for its broadcast.
AnswerEarly(e) ==
    /\ phase[e] = "broadcasting"
    /\ phase' = [phase EXCEPT ![e] = "answered"]
    /\ UNCHANGED <<subscribers, by, at, rest, earlier, audience, storage, forward>>

\* Fault variant of Answer: the publisher waits for the processor.
AnswerForwarded(e) ==
    /\ phase[e] = "broadcasting" /\ rest[e] = {} /\ forward[e] # "running"
    /\ phase' = [phase EXCEPT ![e] = "answered"]
    /\ UNCHANGED <<subscribers, by, at, rest, earlier, audience, storage, forward>>

\* The broadcast has returned: 200, or {:reply, {:ok, ...}} on the socket.
Answer(e) ==
    /\ phase[e] = "broadcasting" /\ rest[e] = {}
    /\ phase' = [phase EXCEPT ![e] = "answered"]
    /\ UNCHANGED <<subscribers, by, at, rest, earlier, audience, storage, forward>>

\* The request process ends early: its client has disconnected, or ETS is gone
\* while Storage restarts.  An event may be stored, or broadcast to some.
Abort(e) ==
    /\ e \in HttpEvents /\ phase[e] \in {"storing", "stored", "broadcasting"}
    /\ phase' = [phase EXCEPT ![e] = "aborted"]
    /\ rest' = [rest EXCEPT ![e] = {}]
    /\ UNCHANGED <<subscribers, by, at, earlier, audience, storage, forward>>

-----------------------------------------------------------------------------
(* Subscribers.                                                            *)

\* join/3 subscribes the channel process.
Join(s) ==
    /\ member[s] = "new"
    /\ member' = [member EXCEPT ![s] = "joined"]
    /\ UNCHANGED <<mailbox, pushed, fetched, publishers, storage, forward>>

\* The channel process ends, in handle_in perhaps; its mailbox goes with it.
Leave(s) ==
    /\ member[s] = "joined"
    /\ member' = [member EXCEPT ![s] = "left"]
    /\ mailbox' = [mailbox EXCEPT ![s] = <<>>]
    /\ LET lost == {e \in SocketEvents : by[e] = s /\ phase[e] = "broadcasting"}
       IN  /\ phase' = [e \in Events |-> IF e \in lost THEN "aborted" ELSE phase[e]]
           /\ rest' = [e \in Events |-> IF e \in lost THEN {} ELSE rest[e]]
    /\ audience' = [e \in Events |-> audience[e] \ {s}]
    /\ UNCHANGED <<pushed, fetched, by, at, earlier, storage, forward>>

\* handle_info({:event, event}, socket).
HandleInfo(s) ==
    /\ mailbox[s] # <<>> /\ ~Busy(s)
    /\ pushed' = [pushed EXCEPT ![s] = Append(@, Head(mailbox[s]))]
    /\ mailbox' = [mailbox EXCEPT ![s] = Tail(@)]
    /\ UNCHANGED <<member, fetched, publishers, storage, forward>>

\* What a store holds, in the order it is read, and what it has ever taken.
Held(b) == IF b = Redis THEN history ELSE ets[b]
Taken(b) == IF b = Redis THEN added ELSE Range(ets[b]) \cup {e \in wiped : at[e] = b}

\* Once it has joined, the client reads the history from whichever node: Redis
\* answers, with nothing perhaps, or the node falls back to its own table.  The
\* newest of the list, or the oldest rows of the table, are answered as the limit
\* admits, which the events the model does not name use up too (a negative limit, for
\* which the table answers its newest rows, is left to Storage).
FetchHistory(s, b) ==
    /\ s \in Readers /\ member[s] = "joined" /\ fetched[s] = Http
    /\ \E k \in 0 .. Len(Held(b)) :
          LET shown == Range(SubSeq(Held(b), 1, k)) IN
          fetched' = [fetched EXCEPT ![s] =
                         [from |-> b, shown |-> shown, gone |-> Taken(b) \ shown,
                          late |-> IF b = Redis THEN late ELSE {}]]
    /\ UNCHANGED <<member, mailbox, pushed, publishers, storage, forward>>

Next ==
    \/ \E e \in Events, n \in Nodes : Request(e, n)
    \/ \E e \in Events :
          \/ Refuse(e) \/ Lpush(e) \/ Store(e)
          \/ Publish(e) \/ ForwardEnds(e) \/ Answer(e) \/ Abort(e)
    \/ Forget \/ \E n \in Nodes : Wipe(n)
    \/ \E e \in Events, s \in Subscribers : HandleIn(e, s) \/ Visit(e, s)
    \/ \E s \in Subscribers : Join(s) \/ Leave(s) \/ HandleInfo(s)
    \/ \E s \in Subscribers, b \in Nodes \cup {Redis} : FetchHistory(s, b)

Spec == Init /\ [][Next]_vars

\* Processes run on.  Nothing is assumed of the processor, nor of clients.
FairSpec ==
    /\ Spec
    /\ \A e \in Events :
          /\ WF_vars(Store(e)) /\ WF_vars(Publish(e)) /\ WF_vars(Answer(e))
          /\ \A s \in Subscribers : WF_vars(Visit(e, s))
    /\ \A s \in Subscribers : WF_vars(HandleInfo(s))

-----------------------------------------------------------------------------
(* Properties.                                                             *)

\* A subscriber is sent no event twice (router.ex:178, room_channel.ex:23).
SentOnce == \A s \in Subscribers : IsInjective(Sent(s))

\* Events of one node that were published one after the other, the second after
\* the first was answered, reach every subscriber in that order: a client that
\* waits for its answers sees no reordering, by whichever way it publishes.
AnsweredOrder ==
    \A s \in Subscribers : \A i, j \in DOMAIN Sent(s) :
        Sent(s)[i] \in earlier[Sent(s)[j]] => i < j

\* An answer means that every subscriber of the node that was there when the
\* broadcast began, the publisher's own socket included, has been sent the event.
MembersReached ==
    \A e \in Answered : \A s \in audience[e] : NodeOf[s] = at[e] => Reached(s, e)

\* A client that joins and then reads the history misses an answered event of its
\* node only by the storage.  If it was sent none and sees none, then when it read
\* either the store that answered had taken the event, and had dropped it since or cut
\* it off at the limit; or store_event had returned without Redis having the event,
\* and Redis answered; or the answer fell back to the table of another node
\* (router.ex:171-178, storage.ex:14-28).
NoGap ==
    \A s \in Joined, e \in Answered \cap HttpEvents :
        fetched[s] # Http /\ at[e] = NodeOf[s] =>
            \/ Reached(s, e) \/ e \in fetched[s].shown
            \/ e \in fetched[s].gone
            \/ e \in fetched[s].late
            \/ fetched[s].from \in Nodes \ {at[e]}

\* The broadcast of e has begun, and was not cut off.
Begun(e) == phase[e] \in {"broadcasting", "answered"}

\* How far e is for its subscribers, for whom storing it is nothing yet.
Stage(e) ==
    CASE phase[e] = "broadcasting" -> "open"
      [] phase[e] = "answered" -> "confirmed"
      [] phase[e] = "aborted" -> "dropped"
      [] OTHER -> "unpublished"

\* The events of the topic: what is refused is none.
Publishable == Admissible \cup SocketEvents

\* A publisher reaches the subscribers of its node.  Whether it should reach others is
\* left open: config/config.exs:64 means it to, and nothing here does it.
Abstract == INSTANCE Topic WITH
    Events <- Publishable,
    Reaches <- {Local(n) : n \in Nodes},
    stage <- [e \in Publishable |-> Stage(e)],
    owed <- [e \in Publishable |-> IF Begun(e) THEN audience[e] \cap Local(at[e]) ELSE {}],
    log <- [s \in Subscribers |-> Sent(s)]

\* Two ways to publish, mailboxes and broadcasts that run while subscribers come and go
\* are together one topic, to which nothing refused is sent: an answer is the moment from
\* which on everyone who was owed the event has it and nobody is sent it any more
\* (router.ex:168-188, room_channel.ex:10-30).
KeepsTopic == Abstract!Spec

\* Under FairSpec: a publisher gets its answer whatever the processor does
\* (router.ex:174, "don't block on success/failure").
PublishAnswered ==
    \A e \in Publishable :
        phase[e] \in {"storing", "broadcasting"} ~> phase[e] \in {"answered", "aborted"}
=============================================================================
