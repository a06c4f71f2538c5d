----------------------------- MODULE SSEBroker -----------------------------
(***************************************************************************)
(* The live-update broker: a map from remote addresses to channels of      *)
(* capacity one behind a sync.RWMutex, one handler goroutine per open      *)
(* event stream, and one goroutine per call of Broadcast.                  *)
(*                                                                         *)
(* The lock is Go's: a writer that waits keeps new readers out, and the    *)
(* readers that queued meanwhile are let in when the writer unlocks,       *)
(* before the next writer.                                                 *)
(***************************************************************************)
EXTENDS Naturals, FiniteSets

CONSTANTS
    Streams,     \* GET /api/events requests, each with its goroutine
    Addrs,       \* values of r.RemoteAddr
    Broadcasts,  \* goroutines that Broadcast started
    NoStream,    \* the map has no entry
    PortReuse    \* may a client come back with the address of a stream that
                 \* it dropped and whose handler has not returned yet?

ASSUME BrokerAssumption == NoStream \notin Streams /\ PortReuse \in BOOLEAN

VARIABLES
    subscribers, \* [Addrs -> the stream whose channel is in the map]
    token,       \* [Streams -> is there a value in the channel]
    closed,      \* [Streams -> has the channel been closed]
    spc,         \* [Streams -> where the handler is]
    addr,        \* [Streams -> r.RemoteAddr]
    alive,       \* [Streams -> is the client connected (context not done)]
    bpc,         \* [Broadcasts -> "idle", "spawned", "blocked", "hold"]
    todo,        \* [Broadcasts -> channels the range loop still visits]
    owed         \* history: streams that were open when Broadcast was called
                 \* and got no update since

stream == <<spc, addr, alive>>
bcast  == <<bpc, todo>>
chan   == <<token, closed>>
vars   == <<subscribers, chan, stream, bcast, owed>>

\* A handler between its two critical sections: the client sees a stream.
Streaming == {s \in Streams : spc[s] \in {"hello", "wait", "write"}}
Waiting   == {s \in Streams : spc[s] \in {"register", "leave"}}
NoReader  == \A b \in Broadcasts : bpc[b] # "hold"

Channels(map) == {map[a] : a \in Addrs} \ {NoStream}

Init ==
    /\ subscribers = [a \in Addrs |-> NoStream]
    /\ token = [s \in Streams |-> FALSE]
    /\ closed = [s \in Streams |-> FALSE]
    /\ spc = [s \in Streams |-> "off"]
    /\ addr \in [Streams -> Addrs]
    /\ alive = [s \in Streams |-> FALSE]
    /\ bpc = [b \in Broadcasts |-> "idle"]
    /\ todo = [b \in Broadcasts |-> {}]
    /\ owed = {}

(***************************************************************************)
(* The streams.                                                            *)
(***************************************************************************)
\* Two requests share an address only if the first one's client is gone.
AddrFree(s, a) ==
    \A t \in Streams \ {s} :
        spc[t] # "off" /\ addr[t] = a => PortReuse /\ ~alive[t]

\* The client connects and the handler makes its channel and calls Lock.
Connect(s) ==
    /\ spc[s] = "off"
    /\ \E a \in Addrs : AddrFree(s, a) /\ addr' = [addr EXCEPT ![s] = a]
    /\ spc' = [spc EXCEPT ![s] = "register"]
    /\ alive' = [alive EXCEPT ![s] = TRUE]
    /\ token' = [token EXCEPT ![s] = FALSE]
    /\ closed' = [closed EXCEPT ![s] = FALSE]
    /\ UNCHANGED <<subscribers, bcast, owed>>

\* Unlock: the readers that queued behind this writer get the lock.
LetReadersIn(map) ==
    /\ bpc' = [b \in Broadcasts |->
                 IF bpc[b] = "blocked" THEN "hold" ELSE bpc[b]]
    /\ todo' = [b \in Broadcasts |->
                 IF bpc[b] = "blocked" THEN Channels(map) ELSE todo[b]]

Register(s) ==
    /\ spc[s] = "register" /\ NoReader
    /\ subscribers' = [subscribers EXCEPT ![addr[s]] = s]
    /\ LetReadersIn(subscribers')
    /\ spc' = [spc EXCEPT ![s] = "hello"]
    /\ UNCHANGED <<chan, addr, alive, owed>>

\* The headers and "event: connected" reach the client.
Hello(s) ==
    /\ spc[s] = "hello"
    /\ spc' = [spc EXCEPT ![s] = "wait"]
    /\ UNCHANGED <<subscribers, chan, addr, alive, bcast, owed>>

\* case <-ch
Receive(s) ==
    /\ spc[s] = "wait" /\ token[s]
    /\ token' = [token EXCEPT ![s] = FALSE]
    /\ spc' = [spc EXCEPT ![s] = "write"]
    /\ UNCHANGED <<subscribers, closed, addr, alive, bcast, owed>>

\* "data: update" is written and flushed; a write to a dead client is dropped.
Write(s) ==
    /\ spc[s] = "write"
    /\ spc' = [spc EXCEPT ![s] = "wait"]
    /\ owed' = owed \ {s}
    /\ UNCHANGED <<subscribers, chan, addr, alive, bcast>>

\* The client closes the stream, or its machine goes away.
Disconnect(s) ==
    /\ spc[s] # "off" /\ alive[s]
    /\ alive' = [alive EXCEPT ![s] = FALSE]
    /\ UNCHANGED <<subscribers, chan, spc, addr, bcast, owed>>

\* case <-r.Context().Done(): the deferred function calls Lock.
Done(s) ==
    /\ spc[s] = "wait" /\ ~alive[s]
    /\ spc' = [spc EXCEPT ![s] = "leave"]
    /\ owed' = owed \ {s}
    /\ UNCHANGED <<subscribers, chan, addr, alive, bcast>>

\* Mutation: the address leaves the map's domain, and later entries with it.
Forgotten(s) == [a \in Addrs \ {addr[s]} |-> subscribers[a]]

\* Mutation: the channel is closed but stays in the map.
Kept(s) == subscribers

\* delete(b.subscribers, id) goes by the address, whoever's channel it holds.
Without(s) == [subscribers EXCEPT ![addr[s]] = NoStream]

Deregister(s) ==
    /\ spc[s] = "leave" /\ NoReader
    /\ subscribers' = Without(s)
    /\ LetReadersIn(subscribers')
    /\ spc' = [spc EXCEPT ![s] = "close"]
    /\ UNCHANGED <<chan, addr, alive, owed>>

Close(s) ==
    /\ spc[s] = "close"
    /\ closed' = [closed EXCEPT ![s] = TRUE]
    /\ spc' = [spc EXCEPT ![s] = "off"]
    /\ UNCHANGED <<subscribers, token, addr, alive, bcast, owed>>

(***************************************************************************)
(* The broadcasts.                                                         *)
(***************************************************************************)
\* A handler calls Broadcast, which starts a goroutine and returns.
Spawn(b) ==
    /\ bpc[b] = "idle"
    /\ bpc' = [bpc EXCEPT ![b] = "spawned"]
    /\ owed' = owed \cup {s \in Streaming : alive[s]}
    /\ UNCHANGED <<subscribers, chan, stream, todo>>

RLock(b) ==
    /\ bpc[b] = "spawned"
    /\ IF Waiting = {}
       THEN /\ bpc' = [bpc EXCEPT ![b] = "hold"]
            /\ todo' = [todo EXCEPT ![b] = Channels(subscribers)]
       ELSE /\ bpc' = [bpc EXCEPT ![b] = "blocked"]
            /\ UNCHANGED todo
    /\ UNCHANGED <<subscribers, chan, stream, owed>>

\* Mutation: a plain send, which waits while the channel is full.
SendWaits(s) == ~token[s]

\* select with a default: a full channel is passed over.
SendReady(s) == TRUE

\* Mutation: no buffer, so a handler that is writing misses the value.
Unbuffered(s) == token[s] \/ spc[s] = "wait"

\* make(chan struct{}, 1): the value waits for the handler.
Buffered(s) == TRUE

\* A send on a closed channel would panic; Broadcast recovers, and the deferred
\* RUnlock runs.
Send(b, s) ==
    /\ bpc[b] = "hold" /\ s \in todo[b]
    /\ SendReady(s)
    /\ IF closed[s]
       THEN /\ bpc' = [bpc EXCEPT ![b] = "idle"]
            /\ todo' = [todo EXCEPT ![b] = {}]
            /\ UNCHANGED token
       ELSE /\ token' = [token EXCEPT ![s] = Buffered(s)]
            /\ todo' = [todo EXCEPT ![b] = @ \ {s}]
            /\ UNCHANGED bpc
    /\ UNCHANGED <<subscribers, closed, stream, owed>>

RUnlock(b) ==
    /\ bpc[b] = "hold" /\ todo[b] = {}
    /\ bpc' = [bpc EXCEPT ![b] = "idle"]
    /\ UNCHANGED <<subscribers, chan, stream, todo, owed>>

Handler(s) == Register(s) \/ Hello(s) \/ Receive(s) \/ Write(s) \/ Done(s)
              \/ Deregister(s) \/ Close(s)
Broadcaster(b) == RLock(b) \/ (\E s \in Streams : Send(b, s)) \/ RUnlock(b)

Next ==
    \/ \E s \in Streams : Connect(s) \/ Disconnect(s) \/ Handler(s)
    \/ \E b \in Broadcasts : Spawn(b) \/ Broadcaster(b)

Spec == Init /\ [][Next]_vars

\* Goroutines are scheduled, Go's RWMutex starves nobody, select takes a
\* ready case at random, and a write to a dead client returns.  Nothing is
\* said of clients that are connected and do not read.
Fairness ==
    /\ \A s \in Streams :
          /\ SF_vars(Register(s)) /\ SF_vars(Deregister(s)) /\ SF_vars(Done(s))
          /\ WF_vars(Receive(s)) /\ WF_vars(Close(s))
          /\ WF_vars(~alive[s] /\ (Hello(s) \/ Write(s)))
    /\ \A b \in Broadcasts : WF_vars(Broadcaster(b))

FairSpec == Spec /\ Fairness

\* Clients that stay connected also take what is written to them.
ReadingSpec ==
    FairSpec /\ \A s \in Streams : WF_vars(Hello(s)) /\ WF_vars(Write(s))

(***************************************************************************)
(* Properties.                                                             *)
(***************************************************************************)
TypeOK ==
    /\ subscribers \in [Addrs -> Streams \cup {NoStream}]
    /\ token \in [Streams -> BOOLEAN] /\ closed \in [Streams -> BOOLEAN]
    /\ spc \in [Streams -> {"off", "register", "hello", "wait", "write",
                            "leave", "close"}]
    /\ addr \in [Streams -> Addrs] /\ alive \in [Streams -> BOOLEAN]
    /\ bpc \in [Broadcasts -> {"idle", "spawned", "blocked", "hold"}]
    /\ todo \in [Broadcasts -> SUBSET Streams]
    /\ owed \subseteq Streams

\* No broadcast is ever about to send on a closed channel, not even when
\* streams overwrite and delete each other's entry of the map: the recover in
\* sse.go has nothing to catch.
NoSendOnClosed ==
    \A b \in Broadcasts : bpc[b] = "hold" => \A s \in todo[b] : ~closed[s]

\* A stream that was open when a change was announced has the update coming:
\* in its channel, or in a broadcast that will still visit the channel.
\* Passing over a full channel loses nothing.
OwedIsComing ==
    \A s \in owed \cap Streaming :
        \/ token[s] \/ spc[s] = "write"
        \/ \E b \in Broadcasts : \/ bpc[b] \in {"spawned", "blocked"}
                                 \/ bpc[b] = "hold" /\ s \in todo[b]

\* Whoever waits for the lock waits for somebody who can move: a broadcast that
\* holds it and has a send that does not wait, or is done, or the first of the
\* writers when no broadcast holds it.  No circle of waiting can form, whatever
\* the clients do (the select with a default in sse_broker.go).
LockMoves ==
    Waiting # {} \/ (\E b \in Broadcasts : bpc[b] = "blocked") =>
        \/ NoReader /\ Waiting # {}
        \/ \E b \in Broadcasts :
              bpc[b] = "hold" /\ (todo[b] = {} \/ \E s \in todo[b] : SendReady(s))

\* No handler hangs: a client that stops reading, or a burst of changes, keeps
\* no new tab from subscribing, and the handler of a client that left returns,
\* so that no goroutine is leaked.
HandlersMove ==
    \A s \in Streams :
        /\ spc[s] = "register" ~> spc[s] # "register"
        /\ spc[s] # "off" /\ ~alive[s] ~> spc[s] = "off"

\* A client that stops reading never holds up a broadcast.
BroadcastsEnd ==
    \A b \in Broadcasts : bpc[b] = "spawned" ~> bpc[b] = "idle"

\* Every change reaches every tab that reads, or the tab is gone.
UpdatesArrive == \A s \in Streams : s \in owed ~> s \notin owed

\* "Broadcast triggers an SSE event to all connected clients" (sse.go:10): a stream
\* whose client is still there and whose handler has registered it is in the map.
EveryStreamSubscribed ==
    \A s \in Streaming : alive[s] => subscribers[addr[s]] = s
=============================================================================
