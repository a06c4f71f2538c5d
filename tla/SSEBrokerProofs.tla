-------------------------- MODULE SSEBrokerProofs --------------------------
(***************************************************************************)
(* What holds of the broker for every number of streams, addresses and     *)
(* broadcasts.  A broadcast can meet a closed channel only if the map      *)
(* holds one, so the invariant follows each channel through the map: in it *)
(* from Register to Deregister at most, under its own address, and a range *)
(* loop visits only channels of a map that stands still while it is read.  *)
(* That also brings every change to a stream whose entry is its own.  That *)
(* every open stream is in the map needs in addition that no two handlers  *)
(* have the same address.                                                  *)
(***************************************************************************)
EXTENDS SSEBroker, TLAPS

\* Points at which a handler's channel may be in the map.
Inside == {"hello", "wait", "write", "leave"}

\* An entry is a stream with that address which has not deregistered.
MapOK ==
    \A a \in Addrs : subscribers[a] # NoStream =>
        addr[subscribers[a]] = a /\ spc[subscribers[a]] \in Inside

\* A channel is closed by the last step of its own handler.
ClosedOK == \A s \in Streams : spc[s] # "off" => ~closed[s]

\* While the read lock is held the loop visits channels of the map.
LoopOK ==
    \A b \in Broadcasts : bpc[b] = "hold" => todo[b] \subseteq Channels(subscribers)

\* Only open streams are owed anything.
OwedOK == owed \subseteq Streaming

\* Without reuse of addresses, handlers have their own, and so their own entry.
AddrOK ==
    ~PortReuse => \A s, t \in Streams :
        s # t /\ spc[s] # "off" /\ spc[t] # "off" => addr[s] # addr[t]
EntryOK ==
    ~PortReuse => \A s \in Streams : spc[s] \in Inside => subscribers[addr[s]] = s

\* The update that a stream is owed is in its channel, or in a broadcast that
\* will still visit the channel.
Coming(s) ==
    \/ token[s] \/ spc[s] = "write"
    \/ \E b \in Broadcasts : \/ bpc[b] \in {"spawned", "blocked"}
                             \/ bpc[b] = "hold" /\ s \in todo[b]

\* It is so, with reuse of addresses too, for every stream whose entry has
\* been neither overwritten nor deleted by a stream with the same address.
ComingOK ==
    \A s \in owed \cap Streaming : subscribers[addr[s]] = s => Coming(s)

IInv == TypeOK /\ MapOK /\ ClosedOK /\ LoopOK /\ OwedOK /\ AddrOK /\ EntryOK
          /\ ComingOK

-----------------------------------------------------------------------------
LEMMA InitIInv == Init => IInv
<1> SUFFICES ASSUME Init PROVE IInv
    OBVIOUS
<1>1. TypeOK
    BY DEF Init, TypeOK
<1>2. MapOK /\ ClosedOK /\ LoopOK /\ OwedOK
    BY DEF Init, MapOK, ClosedOK, LoopOK, OwedOK
<1>3. AddrOK /\ EntryOK /\ ComingOK
    BY DEF Init, AddrOK, EntryOK, ComingOK, Coming, Inside
<1> QED
    BY <1>1, <1>2, <1>3 DEF IInv

\* A loop visits no closed channel.
LEMMA LoopOpen == IInv => NoSendOnClosed
<1> SUFFICES ASSUME IInv, NEW b \in Broadcasts, bpc[b] = "hold",
                    NEW s \in Streams, s \in todo[b]
             PROVE  ~closed[s]
    BY DEF NoSendOnClosed, IInv, TypeOK
<1>1. PICK a \in Addrs : subscribers[a] = s /\ s # NoStream
    BY DEF IInv, LoopOK, Channels
<1>2. spc[s] # "off"
    BY <1>1 DEF IInv, MapOK, Inside
<1> QED
    BY <1>2 DEF IInv, ClosedOK

-----------------------------------------------------------------------------
(***************************************************************************)
(* Every step preserves the invariant: one lemma per action, one step per  *)
(* part of the invariant.                                                  *)
(***************************************************************************)
LEMMA ConnectStep ==
    ASSUME IInv, NEW s \in Streams, Connect(s)
    PROVE  IInv'
<1>1. TypeOK'
    BY DEF IInv, TypeOK, Connect, bcast
<1>2. MapOK' /\ ClosedOK'
    BY DEF IInv, TypeOK, MapOK, ClosedOK, Inside, Connect
<1>3. LoopOK'
    BY DEF IInv, LoopOK, Connect, bcast
<1>4. OwedOK'
    BY DEF IInv, OwedOK, Streaming, Connect
<1>5. AddrOK' /\ EntryOK'
    BY DEF IInv, TypeOK, AddrOK, EntryOK, Inside, Connect,
         AddrFree
<1>6. ComingOK'
    BY DEF IInv, ComingOK, Coming, Streaming, Connect,
         bcast
<1> QED
    BY <1>1, <1>2, <1>3, <1>4, <1>5, <1>6 DEF IInv

LEMMA RegisterStep ==
    ASSUME IInv, NEW s \in Streams, Register(s)
    PROVE  IInv'
<1>1. TypeOK'
    BY DEF IInv, TypeOK, Channels, Register, LetReadersIn,
         chan
<1>2. MapOK' /\ ClosedOK'
    BY DEF IInv, TypeOK, MapOK, ClosedOK, Inside, Register,
         chan
<1>3. LoopOK'
    BY DEF LoopOK, Register, NoReader, LetReadersIn
<1>4. OwedOK'
    BY DEF IInv, OwedOK, Streaming, Register
<1>5. AddrOK' /\ EntryOK'
    BY DEF IInv, TypeOK, AddrOK, EntryOK, Inside, Register
<1>6. ComingOK'
    <2> SUFFICES ASSUME NEW t \in (owed \cap Streaming)',
                        subscribers'[addr'[t]] = t
                 PROVE  Coming(t)'
        BY DEF ComingOK
    <2>1. t \in owed \cap Streaming /\ t # s /\ addr' = addr
        BY DEF IInv, OwedOK, Register, Streaming
    <2>2. subscribers[addr[t]] = t /\ addr[t] \in Addrs
        BY <2>1 DEF IInv, TypeOK, Register, Streaming
    <2>3. t \in Channels(subscribers')
        BY <2>1, <2>2, BrokerAssumption DEF Channels, Streaming
    <2>4. token'[t] = token[t] /\ spc'[t] = spc[t]
        BY <2>1 DEF Register, chan
    <2>5. ASSUME NEW b \in Broadcasts, bpc[b] \in {"spawned", "blocked"}
          PROVE  \/ bpc'[b] = "spawned"
                 \/ bpc'[b] = "hold" /\ t \in todo'[b]
        BY <2>3, <2>5 DEF Register, LetReadersIn
    <2>6. Coming(t)
        BY <2>1, <2>2 DEF IInv, ComingOK
    <2> QED
        BY <2>4, <2>5, <2>6 DEF Coming, Register, NoReader
<1> QED
    BY <1>1, <1>2, <1>3, <1>4, <1>5, <1>6 DEF IInv

LEMMA HelloStep ==
    ASSUME IInv, NEW s \in Streams, Hello(s)
    PROVE  IInv'
<1>1. TypeOK'
    BY DEF IInv, TypeOK, Hello, chan, bcast
<1>2. MapOK' /\ ClosedOK'
    BY DEF IInv, MapOK, ClosedOK, Inside, Hello, chan
<1>3. LoopOK'
    BY DEF IInv, LoopOK, Hello, bcast
<1>4. OwedOK'
    BY DEF IInv, OwedOK, Streaming, Hello
<1>5. AddrOK' /\ EntryOK'
    BY DEF IInv, AddrOK, EntryOK, Inside, Hello
<1>6. ComingOK'
    BY DEF IInv, ComingOK, Coming, OwedOK, Hello, chan,
         bcast
<1> QED
    BY <1>1, <1>2, <1>3, <1>4, <1>5, <1>6 DEF IInv

LEMMA ReceiveStep ==
    ASSUME IInv, NEW s \in Streams, Receive(s)
    PROVE  IInv'
<1>1. TypeOK'
    BY DEF IInv, TypeOK, Receive, bcast
<1>2. MapOK' /\ ClosedOK'
    BY DEF IInv, MapOK, ClosedOK, Inside, Receive
<1>3. LoopOK'
    BY DEF IInv, LoopOK, Receive, bcast
<1>4. OwedOK'
    BY DEF IInv, OwedOK, Streaming, Receive
<1>5. AddrOK' /\ EntryOK'
    BY DEF IInv, AddrOK, EntryOK, Inside, Receive
<1>6. ComingOK'
    BY DEF IInv, TypeOK, ComingOK, Coming, OwedOK,
         Receive, bcast
<1> QED
    BY <1>1, <1>2, <1>3, <1>4, <1>5, <1>6 DEF IInv

LEMMA WriteStep ==
    ASSUME IInv, NEW s \in Streams, Write(s)
    PROVE  IInv'
<1>1. TypeOK'
    BY DEF IInv, TypeOK, Write, chan, bcast
<1>2. MapOK' /\ ClosedOK'
    BY DEF IInv, MapOK, ClosedOK, Inside, Write, chan
<1>3. LoopOK'
    BY DEF IInv, LoopOK, Write, bcast
<1>4. OwedOK'
    BY DEF IInv, OwedOK, Streaming, Write
<1>5. AddrOK' /\ EntryOK'
    BY DEF IInv, AddrOK, EntryOK, Inside, Write
<1>6. ComingOK'
    BY DEF IInv, ComingOK, Coming, OwedOK, Write, chan,
         bcast
<1> QED
    BY <1>1, <1>2, <1>3, <1>4, <1>5, <1>6 DEF IInv

LEMMA DisconnectStep ==
    ASSUME IInv, NEW s \in Streams, Disconnect(s)
    PROVE  IInv'
<1>1. TypeOK'
    BY DEF IInv, TypeOK, Disconnect, chan, bcast
<1>2. MapOK' /\ ClosedOK'
    BY DEF IInv, MapOK, ClosedOK, Disconnect, chan
<1>3. LoopOK'
    BY DEF IInv, LoopOK, Disconnect, bcast
<1>4. OwedOK'
    BY DEF IInv, OwedOK, Streaming, Disconnect
<1>5. AddrOK' /\ EntryOK'
    BY DEF IInv, AddrOK, EntryOK, Disconnect
<1>6. ComingOK'
    BY DEF IInv, ComingOK, Coming, OwedOK, Disconnect,
         chan, bcast
<1> QED
    BY <1>1, <1>2, <1>3, <1>4, <1>5, <1>6 DEF IInv

LEMMA DoneStep ==
    ASSUME IInv, NEW s \in Streams, Done(s)
    PROVE  IInv'
<1>1. TypeOK'
    BY DEF IInv, TypeOK, Done, chan, bcast
<1>2. MapOK' /\ ClosedOK'
    BY DEF IInv, MapOK, ClosedOK, Inside, Done, chan
<1>3. LoopOK'
    BY DEF IInv, LoopOK, Done, bcast
<1>4. OwedOK'
    BY DEF IInv, OwedOK, Streaming, Done
<1>5. AddrOK' /\ EntryOK'
    BY DEF IInv, AddrOK, EntryOK, Inside, Done
<1>6. ComingOK'
    BY DEF IInv, ComingOK, Coming, OwedOK, Done, chan,
         bcast
<1> QED
    BY <1>1, <1>2, <1>3, <1>4, <1>5, <1>6 DEF IInv

LEMMA DeregisterStep ==
    ASSUME IInv, NEW s \in Streams, Deregister(s)
    PROVE  IInv'
<1>1. TypeOK'
    BY DEF IInv, TypeOK, Channels, Deregister, Without,
         LetReadersIn, chan
<1>2. MapOK' /\ ClosedOK'
    BY DEF IInv, TypeOK, MapOK, ClosedOK, Deregister,
         Without, chan
<1>3. LoopOK'
    BY DEF LoopOK, Deregister, NoReader, LetReadersIn
<1>4. OwedOK'
    BY DEF IInv, OwedOK, Streaming, Deregister
<1>5. AddrOK' /\ EntryOK'
    BY DEF IInv, TypeOK, AddrOK, EntryOK, Inside, Deregister,
         Without
<1>6. ComingOK'
    <2> SUFFICES ASSUME NEW t \in (owed \cap Streaming)',
                        subscribers'[addr'[t]] = t
                 PROVE  Coming(t)'
        BY DEF ComingOK
    <2>1. t \in owed \cap Streaming /\ t # s /\ addr' = addr
        BY DEF IInv, OwedOK, Deregister, Streaming
    <2>2. subscribers[addr[t]] = t /\ addr[t] \in Addrs
        BY <2>1, BrokerAssumption DEF IInv, TypeOK, Deregister, Without,
             Streaming
    <2>3. t \in Channels(subscribers')
        BY <2>1, <2>2, BrokerAssumption DEF Channels, Streaming
    <2>4. token'[t] = token[t] /\ spc'[t] = spc[t]
        BY <2>1 DEF Deregister, chan
    <2>5. ASSUME NEW b \in Broadcasts, bpc[b] \in {"spawned", "blocked"}
          PROVE  \/ bpc'[b] = "spawned"
                 \/ bpc'[b] = "hold" /\ t \in todo'[b]
        BY <2>3, <2>5 DEF Deregister, LetReadersIn
    <2>6. Coming(t)
        BY <2>1, <2>2 DEF IInv, ComingOK
    <2> QED
        BY <2>4, <2>5, <2>6 DEF Coming, Deregister, NoReader
<1> QED
    BY <1>1, <1>2, <1>3, <1>4, <1>5, <1>6 DEF IInv

LEMMA CloseStep ==
    ASSUME IInv, NEW s \in Streams, Close(s)
    PROVE  IInv'
<1>1. TypeOK'
    BY BrokerAssumption DEF IInv, TypeOK, Close, bcast
<1>2. MapOK' /\ ClosedOK'
    BY DEF IInv, TypeOK, MapOK, ClosedOK, Inside, Close
<1>3. LoopOK'
    BY DEF IInv, LoopOK, Close, bcast
<1>4. OwedOK'
    BY DEF IInv, OwedOK, Streaming, Close
<1>5. AddrOK' /\ EntryOK'
    BY DEF IInv, AddrOK, EntryOK, Inside, Close
<1>6. ComingOK'
    BY DEF IInv, ComingOK, Coming, OwedOK, Close, bcast
<1> QED
    BY <1>1, <1>2, <1>3, <1>4, <1>5, <1>6 DEF IInv

LEMMA SpawnStep ==
    ASSUME IInv, NEW b \in Broadcasts, Spawn(b)
    PROVE  IInv'
<1>1. TypeOK'
    BY DEF IInv, TypeOK, Streaming, Spawn, chan, stream
<1>2. MapOK' /\ ClosedOK'
    BY DEF IInv, MapOK, ClosedOK, Spawn, chan, stream
<1>3. LoopOK'
    BY DEF IInv, LoopOK, Spawn
<1>4. OwedOK'
    BY DEF IInv, OwedOK, Streaming, Spawn, stream
<1>5. AddrOK' /\ EntryOK'
    BY DEF IInv, AddrOK, EntryOK, Spawn, stream
<1>6. ComingOK'
    BY DEF IInv, TypeOK, ComingOK, Coming, Spawn
<1> QED
    BY <1>1, <1>2, <1>3, <1>4, <1>5, <1>6 DEF IInv

LEMMA RLockStep ==
    ASSUME IInv, NEW b \in Broadcasts, RLock(b)
    PROVE  IInv'
<1>1. TypeOK'
    BY DEF IInv, TypeOK, Channels, RLock, chan, stream
<1>2. MapOK' /\ ClosedOK'
    BY DEF IInv, MapOK, ClosedOK, RLock, chan, stream
<1>3. LoopOK'
    BY DEF IInv, TypeOK, LoopOK, RLock
<1>4. OwedOK'
    BY DEF IInv, OwedOK, Streaming, RLock, stream
<1>5. AddrOK' /\ EntryOK'
    BY DEF IInv, AddrOK, EntryOK, RLock, stream
<1>6. ComingOK'
    <2> SUFFICES ASSUME NEW t \in owed \cap Streaming, subscribers[addr[t]] = t
                 PROVE  Coming(t)'
        BY DEF ComingOK, Streaming, RLock, stream
    <2>1. t \in Channels(subscribers)
        BY BrokerAssumption DEF IInv, TypeOK, Channels, Streaming
    <2>2. Coming(t)
        BY DEF IInv, ComingOK
    <2> QED
        BY <2>1, <2>2 DEF IInv, TypeOK, Coming, RLock, chan, stream
<1> QED
    BY <1>1, <1>2, <1>3, <1>4, <1>5, <1>6 DEF IInv

LEMMA SendStep ==
    ASSUME IInv, NEW b \in Broadcasts, NEW s \in Streams, Send(b, s)
    PROVE  IInv'
<1>1. TypeOK'
    <2>1. token' \in [Streams -> BOOLEAN]
        BY Zenon DEF IInv, TypeOK, Send, Buffered
    <2> QED
        BY <2>1 DEF IInv, TypeOK, Send, stream
<1>2. MapOK' /\ ClosedOK'
    BY DEF IInv, MapOK, ClosedOK, Send, stream
<1>3. LoopOK'
    BY DEF IInv, TypeOK, LoopOK, Send
<1>4. OwedOK'
    BY DEF IInv, OwedOK, Streaming, Send, stream
<1>5. AddrOK' /\ EntryOK'
    BY DEF IInv, AddrOK, EntryOK, Send, stream
<1>6. ComingOK'
    BY LoopOpen DEF IInv, TypeOK, ComingOK, Coming, OwedOK,
         NoSendOnClosed, Send, Buffered, stream
<1> QED
    BY <1>1, <1>2, <1>3, <1>4, <1>5, <1>6 DEF IInv

LEMMA RUnlockStep ==
    ASSUME IInv, NEW b \in Broadcasts, RUnlock(b)
    PROVE  IInv'
<1>1. TypeOK'
    BY DEF IInv, TypeOK, RUnlock, chan, stream
<1>2. MapOK' /\ ClosedOK'
    BY BrokerAssumption DEF IInv, MapOK, ClosedOK, RUnlock, chan, stream
<1>3. LoopOK'
    BY DEF IInv, LoopOK, RUnlock
<1>4. OwedOK'
    BY DEF IInv, OwedOK, Streaming, RUnlock, stream
<1>5. AddrOK' /\ EntryOK'
    BY DEF IInv, AddrOK, EntryOK, RUnlock, stream
<1>6. ComingOK'
    BY DEF IInv, ComingOK, Coming, OwedOK, RUnlock,
         chan, stream
<1> QED
    BY <1>1, <1>2, <1>3, <1>4, <1>5, <1>6 DEF IInv

LEMMA StutterStep ==
    ASSUME IInv, UNCHANGED vars
    PROVE  IInv'
<1>1. TypeOK'
    BY DEF IInv, TypeOK, vars, chan, stream, bcast
<1>2. MapOK' /\ ClosedOK'
    BY DEF IInv, MapOK, ClosedOK, vars, chan, stream
<1>3. LoopOK'
    BY DEF IInv, LoopOK, vars, bcast
<1>4. OwedOK'
    BY DEF IInv, OwedOK, Streaming, vars, stream
<1>5. AddrOK' /\ EntryOK'
    BY DEF IInv, AddrOK, EntryOK, vars, stream
<1>6. ComingOK'
    BY DEF IInv, ComingOK, Coming, OwedOK, vars, chan,
         stream, bcast
<1> QED
    BY <1>1, <1>2, <1>3, <1>4, <1>5, <1>6 DEF IInv

LEMMA StepIInv == IInv /\ [Next]_vars => IInv'
<1> SUFFICES ASSUME IInv, [Next]_vars PROVE IInv'
    OBVIOUS
<1>1. ASSUME NEW s \in Streams, Connect(s) \/ Disconnect(s) \/ Handler(s)
      PROVE  IInv'
    BY <1>1, ConnectStep, DisconnectStep, RegisterStep, HelloStep,
         ReceiveStep, WriteStep, DoneStep, DeregisterStep, CloseStep DEF
         Handler
<1>2. ASSUME NEW b \in Broadcasts, Spawn(b) \/ Broadcaster(b) PROVE IInv'
    BY <1>2, SpawnStep, RLockStep, SendStep, RUnlockStep DEF Broadcaster
<1>3. CASE UNCHANGED vars
    BY <1>3, StutterStep
<1> QED
    BY <1>1, <1>2, <1>3 DEF Next

THEOREM Invariance == Spec => []IInv
<1> QED
    BY InitIInv, StepIInv, PTL DEF Spec

\* Every variable keeps its type.
THEOREM TypeCorrect == Spec => []TypeOK
<1>1. IInv => TypeOK
    BY DEF IInv
<1> QED
    BY <1>1, Invariance, PTL

\* No broadcast ever sends on a closed channel, whatever addresses collide.
THEOREM NeverSendsOnClosed == Spec => []NoSendOnClosed
<1> QED
    BY LoopOpen, Invariance, PTL

\* Where no address is reused before its handler returned, every open stream
\* is in the map: the collision is the only way to lose a subscription.
THEOREM SubscribedWithoutReuse == Spec => [](~PortReuse => EveryStreamSubscribed)
<1>1. IInv => (~PortReuse => EveryStreamSubscribed)
    BY DEF IInv, EntryOK, EveryStreamSubscribed, Streaming, Inside
<1> QED
    BY <1>1, Invariance, PTL

\* No announced change is lost on its way to a stream that is still in the map,
\* however full its channel was and whatever happened to the other streams.
THEOREM NothingLostWhileSubscribed ==
    Spec => [](\A s \in owed \cap Streaming : subscribers[addr[s]] = s => Coming(s))
<1>1. IInv => \A s \in owed \cap Streaming : subscribers[addr[s]] = s => Coming(s)
    BY DEF IInv, ComingOK
<1> QED
    BY <1>1, Invariance, PTL

\* And without reuse no announced change is lost on its way to any open stream.
THEOREM NothingLostWithoutReuse == Spec => [](~PortReuse => OwedIsComing)
<1>1. IInv => (~PortReuse => OwedIsComing)
    BY DEF IInv, ComingOK, EntryOK, OwedIsComing, Coming, Streaming, Inside
<1> QED
    BY <1>1, Invariance, PTL
-----------------------------------------------------------------------------
(***************************************************************************)
(* The lock.                                                               *)
(***************************************************************************)

\* A reader is kept out only by a writer that waits or is at work.
BlockedOK == (\E b \in Broadcasts : bpc[b] = "blocked") => Waiting # {}

LEMMA BlockedKept ==
    ASSUME TypeOK, BlockedOK, [Next]_vars
    PROVE  BlockedOK'
<1> USE DEF Waiting
\* A writer that unlocks lets every blocked reader in.
<1>1. ASSUME NEW s \in Streams, Register(s) \/ Deregister(s) PROVE BlockedOK'
    <2>1. \A b \in Broadcasts : bpc'[b] # "blocked"
        BY <1>1 DEF Register, Deregister, LetReadersIn
    <2> QED
        BY <2>1 DEF BlockedOK
<1>2. ASSUME NEW s \in Streams,
             \/ Connect(s) \/ Disconnect(s) \/ Hello(s) \/ Receive(s) \/ Write(s)
             \/ Done(s) \/ Close(s)
      PROVE  BlockedOK'
    <2>1. bpc' = bpc
        BY <1>2 DEF Connect, Disconnect, Hello, Receive, Write, Done, Close, bcast
    <2>2. \A t \in Streams : spc[t] \in {"register", "leave"} => spc'[t] = spc[t]
        BY <1>2 DEF Connect, Disconnect, Hello, Receive, Write, Done, Close, TypeOK
    <2> QED
        BY <2>1, <2>2 DEF BlockedOK
\* A reader is blocked only when a writer waits.
<1>3. ASSUME NEW b \in Broadcasts, RLock(b) PROVE BlockedOK'
    <2>1. spc' = spc
        BY <1>3 DEF RLock, stream
    <2>2. CASE Waiting # {}
        BY <2>1, <2>2 DEF BlockedOK
    <2>3. CASE Waiting = {}
        <3>1. bpc' = [bpc EXCEPT ![b] = "hold"]
            BY <1>3, <2>3 DEF RLock
        <3>2. \A c \in Broadcasts : bpc'[c] = "blocked" => bpc[c] = "blocked"
            BY <3>1 DEF TypeOK
        <3> QED
            BY <2>1, <2>3, <3>2 DEF BlockedOK
    <2> QED
        BY <2>2, <2>3
<1>4. ASSUME NEW b \in Broadcasts,
             Spawn(b) \/ RUnlock(b) \/ \E s \in Streams : Send(b, s)
      PROVE  BlockedOK'
    <2>1. spc' = spc
        BY <1>4 DEF Spawn, RUnlock, Send, stream
    <2>2. \A c \in Broadcasts : bpc'[c] = "blocked" => bpc[c] = "blocked"
        BY <1>4 DEF Spawn, RUnlock, Send, TypeOK
    <2> QED
        BY <2>1, <2>2 DEF BlockedOK
<1>5. CASE UNCHANGED vars
    BY <1>5 DEF vars, stream, bcast, BlockedOK
<1> QED
    BY <1>1, <1>2, <1>3, <1>4, <1>5 DEF Next, Handler, Broadcaster

\* The lock of the broker is never waited for in a circle.
THEOREM LockAlwaysMoves == Spec => []LockMoves
<1>1. Init => BlockedOK
    BY DEF Init, BlockedOK
<1>2. TypeOK /\ BlockedOK /\ [Next]_vars => BlockedOK'
    BY BlockedKept
<1>3. BlockedOK => LockMoves
    BY DEF BlockedOK, LockMoves, NoReader, SendReady
<1> QED
    BY <1>1, <1>2, <1>3, TypeCorrect, PTL DEF Spec
=============================================================================
