----------------------------- MODULE AdminStream -----------------------------
(***************************************************************************)
(* The admin event feed: a bounded channel and its drainer (AdminEventBus),*)
(* a capped Redis stream, one XREAD loop per pod (Subscriber), the hub that*)
(* fans out to the connected clients (Hub), the SSE handler of each        *)
(* connection (Handler), and the shutdown that ends them all.              *)
(*                                                                         *)
(* An event is its id in the Redis stream; the marker stream_truncated has *)
(* the id "0-0", here 0, and the retry hint has none. Each connection has a*)
(* Client of its own; a reconnecting EventSource is a new connection that  *)
(* sends the last id it received.                                          *)
(***************************************************************************)
EXTENDS Integers, Sequences, FiniteSets

CONSTANTS Conns,              \* the connections
          BusCapacity,        \* of the bus's channel
          StreamMaxLen,       \* of the Redis stream: trimming leaves at least these
          ReadCount,          \* XREAD COUNT
          RegisterCapacity,   \* of the channels register and unregister
          BroadcastCapacity,  \* of the channel broadcast
          SendCapacity,       \* of each Client.Send
          ReplayMaxCount,
          MaxConsecFailures,
          MaxEvents,          \* how many entries the stream ever has (a bound)
          MaxFailedCalls      \* how many calls of Redis fail, or are late (a bound)

ASSUME AdminStreamAssumption ==
    /\ {BusCapacity, StreamMaxLen, ReadCount, RegisterCapacity, BroadcastCapacity,
        SendCapacity, ReplayMaxCount, MaxConsecFailures} \subseteq Nat \ {0}
    /\ MaxEvents \in Nat
    /\ MaxFailedCalls \in Nat

VARIABLES queued,      \* how many events the bus's channel holds
          drainer,     \* "running", "draining" after the cancel, "done"
          added,       \* the last id of the Redis stream
          first,       \* the oldest id it still has
          sub,         \* the subscriber: "idle", "blocked" in XREAD, "casting", "done"
          lastID,      \* its last id; Latest is "$"
          from,        \* what the pending XREAD reads after
          batch,       \* what XREAD returned and Broadcast has not taken
          fails,       \* consecFails
          hub,         \* "running", "stopped"
          clients,     \* the hub's map
          register, unregister, broadcast,   \* its channels
          send,        \* [Conns -> Seq(Messages)]: the buffer of Client.Send
          closed,      \* the clients whose Send is closed
          conn,        \* [Conns -> ConnStates]
          resume,      \* [Conns -> Ids]: Last-Event-ID; Latest without one
          replayed,    \* [Conns -> Seq]: what replayHistory wrote
          live,        \* [Conns -> Seq]: what the writer loop wrote, after that
          life,        \* of the process, see Lives
          allowed,     \* the failures that may still happen
          owed         \* history, [Conns -> Seq]: what the hub took from broadcast
                       \* since the client was in the map, until the handler ends

busVars == <<queued, drainer>>
streamVars == <<added, first>>
subVars == <<sub, lastID, from, batch, fails>>
hubVars == <<hub, clients, closed>>
chanVars == <<register, unregister, broadcast>>
wireVars == <<resume, replayed, live>>
connVars == <<conn, wireVars>>
feedVars == <<busVars, streamVars, subVars, hubVars, chanVars, send, connVars, life, allowed, owed>>

Hint == -1      \* the message _retry_hint
Latest == -1    \* no Last-Event-ID, and XREAD's "$"
Truncated == 0  \* the id "0-0" of stream_truncated

Ids == -1..MaxEvents
ConnStates == {"new", "registering", "opening", "probing", "streaming", "leaving", "gone"}
Lives == {"up", "asked", "rejecting", "cancelled", "stopped"}

\* runCtx is cancelled.
Cancelled == life \in {"cancelled", "stopped"}

FeedTypeOK ==
    /\ queued \in 0..BusCapacity
    /\ drainer \in {"running", "draining", "done"}
    /\ added \in 0..MaxEvents /\ first \in 1..MaxEvents + 1
    /\ sub \in {"idle", "blocked", "casting", "done"}
    /\ lastID \in Ids /\ from \in Ids
    /\ batch \in Seq(Ids)
    /\ fails \in 0..MaxConsecFailures
    /\ hub \in {"running", "stopped"}
    /\ clients \subseteq Conns /\ closed \subseteq Conns
    /\ register \in Seq(Conns) /\ Len(register) <= RegisterCapacity
    /\ unregister \in Seq(Conns) /\ Len(unregister) <= RegisterCapacity
    /\ broadcast \in Seq(Ids) /\ Len(broadcast) <= BroadcastCapacity
    /\ send \in [Conns -> Seq(Ids)]
    /\ \A c \in Conns : Len(send[c]) <= SendCapacity
    /\ conn \in [Conns -> ConnStates]
    /\ resume \in [Conns -> Ids]
    /\ replayed \in [Conns -> Seq(Ids)] /\ live \in [Conns -> Seq(Ids)]
    /\ life \in Lives
    /\ allowed \in 0..MaxFailedCalls
    /\ owed \in [Conns -> Seq(Ids)]

\* A process starts on the stream that is there.
FeedInit ==
    /\ queued = 0 /\ drainer = "running"
    /\ added \in 0..MaxEvents
    /\ first \in 1..added + 1 /\ (first = 1 \/ first <= added - StreamMaxLen + 1)
    /\ sub = "idle" /\ lastID = Latest /\ from = Latest /\ batch = <<>> /\ fails = 0
    /\ hub = "running" /\ clients = {} /\ closed = {}
    /\ register = <<>> /\ unregister = <<>> /\ broadcast = <<>>
    /\ send = [c \in Conns |-> <<>>]
    /\ conn = [c \in Conns |-> "new"]
    /\ resume = [c \in Conns |-> Latest]
    /\ replayed = [c \in Conns |-> <<>>] /\ live = [c \in Conns |-> <<>>]
    /\ life = "up"
    /\ allowed = MaxFailedCalls
    /\ owed = [c \in Conns |-> <<>>]

\* A call of Redis fails, or a deadline passes.
CallFails == allowed > 0 /\ allowed' = allowed - 1

-----------------------------------------------------------------------------
(* AdminEventBus *)

BusFull == queued = BusCapacity

\* Publish never blocks: it drops the event when the channel is full.
Publish ==
    /\ added + queued < MaxEvents
    /\ queued' = IF BusFull THEN queued ELSE queued + 1
    /\ UNCHANGED <<drainer, streamVars, subVars, hubVars, chanVars, send, connVars,
                   life, allowed, owed>>

\* XADD MAXLEN ~: trimming is approximate, it may leave more.
Add ==
    /\ added' = added + 1
    /\ \E f \in first..MaxEvents :
        /\ f = first \/ f <= added' - StreamMaxLen + 1
        /\ first' = f

\* xadd: an event whose XADD fails is not tried again.
XAdd ==
    \/ Add /\ UNCHANGED allowed
    \/ CallFails /\ (Add \/ UNCHANGED streamVars)

\* Run and drainOnShutdown: take an event from the channel and add it. The
\* select may still pick an event after the cancel; its XADD then fails.
DrainBus ==
    /\ drainer \in {"running", "draining"}
    /\ queued > 0
    /\ queued' = queued - 1
    /\ IF drainer = "running" /\ Cancelled
       THEN UNCHANGED <<streamVars, allowed>> /\ drainer' = "draining"
       ELSE XAdd /\ UNCHANGED drainer
    /\ UNCHANGED <<subVars, hubVars, chanVars, send, connVars, life, owed>>

\* Run sees the cancel; drainOnShutdown ends when the channel is empty or its
\* own deadline has passed.
DrainerStop ==
    /\ \/ drainer = "running" /\ Cancelled /\ drainer' = "draining" /\ UNCHANGED allowed
       \/ drainer = "draining" /\ queued = 0 /\ drainer' = "done" /\ UNCHANGED allowed
       \/ drainer = "draining" /\ CallFails /\ drainer' = "done"
    /\ UNCHANGED <<queued, streamVars, subVars, hubVars, chanVars, send, connVars, life, owed>>

-----------------------------------------------------------------------------
(* Subscriber.Run *)

\* XREAD BLOCK: "$" means what is added after this call.
StartRead ==
    /\ sub = "idle"
    /\ IF Cancelled THEN sub' = "done" /\ UNCHANGED from
       ELSE sub' = "blocked" /\ from' = IF lastID = Latest THEN added ELSE lastID
    /\ UNCHANGED <<lastID, batch, fails, busVars, streamVars, hubVars, chanVars, send,
                   connVars, life, allowed, owed>>

\* The entries after id that the stream still has, at most n of them.
Entries(id, n) ==
    LET lo == IF id < first THEN first ELSE id + 1
        hi == IF added - lo + 1 > n THEN lo + n - 1 ELSE added
    IN [i \in 1..(hi - lo + 1) |-> lo + i - 1]

\* XREAD returns entries, or nothing in time, or the cancel.
EndRead ==
    /\ sub = "blocked"
    /\ \/ /\ ~Cancelled
          /\ batch' = Entries(from, ReadCount)
          /\ sub' = IF batch' = <<>> THEN "idle" ELSE "casting"
          /\ fails' = 0
       \/ /\ Cancelled
          /\ sub' = "done"
          /\ UNCHANGED <<batch, fails>>
    /\ from' = Latest
    /\ UNCHANGED <<lastID, busVars, streamVars, hubVars, chanVars, send, connVars,
                   life, allowed, owed>>

\* Mutant of Resume: after a failure the loop reads from "$" again.
ResumeLatest == lastID' = Latest

\* A failed XREAD leaves the position where it was.
Resume == UNCHANGED lastID

\* XREAD fails: count it, back off, and give up the whole process when it has
\* failed MaxConsecFailures times in a row.
FailRead ==
    /\ sub = "blocked"
    /\ ~Cancelled
    /\ fails' = fails + 1
    /\ IF fails' >= MaxConsecFailures
       THEN sub' = "done" /\ life' = IF life = "up" THEN "asked" ELSE life
       ELSE sub' = "idle" /\ UNCHANGED life
    /\ Resume
    /\ from' = Latest
    /\ UNCHANGED <<batch, busVars, streamVars, hubVars, chanVars, send, connVars, allowed, owed>>

\* Hub.Broadcast: into the channel when it has room. A caller that finds none
\* waits, until its context is done or the hub has stopped.
Broadcast(m) ==
    /\ Len(broadcast) < BroadcastCapacity
    /\ broadcast' = Append(broadcast, m)

\* Broadcast the next message of the batch; false ends the loop. The hub stops
\* only once runCtx is cancelled.
Cast ==
    /\ sub = "casting"
    /\ \/ /\ Broadcast(Head(batch))
          /\ lastID' = Head(batch)
          /\ batch' = Tail(batch)
          /\ sub' = IF batch' = <<>> THEN "idle" ELSE "casting"
       \/ /\ Cancelled
          /\ sub' = "done"
          /\ UNCHANGED <<broadcast, lastID, batch>>
    /\ UNCHANGED <<from, fails, register, unregister, busVars, streamVars, hubVars, send,
                   connVars, life, allowed, owed>>

-----------------------------------------------------------------------------
(* Hub.Run: one goroutine owns the map *)

TakeRegister ==
    /\ hub = "running"
    /\ register # <<>>
    /\ register' = Tail(register)
    /\ clients' = clients \cup {Head(register)}
    /\ UNCHANGED <<unregister, broadcast, hub, closed, busVars, streamVars,
                   subVars, send, connVars, life, allowed, owed>>

TakeUnregister ==
    /\ hub = "running"
    /\ unregister # <<>>
    /\ unregister' = Tail(unregister)
    /\ LET gone == {Head(unregister)} \cap clients IN
        /\ clients' = clients \ gone
        /\ closed' = closed \cup gone
    /\ UNCHANGED <<register, broadcast, hub, busVars, streamVars,
                   subVars, send, connVars, life, allowed, owed>>

\* Those with no room in Client.Send.
Slow == {c \in clients : Len(send[c]) = SendCapacity}

\* Mutants of Deliver: a slow client stays in the map; or it is passed over.
DeliverKeepSlow(m) ==
    /\ send' = [c \in Conns |-> IF c \in clients \ Slow THEN Append(send[c], m) ELSE send[c]]
    /\ closed' = closed \cup Slow
    /\ UNCHANGED clients

DeliverSkipSlow(m) ==
    /\ send' = [c \in Conns |-> IF c \in clients \ Slow THEN Append(send[c], m) ELSE send[c]]
    /\ UNCHANGED <<clients, closed>>

\* Every client gets the message; one that is slow is dropped instead.
Deliver(m) ==
    /\ send' = [c \in Conns |-> IF c \in clients \ Slow THEN Append(send[c], m) ELSE send[c]]
    /\ clients' = clients \ Slow
    /\ closed' = closed \cup Slow

TakeBroadcast ==
    /\ hub = "running"
    /\ broadcast # <<>>
    /\ broadcast' = Tail(broadcast)
    /\ Deliver(Head(broadcast))
    /\ owed' = [c \in Conns |-> IF c \in clients \cup closed /\ conn[c] # "gone"
                                THEN Append(owed[c], Head(broadcast)) ELSE owed[c]]
    /\ UNCHANGED <<register, unregister, hub, busVars, streamVars, subVars,
                   connVars, life, allowed>>

\* Mutant of HubStop: the loop ends without closing what the clients wait for.
HubStopSilently ==
    /\ hub = "running"
    /\ Cancelled
    /\ hub' = "stopped"
    /\ clients' = {}
    /\ UNCHANGED <<closed, chanVars, busVars, streamVars, subVars, send,
                   connVars, life, allowed, owed>>

HubStop ==
    /\ hub = "running"
    /\ Cancelled
    /\ hub' = "stopped"
    /\ closed' = closed \cup clients
    /\ clients' = {}
    /\ UNCHANGED <<chanVars, busVars, streamVars, subVars, send,
                   connVars, life, allowed, owed>>

-----------------------------------------------------------------------------
(* Handler.HandleStream, one per connection *)

Move(c, s) == conn' = [conn EXCEPT ![c] = s]

\* The handler returns, and what it knew of its connection goes with it.
End(c) ==
    /\ Move(c, "gone")
    /\ resume' = [resume EXCEPT ![c] = Latest]
    /\ replayed' = [replayed EXCEPT ![c] = <<>>]
    /\ live' = [live EXCEPT ![c] = <<>>]
    /\ owed' = [owed EXCEPT ![c] = <<>>]

\* A request arrives, without a Last-Event-ID or with one that this or another
\* pod sent before. It is refused once the process is shutting down.
Connect(c) ==
    /\ conn[c] = "new"
    /\ Move(c, IF life \in {"up", "asked"} THEN "registering" ELSE "gone")
    /\ \E id \in {Latest} \cup 0..added : resume' = [resume EXCEPT ![c] = id]
    /\ UNCHANGED <<replayed, live, busVars, streamVars, subVars, hubVars, chanVars, send,
                   life, allowed, owed>>

\* Register: the test of stopped at its start is over; then it is into the
\* channel, or 503 if the hub has stopped or the client has gone.
Register(c) ==
    /\ conn[c] = "registering"
    /\ \/ /\ Len(register) < RegisterCapacity
          /\ register' = Append(register, c)
          /\ Move(c, "opening")
          /\ UNCHANGED <<wireVars, owed>>
       \/ /\ End(c)
          /\ UNCHANGED register
    /\ UNCHANGED <<unregister, broadcast, busVars, streamVars,
                   subVars, hubVars, send, life, allowed>>

\* replayHistory: XRANGE after Last-Event-ID. A failure is logged, live mode follows.
Replay(c) ==
    /\ conn[c] = "opening"
    /\ LET es == Entries(resume[c], ReplayMaxCount) IN
        \/ /\ resume[c] = Latest
           /\ Move(c, "streaming")
           /\ UNCHANGED <<replayed, allowed>>
        \/ /\ resume[c] # Latest
           /\ Move(c, IF es = <<>> THEN "probing" ELSE "streaming")
           /\ replayed' = [replayed EXCEPT ![c] = es]
           /\ UNCHANGED allowed
        \/ /\ resume[c] # Latest
           /\ CallFails
           /\ Move(c, "streaming")
           /\ UNCHANGED replayed
    /\ UNCHANGED <<resume, live, busVars, streamVars, subVars, hubVars, chanVars, send, life, owed>>

\* compareStreamIDs: of two ids, which was given first. Its fallback for a text
\* that is no id is not reached: XRANGE refuses such a text.
OlderID(a, b) == a < b

\* A message goes out after what was written; the hint as a line without an id.
writeMessage(written, m) == Append(written, m)

\* Nothing after Last-Event-ID: is it older than the stream's first entry?
Probe(c) ==
    /\ conn[c] = "probing"
    /\ Move(c, "streaming")
    /\ \/ /\ replayed' = IF first <= added /\ OlderID(resume[c], first)
                         THEN [replayed EXCEPT ![c] = writeMessage(<<>>, Truncated)]
                         ELSE replayed
          /\ UNCHANGED allowed
       \/ CallFails /\ UNCHANGED replayed
    /\ UNCHANGED <<resume, live, busVars, streamVars, subVars, hubVars, chanVars, send, life, owed>>

\* The writer loop: a message, or the end of Send once its buffer is read.
WriteLive(c) ==
    /\ conn[c] = "streaming"
    /\ \/ /\ send[c] # <<>>
          /\ send' = [send EXCEPT ![c] = Tail(@)]
          /\ live' = [live EXCEPT ![c] = writeMessage(@, Head(send[c]))]
          /\ UNCHANGED conn
       \/ /\ send[c] = <<>>
          /\ c \in closed
          /\ Move(c, "leaving")
          /\ UNCHANGED <<send, live>>
    /\ UNCHANGED <<resume, replayed, busVars, streamVars, subVars, hubVars, chanVars,
                   life, allowed, owed>>

\* The client goes: the request's context is done, or the heartbeat fails.
Disconnect(c) ==
    /\ conn[c] = "streaming"
    /\ Move(c, "leaving")
    /\ UNCHANGED <<resume, replayed, live, busVars, streamVars, subVars, hubVars, chanVars,
                   send, life, allowed, owed>>

\* The deferred Unregister: into the channel, or nothing once the hub has stopped.
Unregister(c) ==
    /\ conn[c] = "leaving"
    /\ \/ /\ hub = "running"
          /\ Len(unregister) < RegisterCapacity
          /\ unregister' = Append(unregister, c)
       \/ /\ hub = "stopped"
          /\ UNCHANGED unregister
    /\ End(c)
    /\ UNCHANGED <<register, broadcast, busVars, streamVars, subVars,
                   hubVars, send, life, allowed>>

-----------------------------------------------------------------------------
(* The lifecycle *)

\* The process is asked to stop.
Ask ==
    /\ life = "up"
    /\ life' = "asked"
    /\ UNCHANGED <<busVars, streamVars, subVars, hubVars, chanVars, send, connVars, allowed, owed>>

\* Best effort: without room in time nobody gets the hint.
BroadcastRetryHints ==
    \/ Broadcast(Hint)
    \/ Len(broadcast) = BroadcastCapacity /\ UNCHANGED broadcast

\* OnStop: reject new connections and hint at a retry; cancel; wait for subscriber,
\* hub and bus, or for the deadline.
OnStop ==
    /\ \/ /\ life = "asked"
          /\ life' = "rejecting"
          /\ BroadcastRetryHints
          /\ UNCHANGED allowed
       \/ /\ life = "rejecting"
          /\ life' = "cancelled"
          /\ UNCHANGED <<broadcast, allowed>>
       \/ /\ life = "cancelled"
          /\ \/ sub = "done" /\ hub = "stopped" /\ drainer = "done" /\ UNCHANGED allowed
             \/ CallFails
          /\ life' = "stopped"
          /\ UNCHANGED broadcast
    /\ UNCHANGED <<register, unregister, busVars, streamVars, subVars, hubVars, send, connVars,
                   owed>>

HubStep == TakeRegister \/ TakeUnregister \/ TakeBroadcast \/ HubStop
SubStep == StartRead \/ EndRead \/ FailRead \/ Cast
BusStep == DrainBus \/ DrainerStop
Handle(c) == Register(c) \/ Replay(c) \/ Probe(c) \/ WriteLive(c) \/ Unregister(c)

\* Every goroutine has ended.
Rest ==
    /\ life = "stopped"
    /\ hub = "stopped" /\ sub = "done" /\ drainer = "done"
    /\ UNCHANGED feedVars

FeedNext ==
    \/ Publish \/ BusStep \/ SubStep \/ HubStep
    \/ \E c \in Conns : Connect(c) \/ Handle(c) \/ Disconnect(c)
    \/ Ask \/ OnStop
    \/ Rest

FeedSpec == FeedInit /\ [][FeedNext]_feedVars

\* The goroutines run, and OnStop once the process was asked to stop. Nobody
\* has to connect, publish, disconnect or ask.
FairFeedSpec ==
    /\ FeedSpec
    /\ WF_feedVars(BusStep) /\ WF_feedVars(SubStep)
    /\ WF_feedVars(HubStep) /\ WF_feedVars(OnStop)
    /\ \A c \in Conns : WF_feedVars(Handle(c))

-----------------------------------------------------------------------------
(* What the feed promises *)

\* The hub never sends on, nor closes, a closed channel, which would panic:
\* whoever is in the map has an open Send. A slow client, its own unregister and
\* the shutdown all close it, in any order.
OpenWhileRegistered == clients \cap closed = {}

IsInitialPart(s, t) == Len(s) <= Len(t) /\ s = SubSeq(t, 1, Len(s))

\* What the client got of what it is owed, on the wire or in its buffer.
Got(c) == live[c] \o send[c]

\* A client the hub keeps gets every message in order, and one it dropped got
\* them up to some point: slow clients lose their connection, never a message
\* in the middle.
NoSilentLoss ==
    \A c \in clients \cup closed :
        conn[c] # "gone" => /\ IsInitialPart(Got(c), owed[c])
                            /\ c \in clients => Got(c) = owed[c]

\* The subscriber hands on the stream in order, through failures of Redis: its
\* position only moves forward, and past nothing but what was trimmed before it
\* could be read.
RelayedInOrder ==
    [][lastID' # lastID =>
        /\ lastID' > lastID
        /\ lastID # Latest => \A id \in lastID + 1..lastID' - 1 : id < first]_feedVars

\* The connections that wait in the channel of a hub that has stopped.
Stranded(c) == hub = "stopped" /\ \E i \in DOMAIN register : register[i] = c

\* Once the process is asked to stop, subscriber, hub and bus end, and so does
\* every connection, except one whose registration the hub never took.
ShutdownEnds ==
    life = "asked" ~>
        /\ life = "stopped"
        /\ sub = "done" /\ hub = "stopped" /\ drainer = "done"
        /\ \A c \in Conns : conn[c] \in {"new", "gone"} \/ Stranded(c)
=============================================================================
