----------------------------- MODULE WatchStream ----------------------------
(***************************************************************************)
(* subscriptionToAsyncIterable of core/src/tree/watch.ts: it turns a       *)
(* source that calls a listener into an iterator that is pulled.           *)
(*                                                                         *)
(* Once registered, the source pushes and ends when it likes, and the      *)
(* signal may abort at any time; the consumer calls next(), one call at a  *)
(* time (for await), and may leave with return().  Events are numbered in  *)
(* the order they are pushed.  A source calls back only once register()    *)
(* has returned, as every source in the repository does, so that a first   *)
(* next() registers it and waits in one step.                              *)
(***************************************************************************)
EXTENDS Integers, Sequences, FiniteSets

CONSTANTS
    Buffer,         \* opts.buffer
    MaxEvents       \* bound: how many events are pushed

ASSUME StreamAssumption ==
    Buffer \in Nat \ {0} /\ MaxEvents \in Nat

VARIABLES
    queue,          \* the events not yet pulled
    consumer,       \* "idle" | "waiting" (waiter is set) | "finished"
    subscribed,     \* the source holds the listener
    attached,       \* unregister and the abort listener are held
    registered, closed, ended,      \* ended is endRequested
    aborted,        \* signal.aborted
    pushed,         \* how many events the source has pushed
    accepted,       \* the events push() took, in order
    got             \* what the consumer received, in order

sourceVars == <<subscribed, attached, registered>>
streamVars == <<queue, consumer, sourceVars, closed, ended, aborted, pushed, accepted, got>>

Overflow == 0       \* the overflowEvent; data events are 1, 2, ...

StreamInit ==
    /\ queue = <<>> /\ accepted = <<>> /\ got = <<>>
    /\ consumer = "idle"
    /\ subscribed = FALSE /\ attached = FALSE /\ registered = FALSE
    /\ closed = FALSE /\ ended = FALSE /\ aborted = FALSE
    /\ pushed = 0

-----------------------------------------------------------------------------
Detach ==
    /\ attached' = FALSE
    /\ subscribed' = (subscribed /\ ~attached)
    /\ UNCHANGED registered

(* Slip: closing the stream forgets the pending next().                    *)
ShutdownSilently ==
    IF closed THEN UNCHANGED <<sourceVars, closed, consumer>>
    ELSE closed' = TRUE /\ Detach /\ UNCHANGED consumer

(* shutdown(), which resolves a pending next() with done.                  *)
Shutdown ==
    IF closed THEN UNCHANGED <<sourceVars, closed, consumer>>
    ELSE /\ closed' = TRUE
         /\ Detach
         /\ consumer' = IF consumer = "waiting" THEN "finished" ELSE consumer

(* Slips: a full queue drops its oldest event; or gives way to the         *)
(* overflow event and closes without unregistering.                        *)
PushDropsOldest ==
    /\ queue' = Append(Tail(queue), pushed + 1)
    /\ accepted' = Append(accepted, pushed + 1)
    /\ UNCHANGED <<got, consumer, sourceVars, closed>>

PushOverflowsOnly ==
    /\ closed' = TRUE
    /\ queue' = <<Overflow>>
    /\ UNCHANGED <<got, consumer, sourceVars, accepted>>

(* A full queue gives way to the overflow event, and the stream closes.    *)
PushOverflows ==
    /\ closed' = TRUE
    /\ Detach
    /\ IF consumer = "waiting"
       THEN queue' = <<>> /\ got' = Append(got, Overflow) /\ consumer' = "idle"
       ELSE queue' = <<Overflow>> /\ UNCHANGED <<got, consumer>>
    /\ UNCHANGED accepted

PushAccepted(e) ==
    /\ accepted' = Append(accepted, e)
    /\ IF consumer = "waiting"
       THEN got' = Append(got, e) /\ consumer' = "idle" /\ UNCHANGED queue
       ELSE queue' = Append(queue, e) /\ UNCHANGED <<got, consumer>>
    /\ UNCHANGED <<sourceVars, closed>>

Push ==
    /\ registered /\ pushed < MaxEvents
    /\ pushed' = pushed + 1
    /\ \/ /\ closed \/ ended
          /\ UNCHANGED <<queue, got, consumer, accepted, sourceVars, closed>>
       \/ /\ ~closed /\ ~ended /\ Len(queue) >= Buffer
          /\ PushOverflows
       \/ /\ ~closed /\ ~ended /\ Len(queue) < Buffer
          /\ PushAccepted(pushed + 1)
    /\ UNCHANGED <<ended, aborted>>

(* Slip: the end is noted, but a pending next() is not told.               *)
EndStreamQuietly ==
    /\ registered /\ ~ended /\ ~closed
    /\ ended' = TRUE
    /\ UNCHANGED <<sourceVars, closed, consumer, queue, aborted, pushed, accepted, got>>

EndStream ==
    /\ registered /\ ~ended /\ ~closed
    /\ ended' = TRUE
    /\ IF queue = <<>> /\ consumer = "waiting"
       THEN Shutdown
       ELSE UNCHANGED <<sourceVars, closed, consumer>>
    /\ UNCHANGED <<queue, aborted, pushed, accepted, got>>

(* The abort listener exists only while it is attached.                    *)
SignalAborts ==
    /\ ~aborted
    /\ aborted' = TRUE
    /\ IF attached THEN Shutdown ELSE UNCHANGED <<sourceVars, closed, consumer>>
    /\ UNCHANGED <<queue, ended, pushed, accepted, got>>

-----------------------------------------------------------------------------
(* next(): a queued event is taken whatever else has happened ...          *)
NextTakes ==
    /\ consumer = "idle" /\ queue # <<>>
    /\ got' = Append(got, Head(queue))
    /\ queue' = Tail(queue)
    /\ UNCHANGED <<consumer, sourceVars, closed, ended, aborted, pushed, accepted>>

(* ... then the end of the stream, its closing and the signal are heeded   *)
NextFinishes ==
    /\ consumer = "idle" /\ queue = <<>>
    /\ ended \/ closed \/ aborted
    /\ consumer' = "finished"
    /\ closed' = TRUE
    /\ IF closed THEN UNCHANGED sourceVars ELSE Detach
    /\ UNCHANGED <<queue, ended, aborted, pushed, accepted, got>>

(* ... and only then is the source registered, if it was not before,       *)
NextRegisters ==
    /\ consumer = "idle" /\ queue = <<>>
    /\ ~ended /\ ~closed /\ ~aborted /\ ~registered
    /\ registered' = TRUE /\ subscribed' = TRUE /\ attached' = TRUE
    /\ consumer' = "waiting"
    /\ UNCHANGED <<queue, closed, ended, aborted, pushed, accepted, got>>

(* ... and the promise made.                                               *)
NextWaits ==
    /\ consumer = "idle" /\ queue = <<>>
    /\ ~ended /\ ~closed /\ ~aborted /\ registered
    /\ consumer' = "waiting"
    /\ UNCHANGED <<queue, sourceVars, closed, ended, aborted, pushed, accepted, got>>

(* return() and throw(): the consumer takes nothing more.                  *)
Return ==
    /\ consumer \in {"idle", "waiting"}
    /\ consumer' = "finished"
    /\ closed' = TRUE
    /\ IF closed THEN UNCHANGED sourceVars ELSE Detach
    /\ UNCHANGED <<queue, ended, aborted, pushed, accepted, got>>

NextCall == NextTakes \/ NextFinishes \/ NextRegisters \/ NextWaits

StreamNext == Push \/ EndStream \/ SignalAborts \/ NextCall \/ Return

StreamSpec == StreamInit /\ [][StreamNext]_streamVars

(* A for-await loop comes back for more; the source owes nothing.          *)
FairStreamSpec == StreamSpec /\ WF_streamVars(NextCall)

-----------------------------------------------------------------------------
(* "No silent drops": unless the buffer overflowed, received and queued    *)
(* events are the accepted ones in the order they were pushed, with none   *)
(* lost or doubled; after an overflow the consumer has, or gets next, a    *)
(* prefix of them and one overflow event, and nothing follows it.          *)
Seen == got \o queue
Overflowed == Len(Seen) > 0 /\ Seen[Len(Seen)] = Overflow
NoSilentDrops ==
    IF Overflowed
    THEN SubSeq(Seen, 1, Len(Seen) - 1) = SubSeq(accepted, 1, Len(Seen) - 1)
    ELSE Seen = accepted

(* Nobody waits for what has already happened: a pending next() is woken   *)
(* by an event, the end of the stream and an abort.                        *)
NoLostWakeup ==
    consumer = "waiting" => queue = <<>> /\ ~closed /\ ~ended /\ ~aborted

(* The listener is unregistered when the stream is closed, however it was. *)
ClosedIsClean == closed => ~subscribed

(* When the source ends or the signal aborts, the loop drains and ends.    *)
LoopTerminates == ended \/ aborted \/ closed ~> consumer = "finished"
=============================================================================
