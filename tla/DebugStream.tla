---------------------------- MODULE DebugStream ----------------------------
(***************************************************************************)
(* The debug server on top of the observation store of Mirror: the event   *)
(* stream (_serve_stream of src/contextlease/debug/server.py) with a       *)
(* browser that reconnects, and the events endpoint that is polled.        *)
(*                                                                         *)
(* The handler of a stream reads the store, then writes what it read event *)
(* by event, while calls of the facade go on publishing and the bounded    *)
(* store goes on dropping.  The connection may break at any event; the     *)
(* browser connects again with the last id it has seen.  The server is     *)
(* started and stopped once (DebugServer of the same file).                *)
(***************************************************************************)
EXTENDS Mirror

CONSTANTS
  WaitLimit,  \* the default limit of events_after, in wait_for_events
  PollLimit,  \* the limit of a poll
  MaxBreaks   \* bound: broken connections

ASSUME StreamAssumption == {WaitLimit, PollLimit} \subseteq Nat \ {0} /\ MaxBreaks \in Nat

VARIABLES
  server,    \* "built", "serving" or "closed"
  stopping,  \* "no", "waiting" for the serve loop, or "done"; not "no": shutdown_event
  link,      \* "down", or where its handler is: "looping", "waiting", "writing"
  cursor,    \* after_seq of the handler
  outbox,    \* events read from the store and not yet written
  seen,      \* events the browser has received
  breaks,
  poll       \* what a poll has read before it reads the minimum, or None

serverVars == <<server, stopping>>
streamVars == <<link, cursor, outbox, seen, breaks>>
allVars == <<vars, serverVars, streamVars, poll>>

StreamInit ==
  /\ Init
  /\ server = "built" /\ stopping = "no"
  /\ link = "down" /\ cursor = 0 /\ outbox = <<>> /\ seen = <<>>
  /\ breaks = 0 /\ poll = None

-----------------------------------------------------------------------------
(* The server.                                                             *)

Start ==
  /\ server = "built" /\ server' = "serving"
  /\ UNCHANGED <<vars, stopping, streamVars, poll>>

(* stop sets the event of the handlers and asks the serve loop to end; it  *)
(* does not wait for the handlers.                                         *)
Stop ==
  /\ stopping = "no" /\ stopping' = "waiting"
  /\ UNCHANGED <<vars, server, streamVars, poll>>

(* The loop has accepted connections until now.  A stop that came before   *)
(* the start waits here for a loop that was never entered.                 *)
ServeLoopEnds ==
  /\ server = "serving" /\ stopping = "waiting"
  /\ server' = "closed" /\ stopping' = "done"
  /\ UNCHANGED <<vars, streamVars, poll>>

-----------------------------------------------------------------------------
(* The stream.                                                             *)

LastSeen == IF seen = <<>> THEN 0 ELSE Last(seen)

(* An arena without a snapshot is not found.                               *)
Connect ==
  /\ server = "serving" /\ link = "down" /\ snapshot # 0
  /\ link' = "looping" /\ cursor' = LastSeen
  /\ UNCHANGED <<vars, serverVars, outbox, seen, breaks, poll>>

(* Mutant: the newest events are sent when there are more than the limit.  *)
NewestEvents(seq) ==
  SubSeq(Later(seq), IF Len(Later(seq)) > WaitLimit THEN Len(Later(seq)) - WaitLimit + 1 ELSE 1,
         Len(Later(seq)))

Ready(seq) == EventsAfter(seq, WaitLimit)

(* Mutant: the loop never looks at the event.                              *)
NeverStopped == FALSE

ShutdownSet == stopping # "no"

CheckShutdown ==
  /\ link = "looping" /\ link' = IF ShutdownSet THEN "down" ELSE "waiting"
  /\ UNCHANGED <<vars, serverVars, cursor, outbox, seen, breaks, poll>>

(* wait_for_events returns what there is, or sleeps until there is.        *)
WaitForEvents ==
  /\ link = "waiting" /\ Ready(cursor) # <<>>
  /\ link' = "writing" /\ outbox' = Ready(cursor)
  /\ UNCHANGED <<vars, serverVars, cursor, seen, breaks, poll>>

(* It is notified of a snapshot, or 10 seconds are over.                   *)
Keepalive ==
  /\ link = "waiting" /\ Ready(cursor) = <<>>
  /\ link' = "looping"
  /\ UNCHANGED <<vars, serverVars, cursor, outbox, seen, breaks, poll>>

WriteEvent ==
  /\ link = "writing"
  /\ seen' = Append(seen, Head(outbox)) /\ cursor' = Head(outbox)
  /\ outbox' = Tail(outbox)
  /\ link' = IF outbox' = <<>> THEN "looping" ELSE "writing"
  /\ UNCHANGED <<vars, serverVars, breaks, poll>>

(* A write fails, or the browser loses the connection: the rest of what    *)
(* the handler has read is lost with it.                                   *)
Break ==
  /\ link \in {"looping", "waiting", "writing"} /\ breaks < MaxBreaks
  /\ breaks' = breaks + 1 /\ link' = "down" /\ outbox' = <<>> /\ cursor' = 0
  /\ UNCHANGED <<vars, serverVars, seen, poll>>

-----------------------------------------------------------------------------
(* GET .../events reads events and minimum under two holds of the lock.    *)
(* The reader asks for what follows the events it has.                     *)

PollEvents ==
  /\ server = "serving" /\ poll = None /\ snapshot # 0
  /\ poll' = [after |-> LastSeen, items |-> EventsAfter(LastSeen, PollLimit)]
  /\ UNCHANGED <<vars, serverVars, streamVars>>

(* Mutant: off by one.                                                     *)
ResetTooLate(after) == store # <<>> /\ after # 0 /\ after < store[1] - 2

ResetRequired(after) ==
  store # <<>> /\ after \notin {0, store[1] - 1} /\ after < store[1]

(* The minimum is read and the page is answered.                           *)
PollMinimum ==
  /\ poll # None /\ poll' = None
  /\ UNCHANGED <<vars, serverVars, streamVars>>

Handler == CheckShutdown \/ WaitForEvents \/ Keepalive \/ WriteEvent

StreamNext ==
  \/ Next /\ UNCHANGED <<serverVars, streamVars, poll>>
  \/ Start \/ Stop \/ ServeLoopEnds
  \/ Connect \/ Handler \/ Break
  \/ PollEvents \/ PollMinimum

(* The threads of the server run, and the browser connects again and reads *)
(* what it is sent; nothing is assumed of the callers of the facade.       *)
StreamSpec ==
  /\ StreamInit /\ [][StreamNext]_allVars
  /\ WF_allVars(ServeLoopEnds) /\ WF_allVars(Connect) /\ WF_allVars(Handler)

-----------------------------------------------------------------------------
(* Properties.                                                             *)

SeenInOrder == \A i, j \in DOMAIN seen : i < j => seen[i] < seen[j]
SkippedOnlyDropped == \A e \in Range(store) : e < LastSeen => e \in Range(seen)

(* Across all its connections the browser gets the events in order and     *)
(* each of them once, and an event it was not sent although it got a later *)
(* one has been dropped from the store: no reconnect and no full page      *)
(* repeats an event or skips one that could still be had.                  *)
SeenFaithful == SeenInOrder /\ SkippedOnlyDropped

(* A page that is answered without reset_required misses nothing after the *)
(* position of its reader, although the minimum is read later than the     *)
(* events and the store moves on in between.                               *)
NoSilentGap ==
  poll # None /\ poll.after # 0 /\ ~ResetRequired(poll.after) =>
    LET first == IF poll.items = <<>> THEN poll.after + 1 ELSE Head(poll.items)
    IN \A e \in poll.after + 1 .. first - 1 : e \in lost

CaughtUp == snapshot = 0 \/ store = <<>> \/ LastSeen = Last(store)

(* Once nothing is published any more, the browser has everything up to    *)
(* the newest event, wherever its connection broke.  Once the server is    *)
(* stopped, stop returns unless the server was never started, and no       *)
(* handler stays in its loop, although connections are accepted until the  *)
(* serve loop ends, nobody waits for the handlers and they look at the     *)
(* event only between pages.                                               *)
StreamSettles ==
  []<>(IF stopping = "no" THEN server = "serving" => CaughtUp
       ELSE link = "down" /\ (server # "built" => stopping = "done"))
=============================================================================
