------------------------------ MODULE Mailbox ------------------------------
(***************************************************************************)
(* Messages between the members of a team: the tables team_message and     *)
(* message_read_status, the sending operations of message_manager.go, and  *)
(* the loop that drains a member's mailbox into its agent                  *)
(* (agent/coordination/handlers/message.go).                               *)
(*                                                                         *)
(* A direct message carries a flag of its own; broadcasts are read up to a *)
(* watermark per member, the timestamp of the newest one that was marked.  *)
(* The memory backend stamps each message; the SQL backend stamps none,    *)
(* and its statements may fail.                                            *)
(* The messages to the pseudo-member "user", which the leader acknowledges *)
(* without a mailbox, are left out.                                        *)
(***************************************************************************)
EXTENDS Naturals

CONSTANTS
    Member,
    Reader,      \* the members whose agent is running, with its mailbox loop
    Message,     \* the message ids that may ever be used
    Everyone,    \* the addressee of a broadcast
    MaxTime,     \* bound on the clock, in milliseconds
    MaxCrashes   \* bound on panics recovered by the event bus, and restarts

ASSUME MailboxAssumption ==
    /\ Everyone \notin Member
    /\ Reader \subseteq Member
    /\ MaxTime \in Nat \ {0} /\ MaxCrashes \in Nat

VARIABLES
    clock,
    row,        \* the rows of team_message; from = to for an unused id
    isRead,     \* the direct messages whose flag is_read is set
    readAt,     \* the broadcast watermark of each member, 0 without a row
    drain,      \* where the mailbox loop of each reader stands
    interrupt,  \* the members whose agent waits for an answer of a human
    offered,    \* the messages DeliverInput was called with, by member
    crashes,
    backend,    \* "memory" or "sql"; rigid
    unmarked,   \* what was handed over and whose mark did not succeed, by member
    dropped     \* the broadcasts that left a batch unread and were read by then

\* The last two only observe.
history == <<unmarked, dropped>>
vars == <<clock, row, isRead, readAt, drain, interrupt, offered, crashes, backend, history>>

Unused == [from |-> Everyone, to |-> Everyone, time |-> 0]
Sent == {x \in Message : row[x] # Unused}
\* The id a new message gets; which one makes no difference.
FreshId == CHOOSE x \in Message : x \notin Sent
Broadcasts == {x \in Sent : row[x].to = Everyone}
DirectTo(m) == {x \in Sent : row[x].to = m}
BroadcastsTo(m) == {x \in Broadcasts : row[x].from # m}

\* Variant: the read flag is not looked at.
UnreadDirectIgnoresFlag(m) == DirectTo(m)
\* GetMessages and GetBroadcastMessages with unreadOnly.
UnreadDirect(m) == DirectTo(m) \ isRead
\* A member that has no row of read status has no watermark: the memory backend gives it
\* every broadcast, the SQL backend takes 0.
UnreadBroadcasts(m) ==
    {x \in BroadcastsTo(m) : (backend = "memory" /\ readAt[m] = 0) \/ row[x].time > readAt[m]}
\* What a query may give: on SQL it may fail, and the loop goes on without its half.
Answers(S) == {S} \cup IF backend = "sql" THEN {{}} ELSE {}

-----------------------------------------------------------------------------
(* Sending.                                                                *)

\* On SQL an INSERT that fails three times leaves nothing.
CreateMessage(x, from, to) ==
    /\ Sent # Message /\ x = FreshId
    /\ row' = [row EXCEPT ![x] =
            [from |-> from, to |-> to, time |-> IF backend = "memory" THEN clock ELSE 0]]
    /\ UNCHANGED <<clock, isRead, readAt, drain, interrupt, offered, crashes, backend, history>>

SendMessage(x, from, to) == from # to /\ CreateMessage(x, from, to)

BroadcastMessage(x, from) == CreateMessage(x, from, Everyone)

Tick ==
    /\ clock < MaxTime
    /\ clock' = clock + 1
    /\ UNCHANGED <<row, isRead, readAt, drain, interrupt, offered, crashes, backend, history>>

-----------------------------------------------------------------------------
(* processUnreadMessagesWithSteer.  The event bus of a member runs one     *)
(* handler at a time.                                                      *)

Idle == [at |-> "idle"]

Loop(m, at, batch, seen) ==
    drain' = [drain EXCEPT ![m] = [at |-> at, batch |-> batch, seen |-> seen]]

\* A MESSAGE or BROADCAST event, or the periodic poll.
Wake(m) ==
    /\ drain[m].at = "idle"
    /\ Loop(m, "direct", {}, {})
    /\ UNCHANGED <<clock, row, isRead, readAt, interrupt, offered, crashes, backend, history>>

ReadDirectAs(m, read) ==
    /\ drain[m].at = "direct"
    /\ Loop(m, "broadcasts", read, drain[m].seen)
    /\ UNCHANGED <<clock, row, isRead, readAt, interrupt, offered, crashes, backend, history>>

ReadDirect(m) == \E read \in Answers(UnreadDirect(m)) : ReadDirectAs(m, read)

Collect(m, batch) ==
    LET new == batch \ drain[m].seen
    IN  /\ drain[m].at = "broadcasts"
        /\ IF new = {}
           THEN drain' = [drain EXCEPT ![m] = Idle]
           ELSE Loop(m, "deliver", new, drain[m].seen)
        /\ UNCHANGED <<clock, row, isRead, readAt, interrupt, offered, crashes, backend, history>>

\* Variant: the broadcasts replace what was read before.
ReadBroadcastsOnly(m) == Collect(m, UnreadBroadcasts(m))

ReadBroadcasts(m) ==
    \E read \in Answers(UnreadBroadcasts(m)) : Collect(m, drain[m].batch \cup read)

\* The newest message first.  An error of DeliverInput is only logged.
Deliver(m, x) ==
    /\ drain[m].at = "deliver" /\ ~ interrupt[m]
    /\ x \in drain[m].batch
    /\ \A y \in drain[m].batch : row[y].time <= row[x].time
    /\ offered' = [offered EXCEPT ![m] = @ \cup {x}]
    /\ drain' = [drain EXCEPT ![m] =
            [at |-> "mark", batch |-> @.batch \ {x}, seen |-> @.seen \cup {x}, current |-> x]]
    /\ UNCHANGED <<clock, row, isRead, readAt, interrupt, crashes, backend, history>>

Watermark(m, time) == readAt' = [readAt EXCEPT ![m] = IF time > @ THEN time ELSE @]

\* The loop goes on whether the mark was set or not: the message or the member may be
\* gone, and on SQL the statement may fail; nobody looks at the answer.
Marks(m, time) ==
    LET x == drain[m].current
    IN  /\ drain[m].at = "mark"
        /\ \/ /\ IF row[x].to = Everyone
                 THEN Watermark(m, time) /\ UNCHANGED isRead
                 ELSE isRead' = isRead \cup {x} /\ UNCHANGED readAt
              /\ unmarked' = [unmarked EXCEPT ![m] = @ \ {x}]
           \/ /\ UNCHANGED <<isRead, readAt>>
              /\ unmarked' = [unmarked EXCEPT ![m] = @ \cup {x}]
        /\ Loop(m, IF drain[m].batch = {} THEN "direct" ELSE "deliver",
                drain[m].batch, drain[m].seen)
        /\ UNCHANGED <<clock, row, interrupt, offered, crashes, backend, dropped>>

\* Variant: the watermark is the time of the mark.
MarkMessageReadNow(m) == Marks(m, clock)

MarkMessageRead(m) == Marks(m, row[drain[m].current].time)

\* What is left of the batch is forgotten; broadcasts of it that a newer one's mark
\* covers are read by now.
Forget(m) ==
    /\ drain' = [drain EXCEPT ![m] = Idle]
    /\ dropped' = [dropped EXCEPT ![m] = @ \cup
            {x \in drain[m].batch \cap Broadcasts : x \notin UnreadBroadcasts(m)}]

\* Variant: what is deferred is marked as read.
DeferMarked(m) ==
    /\ drain[m].at = "deliver" /\ interrupt[m]
    /\ isRead' = isRead \cup drain[m].batch
    /\ Forget(m)
    /\ UNCHANGED <<clock, row, readAt, interrupt, offered, crashes, backend, unmarked>>

\* The rest of the batch is left for the next wake-up.
Defer(m) ==
    /\ drain[m].at = "deliver" /\ interrupt[m]
    /\ Forget(m)
    /\ UNCHANGED <<clock, row, isRead, readAt, interrupt, offered, crashes, backend, unmarked>>

\* A round of the agent, which runs beside the loop, asks for an approval.
RaiseInterrupt(m) ==
    /\ offered[m] # {} /\ ~ interrupt[m]
    /\ interrupt' = [interrupt EXCEPT ![m] = TRUE]
    /\ UNCHANGED <<clock, row, isRead, readAt, drain, offered, crashes, backend, history>>

ResolveInterrupt(m) ==
    /\ interrupt[m]
    /\ interrupt' = [interrupt EXCEPT ![m] = FALSE]
    /\ UNCHANGED <<clock, row, isRead, readAt, drain, offered, crashes, backend, history>>

\* A panic in the handler, which the event bus recovers, or a restart of the
\* member: the loop and its seenIDs are gone, the tables stay.
Crash(m) ==
    /\ crashes < MaxCrashes
    /\ drain[m] # Idle
    /\ crashes' = crashes + 1
    /\ Forget(m)
    /\ unmarked' = IF drain[m].at = "mark"
                   THEN [unmarked EXCEPT ![m] = @ \cup {drain[m].current}] ELSE unmarked
    /\ UNCHANGED <<clock, row, isRead, readAt, interrupt, offered, backend>>

Init ==
    /\ clock = 1
    /\ row = [x \in Message |-> Unused]
    /\ isRead = {}
    /\ readAt = [m \in Member |-> 0]
    /\ drain = [m \in Reader |-> Idle]
    /\ interrupt = [m \in Reader |-> FALSE]
    /\ offered = [m \in Reader |-> {}]
    /\ crashes = 0
    /\ backend \in {"memory", "sql"}
    /\ unmarked = [m \in Reader |-> {}] /\ dropped = [m \in Reader |-> {}]

Next ==
    \/ Tick
    \/ \E m \in Member :
        \/ \E x \in Message, n \in Member : SendMessage(x, m, n)
        \/ \E x \in Message : BroadcastMessage(x, m)
    \/ \E m \in Reader :
        \/ \E x \in Message : Deliver(m, x)
        \/ Wake(m) \/ ReadDirect(m) \/ ReadBroadcasts(m) \/ MarkMessageRead(m)
        \/ Defer(m) \/ RaiseInterrupt(m) \/ ResolveInterrupt(m) \/ Crash(m)

Spec == Init /\ [][Next]_vars

\* The poll timer of a member keeps firing and its handler keeps running; a query that is
\* made again and again does not fail for ever.  Marks may.
Fairness ==
    \A m \in Reader :
        /\ WF_vars(Wake(m)) /\ WF_vars(ReadDirect(m)) /\ WF_vars(ReadBroadcasts(m))
        /\ SF_vars(ReadDirectAs(m, UnreadDirect(m)))
        /\ WF_vars(\E x \in Message : Deliver(m, x))
        /\ WF_vars(MarkMessageRead(m)) /\ WF_vars(Defer(m))

LiveSpec == Spec /\ Fairness

-----------------------------------------------------------------------------
(* Properties.                                                             *)

TypeOK ==
    /\ clock \in 1 .. MaxTime
    /\ row \in [Message -> [from : Member \cup {Everyone}, to : Member \cup {Everyone},
                            time : 0 .. MaxTime]]
    /\ isRead \subseteq Message
    /\ readAt \in [Member -> 0 .. MaxTime]
    /\ offered \in [Reader -> SUBSET Message]
    /\ backend \in {"memory", "sql"}
    /\ unmarked \in [Reader -> SUBSET Message] /\ dropped \in [Reader -> SUBSET Message]

\* A direct message is unread until it reached the agent of its addressee,
\* whatever is interrupted, crashes or arrives in between.
DirectIsUnreadOrOffered ==
    \A m \in Reader : DirectTo(m) \subseteq UnreadDirect(m) \cup offered[m]

\* A message is handed to an agent again only if its mark failed or a crash cut it off:
\* else seenIDs, the flag and the watermark cover it, through every read, new message,
\* interrupt and crash in between.
OfferedOnce ==
    [][\A m \in Reader :
        (drain'[m].at = "mark" /\ drain[m].at # "mark")
            => drain'[m].current \notin offered[m] \ unmarked[m]]_vars

\* How a broadcast can get lost where messages are stamped: it is unread, was handed over or
\* is in the batch at hand, unless an interrupt or a crash dropped it behind a newer one
\* whose mark covers it, or it was stamped in the millisecond of one that was handed over.
BroadcastsAreAccounted ==
    backend = "memory" => \A m \in Reader : \A x \in BroadcastsTo(m) :
        \/ x \in UnreadBroadcasts(m) \cup offered[m] \cup dropped[m]
        \/ drain[m].at # "idle" /\ x \in drain[m].batch
        \/ \E y \in offered[m] \cap Broadcasts : row[y].time = row[x].time

\* Once the agent of a member is no longer interrupted, every direct message
\* to it arrives.
DirectArrives ==
    \A m \in Reader, x \in Message :
        <>[](~ interrupt[m]) => (x \in DirectTo(m) ~> x \in offered[m])
=============================================================================
