---------------------------- MODULE MailboxProofs ----------------------------
(***************************************************************************)
(* Theorems about Mailbox, for any members, messages, clock values and     *)
(* number of crashes, on both backends.                                    *)
(***************************************************************************)
EXTENDS Mailbox, TLAPS

\* Where the mailbox loop of a reader can be, and what it may hold.
DrainState ==
    [at : {"idle"}]
    \cup [at : {"direct", "broadcasts", "deliver"}, batch : SUBSET Message, seen : SUBSET Message]
    \cup [at : {"mark"}, batch : SUBSET Message, seen : SUBSET Message, current : Message]

Holds(m) == IF drain[m].at = "idle" THEN {} ELSE drain[m].batch
Seen(m) == IF drain[m].at = "idle" THEN {} ELSE drain[m].seen
Current(m) == IF drain[m].at = "mark" THEN {drain[m].current} ELSE {}

\* What has been marked as read for m, by flag or by watermark.
Marked(m) == {x \in DirectTo(m) : x \in isRead}
             \cup {x \in BroadcastsTo(m) : row[x].time <= readAt[m]}

\* A flag is only set on a message that exists, the clock stamps from 1, nothing is stamped
\* ahead of it, and a watermark is the stamp of a broadcast that was handed over.
RowsAreSound ==
    /\ isRead \subseteq Sent
    /\ clock >= 1
    /\ \A x \in Sent : row[x].time <= clock
    /\ backend = "memory" => \A x \in Sent : row[x].time >= 1
    /\ \A m \in Reader : readAt[m] # 0 =>
         \E y \in offered[m] \cap Broadcasts : row[y].time = readAt[m]

\* The loop holds, and hands over, messages of its own member; what it has seen or is
\* about to mark was handed over, and it holds nothing when it starts to read.
HoldsItsOwn ==
    \A m \in Reader :
        /\ Holds(m) \cup offered[m] \subseteq DirectTo(m) \cup BroadcastsTo(m)
        /\ Seen(m) \cup Current(m) \subseteq offered[m]
        /\ Holds(m) \cap Current(m) = {}
        /\ drain[m].at = "direct" => Holds(m) = {}

\* What was handed over is marked, or about to be, or its mark did not succeed, and only
\* such a message is held again.
HandedOverIsMarked ==
    \A m \in Reader :
        /\ Holds(m) \cap offered[m] \subseteq unmarked[m]
        /\ offered[m] \subseteq Marked(m) \cup Current(m) \cup unmarked[m]

\* The broadcasts that a higher watermark does not lose without a trace.
Settled(m) ==
    {x \in BroadcastsTo(m) :
        \/ x \in offered[m] \cup dropped[m] \cup Holds(m)
        \/ \E y \in offered[m] \cap Broadcasts : row[y].time = row[x].time}

\* Before a stamped broadcast at hand is marked, all that are older than it are settled.
BatchIsComplete ==
    backend = "memory" => \A m \in Reader : drain[m].at \in {"deliver", "mark"} =>
        \A y \in (Holds(m) \cup Current(m)) \cap Broadcasts, x \in BroadcastsTo(m) :
            row[x].time < row[y].time => x \in Settled(m)

IInv ==
    /\ TypeOK /\ drain \in [Reader -> DrainState]
    /\ RowsAreSound
    /\ HoldsItsOwn
    /\ HandedOverIsMarked
    /\ BatchIsComplete
    /\ DirectIsUnreadOrOffered
    /\ BroadcastsAreAccounted

-----------------------------------------------------------------------------
\* What the types give of a reader and its messages.
LEMMA Facts ==
    ASSUME IInv, NEW m \in Reader
    PROVE  /\ m \in Member /\ drain[m] \in DrainState
           /\ DirectTo(m) \cup BroadcastsTo(m) \subseteq Sent /\ Sent \subseteq Message
           /\ DirectTo(m) \cap BroadcastsTo(m) = {}
           /\ BroadcastsTo(m) \subseteq Broadcasts /\ DirectTo(m) \cap Broadcasts = {}
           /\ \A x \in Sent : row[x].time \in Nat
           /\ readAt[m] \in Nat
           /\ Holds(m) \cup Seen(m) \cup Current(m) \subseteq Message
  <1>1. m \in Member /\ Everyone # m
    BY MailboxAssumption
  <1>2. drain[m] \in DrainState
    BY DEF IInv
  <1>3. \A x \in Sent : row[x].time \in Nat
    BY MailboxAssumption DEF IInv, TypeOK, Sent
  <1>4. readAt[m] \in Nat
    BY <1>1, MailboxAssumption DEF IInv, TypeOK
  <1>5. Holds(m) \cup Seen(m) \cup Current(m) \subseteq Message
    BY <1>2 DEF DrainState, Holds, Seen, Current
  <1> QED
    BY <1>1, <1>2, <1>3, <1>4, <1>5 DEF DirectTo, BroadcastsTo, Broadcasts, Sent

\* Stamps start at 1, so the member without a watermark is no special case.
LEMMA UnreadIsAbove ==
    ASSUME IInv, NEW m \in Reader
    PROVE  UnreadBroadcasts(m) = {x \in BroadcastsTo(m) : row[x].time > readAt[m]}
  BY Facts DEF UnreadBroadcasts, IInv, RowsAreSound

LEMMA Accounted ==
    ASSUME IInv, backend = "memory", NEW m \in Reader
    PROVE  BroadcastsTo(m) \subseteq UnreadBroadcasts(m) \cup Settled(m)
  BY DEF IInv, BroadcastsAreAccounted, Settled, Holds

LEMMA InitIInv == Init => IInv
  <1> SUFFICES ASSUME Init PROVE IInv
    OBVIOUS
  <1>1. TypeOK
    <2>1. Unused \in [from : Member \cup {Everyone}, to : Member \cup {Everyone}, time : 0 .. MaxTime]
      BY MailboxAssumption DEF Unused
    <2> HIDE DEF Unused
    <2> QED
      BY <2>1, MailboxAssumption DEF Init, TypeOK
  <1>2. /\ Sent = {} /\ drain \in [Reader -> DrainState]
        /\ \A m \in Reader : Holds(m) = {} /\ Seen(m) = {} /\ Current(m) = {}
                             /\ drain[m].at = "idle"
    BY DEF Init, Sent, Idle, DrainState, Holds, Seen, Current
  <1>3. \A m \in Reader : readAt[m] = 0 /\ offered[m] = {} /\ m \in Member
    BY MailboxAssumption DEF Init
  <1> QED
    BY <1>1, <1>2, <1>3 DEF Init, IInv, RowsAreSound, HoldsItsOwn, HandedOverIsMarked,
       BatchIsComplete, DirectIsUnreadOrOffered, BroadcastsAreAccounted, DirectTo,
       BroadcastsTo, Broadcasts

\* A new message: every other row stays, and so does everything about it.
LEMMA CreateIInv ==
    ASSUME IInv, NEW x \in Message, NEW from \in Member, NEW to \in Member \cup {Everyone},
           CreateMessage(x, from, to)
    PROVE  IInv'
  <1> DEFINE new == [from |-> from, to |-> to, time |-> IF backend = "memory" THEN clock ELSE 0]
  <1>1. /\ x \notin Sent /\ row' = [row EXCEPT ![x] = new]
        /\ UNCHANGED <<clock, isRead, readAt, drain, interrupt, offered, crashes, backend,
                       unmarked, dropped>>
    BY DEF CreateMessage, FreshId, Sent, history
  <1>2. new # Unused /\ new \in [from : Member \cup {Everyone}, to : Member \cup {Everyone},
                                time : 0 .. MaxTime]
    BY MailboxAssumption DEF Unused, IInv, TypeOK
  <1>3. row'[x] = new /\ \A y \in Message : y # x => row'[y] = row[y]
    BY <1>1 DEF IInv, TypeOK
  <1>4. /\ new.from = from /\ new.to = to /\ new.time <= clock
        /\ backend = "memory" => new.time = clock
        /\ clock \in Nat /\ clock >= 1
    BY MailboxAssumption DEF IInv, TypeOK, RowsAreSound
  <1> HIDE DEF new
  <1>5. TypeOK' /\ drain' \in [Reader -> DrainState]
    BY <1>1, <1>2 DEF IInv, TypeOK
  <1>6. Sent' = Sent \cup {x} /\ Sent \subseteq Message
    BY <1>2, <1>3 DEF Sent
  <1>7. /\ Broadcasts \subseteq Broadcasts' /\ Broadcasts' \subseteq Broadcasts \cup {x}
        /\ Broadcasts \subseteq Sent /\ Broadcasts' \cap Sent = Broadcasts
        /\ \A y \in Sent : row'[y] = row[y]
        /\ \A m \in Reader :
             /\ DirectTo(m) \subseteq DirectTo(m)' /\ DirectTo(m)' \subseteq DirectTo(m) \cup {x}
             /\ BroadcastsTo(m) \subseteq BroadcastsTo(m)'
             /\ BroadcastsTo(m)' \subseteq BroadcastsTo(m) \cup {x}
             /\ DirectTo(m) \cup BroadcastsTo(m) \subseteq Sent
    BY <1>1, <1>3, <1>6 DEF DirectTo, BroadcastsTo, Broadcasts, Sent
  <1>8. \A m \in Reader : /\ Holds(m)' = Holds(m) /\ Seen(m)' = Seen(m) /\ Current(m)' = Current(m)
                          /\ Holds(m) \cup offered[m] \cup Current(m) \subseteq Sent
    BY <1>1, <1>7 DEF Holds, Seen, Current, IInv, HoldsItsOwn
  <1>9. RowsAreSound'
    <2>1. /\ isRead' \subseteq Sent' /\ clock' >= 1
          /\ \A y \in Sent' : row'[y].time <= clock'
          /\ backend' = "memory" => \A y \in Sent' : row'[y].time >= 1
      BY <1>1, <1>3, <1>4, <1>6, <1>7 DEF IInv, RowsAreSound
    <2>2. ASSUME NEW m \in Reader, readAt'[m] # 0
          PROVE  \E y \in offered'[m] \cap Broadcasts' : row'[y].time = readAt'[m]
      BY <1>1, <1>7, <2>2 DEF IInv, RowsAreSound
    <2> QED
      BY <2>1, <2>2 DEF RowsAreSound
  <1>10. HoldsItsOwn'
    BY <1>1, <1>7, <1>8 DEF IInv, HoldsItsOwn
  <1>11. HandedOverIsMarked'
    <2>1. \A m \in Reader : Marked(m) \subseteq Marked(m)'
      BY <1>1, <1>7 DEF Marked
    <2> QED
      BY <1>1, <1>8, <2>1 DEF IInv, HandedOverIsMarked
  <1>12. \A m \in Reader : Settled(m) \subseteq Settled(m)'
    BY <1>1, <1>7, <1>8 DEF Settled
  <1>13. BatchIsComplete'
    <2> SUFFICES ASSUME backend = "memory", NEW m \in Reader, drain[m].at \in {"deliver", "mark"},
                        NEW y \in (Holds(m) \cup Current(m)) \cap Broadcasts',
                        NEW z \in BroadcastsTo(m)', row'[z].time < row'[y].time
                 PROVE  z \in Settled(m)'
      BY <1>1, <1>8 DEF BatchIsComplete
    <2>1. y \in Sent /\ y \in Broadcasts /\ row'[y] = row[y] /\ row[y].time <= clock
          /\ row[y].time \in Nat
      BY <1>7, <1>8, Facts DEF IInv, RowsAreSound
    <2>2. z # x
      BY <1>3, <1>4, <2>1
    <2>3. z \in BroadcastsTo(m) /\ row'[z] = row[z]
      BY <1>7, <2>2
    <2>4. z \in Settled(m)
      BY <2>1, <2>3 DEF IInv, BatchIsComplete
    <2> QED
      BY <2>4, <1>12
  <1>14. DirectIsUnreadOrOffered'
    BY <1>1, <1>7 DEF IInv, RowsAreSound, DirectIsUnreadOrOffered, UnreadDirect
  <1>15. BroadcastsAreAccounted'
    <2> SUFFICES ASSUME backend = "memory", NEW m \in Reader, NEW z \in BroadcastsTo(m)'
                 PROVE  z \in UnreadBroadcasts(m)' \cup Settled(m)'
      BY <1>1 DEF BroadcastsAreAccounted, Settled, Holds
    <2>1. CASE z = x
      <3>1. row'[z].time = clock
        BY <2>1, <1>3, <1>4
      <3>2. CASE readAt[m] = 0
        BY <1>1, <3>2 DEF UnreadBroadcasts
      <3>3. CASE readAt[m] # 0
        <4>1. PICK y \in offered[m] \cap Broadcasts : row[y].time = readAt[m]
          BY <3>3 DEF IInv, RowsAreSound
        <4>2. y \in Sent /\ row[y].time <= clock /\ row'[y] = row[y] /\ readAt[m] \in Nat
              /\ y \in offered'[m] \cap Broadcasts'
          BY <1>1, <1>7, <4>1, Facts DEF IInv, RowsAreSound
        <4>3. CASE readAt[m] = clock
          BY <3>1, <4>1, <4>2, <4>3 DEF Settled
        <4>4. CASE readAt[m] # clock
          <5>1. row'[z].time > readAt'[m]
            BY <1>1, <1>4, <3>1, <4>1, <4>2, <4>4
          <5> QED
            BY <5>1 DEF UnreadBroadcasts
        <4> QED
          BY <4>3, <4>4
      <3> QED
        BY <3>2, <3>3
    <2>2. CASE z # x
      <3>1. z \in BroadcastsTo(m) /\ row'[z] = row[z]
        BY <1>7, <2>2
      <3>2. z \in UnreadBroadcasts(m) \cup Settled(m)
        BY <3>1, Accounted
      <3>3. z \in UnreadBroadcasts(m) => z \in UnreadBroadcasts(m)'
        BY <1>1, <3>1 DEF UnreadBroadcasts
      <3> QED
        BY <3>2, <3>3, <1>12
    <2> QED
      BY <2>1, <2>2
  <1> QED
    BY <1>5, <1>9, <1>10, <1>11, <1>13, <1>14, <1>15 DEF IInv

\* What a step of the loop, of the agent or of the clock that neither marks nor hands over
\* does to a reader.
Quiet(m) ==
    /\ unmarked[m] \subseteq unmarked'[m] /\ dropped[m] \subseteq dropped'[m]
    /\ Seen(m)' \subseteq Seen(m) /\ Current(m)' \subseteq Current(m)
    /\ Current(m)' = {} => Current(m) \subseteq unmarked'[m]
    /\ Holds(m)' \subseteq Holds(m) \cup UnreadDirect(m) \cup UnreadBroadcasts(m)
    /\ Current(m) # {} => Holds(m)' \subseteq Holds(m)
    /\ drain'[m].at = "direct" => Holds(m)' = {}
    /\ backend = "memory" =>
         /\ Holds(m) \cap Broadcasts
              \subseteq Holds(m)' \cup UnreadBroadcasts(m) \cup offered[m] \cup dropped'[m]
         /\ drain'[m].at \in {"deliver", "mark"} =>
              drain'[m] = drain[m] \/ UnreadBroadcasts(m) \subseteq Holds(m)' \cup Seen(m)

LEMMA QuietStep ==
    ASSUME IInv, TypeOK', UNCHANGED <<row, isRead, readAt, offered, backend>>, clock' >= clock,
           drain' \in [Reader -> DrainState], \A m \in Reader : Quiet(m)
    PROVE  IInv'
  <1>1. \A m \in Reader : /\ DirectTo(m)' = DirectTo(m) /\ BroadcastsTo(m)' = BroadcastsTo(m)
                          /\ UnreadDirect(m)' = UnreadDirect(m)
                          /\ UnreadBroadcasts(m)' = UnreadBroadcasts(m)
                          /\ UnreadDirect(m) \subseteq DirectTo(m)
                          /\ UnreadBroadcasts(m) \subseteq BroadcastsTo(m)
                          /\ Marked(m)' = Marked(m)
    BY DEF DirectTo, BroadcastsTo, Broadcasts, Sent, UnreadDirect, UnreadBroadcasts, Marked
  <1>2. Broadcasts' = Broadcasts /\ Sent' = Sent
    BY DEF Broadcasts, Sent
  <1>3. RowsAreSound'
    <2>1. clock \in Nat /\ clock' \in Nat
      BY MailboxAssumption DEF IInv, TypeOK
    <2>2. \A y \in Sent : row[y].time \in Nat
      BY MailboxAssumption DEF IInv, TypeOK, Sent
    <2> QED
      BY <1>2, <2>1, <2>2 DEF IInv, RowsAreSound
  <1>4. HoldsItsOwn'
    <2> SUFFICES ASSUME NEW m \in Reader
                 PROVE  /\ Holds(m)' \cup offered[m] \subseteq DirectTo(m) \cup BroadcastsTo(m)
                        /\ Seen(m)' \cup Current(m)' \subseteq offered[m]
                        /\ Holds(m)' \cap Current(m)' = {}
      BY <1>1 DEF HoldsItsOwn, Quiet
    <2> QED
      BY <1>1 DEF IInv, HoldsItsOwn, Quiet
  <1>5. HandedOverIsMarked'
    <2> SUFFICES ASSUME NEW m \in Reader
                 PROVE  /\ Holds(m)' \cap offered[m] \subseteq unmarked'[m]
                        /\ offered[m] \subseteq Marked(m) \cup Current(m)' \cup unmarked'[m]
      BY <1>1 DEF HandedOverIsMarked
    <2>1. Current(m) \subseteq Current(m)' \cup unmarked'[m]
      BY DEF Current, Quiet
    <2>2. (UnreadDirect(m) \cup UnreadBroadcasts(m)) \cap Marked(m) = {}
      <3> SUFFICES ASSUME NEW x \in UnreadDirect(m) \cup UnreadBroadcasts(m), x \in Marked(m)
                   PROVE  FALSE
        OBVIOUS
      <3>1. x \in DirectTo(m) \cup BroadcastsTo(m) /\ row[x].time \in Nat /\ readAt[m] \in Nat
            /\ DirectTo(m) \cap BroadcastsTo(m) = {}
        BY <1>1, Facts
      <3>2. x \in UnreadBroadcasts(m) => row[x].time > readAt[m]
        BY UnreadIsAbove
      <3> QED
        BY <3>1, <3>2, <1>1 DEF Marked, UnreadDirect
    <2>3. Holds(m)' \cap offered[m] \subseteq unmarked'[m]
      BY <2>1, <2>2 DEF IInv, HandedOverIsMarked, Quiet
    <2> QED
      BY <2>1, <2>3 DEF IInv, HandedOverIsMarked, Quiet
  <1>6. ASSUME backend = "memory", NEW m \in Reader
        PROVE  BroadcastsTo(m) \subseteq UnreadBroadcasts(m) \cup Settled(m)'
    <2> SUFFICES ASSUME NEW x \in BroadcastsTo(m), x \notin UnreadBroadcasts(m)
                 PROVE  x \in Settled(m)'
      OBVIOUS
    <2>1. x \in Settled(m) /\ x \in Broadcasts
      BY <1>6, Accounted, Facts
    <2> QED
      BY <1>1, <1>2, <1>6, <2>1 DEF Settled, Quiet
  <1>7. BatchIsComplete'
    <2> SUFFICES ASSUME backend = "memory", NEW m \in Reader,
                        drain'[m].at \in {"deliver", "mark"},
                        NEW y \in (Holds(m)' \cup Current(m)') \cap Broadcasts,
                        NEW x \in BroadcastsTo(m), row[x].time < row[y].time
                 PROVE  x \in Settled(m)'
      BY <1>1, <1>2 DEF BatchIsComplete
    <2>1. CASE drain'[m] = drain[m]
      <3>1. Holds(m)' = Holds(m) /\ Current(m)' = Current(m)
        BY <2>1 DEF Holds, Current
      <3>2. x \in Settled(m)
        BY <2>1, <3>1 DEF IInv, BatchIsComplete
      <3> QED
        BY <3>1, <3>2, <1>1, <1>2 DEF Settled, Quiet
    <2>2. CASE UnreadBroadcasts(m) \subseteq Holds(m)' \cup Seen(m)
      <3>1. x \in UnreadBroadcasts(m) => x \in Settled(m)'
        BY <2>2, <1>1 DEF IInv, HoldsItsOwn, Settled
      <3> QED
        BY <3>1, <1>6
    <2> QED
      BY <2>1, <2>2 DEF Quiet
  <1>8. DirectIsUnreadOrOffered'
    BY <1>1 DEF IInv, DirectIsUnreadOrOffered
  <1>9. BroadcastsAreAccounted'
    <2> SUFFICES ASSUME backend = "memory", NEW m \in Reader
                 PROVE  BroadcastsTo(m)' \subseteq UnreadBroadcasts(m)' \cup Settled(m)'
      BY DEF BroadcastsAreAccounted, Settled, Holds
    <2> QED
      BY <1>1, <1>6
  <1> QED
    BY <1>3, <1>4, <1>5, <1>7, <1>8, <1>9 DEF IInv

\* The steps that move one loop and neither mark nor hand over.
LEMMA LoopIInv ==
    ASSUME IInv, NEW m \in Reader,
           Wake(m) \/ ReadDirect(m) \/ ReadBroadcasts(m) \/ Defer(m) \/ Crash(m)
    PROVE  IInv'
  <1>0. /\ drain[m] \in DrainState /\ drain \in [Reader -> DrainState]
        /\ UnreadDirect(m) \cup UnreadBroadcasts(m) \subseteq Message
        /\ Holds(m) \cup Seen(m) \subseteq Message
        /\ Idle \in DrainState /\ Idle.at = "idle"
        /\ dropped \in [Reader -> SUBSET Message] /\ unmarked \in [Reader -> SUBSET Message]
        /\ DirectTo(m) \cap Broadcasts = {} /\ UnreadDirect(m) \subseteq DirectTo(m)
    BY Facts DEF IInv, TypeOK, DrainState, UnreadDirect, UnreadBroadcasts, Idle
  <1>1. UNCHANGED <<clock, row, isRead, readAt, interrupt, offered, backend>>
    BY DEF Wake, ReadDirect, ReadDirectAs, ReadBroadcasts, Collect, Defer, Crash
  <1>2. PICK new \in DrainState :
          /\ drain' = [drain EXCEPT ![m] = new]
          /\ new.at \in {"idle", "direct", "broadcasts", "deliver"}
          /\ new.at # "idle" => /\ drain[m].at # "mark"
                                /\ new.seen \subseteq Seen(m)
                                /\ new.batch \subseteq Holds(m) \cup UnreadDirect(m)
                                                        \cup UnreadBroadcasts(m)
          /\ new.at = "direct" => new.batch = {}
          /\ new.at = "broadcasts" => Holds(m) = {}
          /\ new.at = "direct" => Holds(m) = {}
          /\ backend = "memory" /\ new.at = "deliver" =>
               Holds(m) \cup UnreadBroadcasts(m) \subseteq new.batch \cup Seen(m)
          /\ new.at = "idle" => \/ Defer(m) \/ Crash(m)
                                \/ drain[m].at # "mark" /\ Holds(m) \subseteq Seen(m)
    <2>1. CASE Wake(m)
      <3>1. [at |-> "direct", batch |-> {}, seen |-> {}] \in DrainState
        BY DEF DrainState
      <3> QED
        BY <2>1, <3>1 DEF Wake, Loop, Holds
    <2>2. CASE ReadDirect(m)
      <3>1. PICK read \in SUBSET UnreadDirect(m) : ReadDirectAs(m, read)
        BY <2>2 DEF ReadDirect, Answers
      <3> DEFINE new == [at |-> "broadcasts", batch |-> read, seen |-> drain[m].seen]
      <3>2. drain[m].at = "direct" /\ drain[m].seen = Seen(m) /\ Holds(m) = {}
        BY <3>1 DEF ReadDirectAs, Seen, IInv, HoldsItsOwn
      <3>3. new \in DrainState
        BY <1>0, <3>2 DEF DrainState
      <3>4. drain' = [drain EXCEPT ![m] = new]
        BY <3>1 DEF ReadDirectAs, Loop
      <3> QED
        BY <3>2, <3>3, <3>4
    <2>3. CASE ReadBroadcasts(m)
      <3>1. PICK read \in SUBSET UnreadBroadcasts(m) :
              /\ Collect(m, drain[m].batch \cup read)
              /\ backend = "memory" => read = UnreadBroadcasts(m)
        BY <2>3 DEF ReadBroadcasts, Answers
      <3> DEFINE fresh == (drain[m].batch \cup read) \ drain[m].seen
                 new == [at |-> "deliver", batch |-> fresh, seen |-> drain[m].seen]
      <3>2. drain[m].at = "broadcasts" /\ drain[m].seen = Seen(m) /\ drain[m].batch = Holds(m)
        BY <3>1 DEF Collect, Seen, Holds
      <3>3. new \in DrainState /\ fresh = (Holds(m) \cup read) \ Seen(m)
        BY <1>0, <3>2 DEF DrainState
      <3>4. IF fresh = {} THEN drain' = [drain EXCEPT ![m] = Idle]
            ELSE drain' = [drain EXCEPT ![m] = new]
        BY <3>1 DEF Collect, Loop
      <3>5. new.at = "deliver" /\ new.batch = fresh /\ new.seen = Seen(m)
        BY <3>2
      <3> HIDE DEF new, fresh
      <3> QED
        BY <1>0, <3>1, <3>2, <3>3, <3>4, <3>5
    <2>4. CASE Defer(m) \/ Crash(m)
      BY <1>0, <2>4 DEF Defer, Crash, Forget
    <2> QED
      BY <2>1, <2>2, <2>3, <2>4
  <1>3. /\ drain' \in [Reader -> DrainState] /\ drain'[m] = new
        /\ \A n \in Reader : n # m => drain'[n] = drain[n]
    BY <1>0, <1>2
  <1>4. \A n \in Reader : n # m => /\ Holds(n)' = Holds(n) /\ Seen(n)' = Seen(n)
                                   /\ Current(n)' = Current(n)
    BY <1>3 DEF Holds, Seen, Current
  <1>5. /\ Current(m)' = {}
        /\ Holds(m)' = IF new.at = "idle" THEN {} ELSE new.batch
        /\ Seen(m)' = IF new.at = "idle" THEN {} ELSE new.seen
    BY <1>2, <1>3 DEF Holds, Seen, Current
  <1>6. /\ unmarked' \in [Reader -> SUBSET Message] /\ dropped' \in [Reader -> SUBSET Message]
        /\ \A n \in Reader : unmarked[n] \subseteq unmarked'[n] /\ dropped[n] \subseteq dropped'[n]
        /\ Current(m) \subseteq unmarked'[m]
        /\ Defer(m) \/ Crash(m) => Holds(m) \cap Broadcasts \subseteq UnreadBroadcasts(m) \cup dropped'[m]
    <2>1. CASE Defer(m) \/ Crash(m)
      <3> DEFINE lost == {x \in drain[m].batch \cap Broadcasts : x \notin UnreadBroadcasts(m)}
      <3>0. drain[m].at # "idle"
        <4>1. drain[m].at = "idle" => drain[m] = Idle
          BY <1>0 DEF DrainState, Idle
        <4> QED
          BY <2>1, <4>1 DEF Defer, Crash
      <3>1. dropped' = [dropped EXCEPT ![m] = @ \cup lost]
        BY <2>1 DEF Defer, Crash, Forget
      <3>2. lost = {x \in Holds(m) \cap Broadcasts : x \notin UnreadBroadcasts(m)}
        BY <3>0 DEF Holds
      <3> HIDE DEF lost
      <3>3. /\ dropped' \in [Reader -> SUBSET Message]
            /\ \A n \in Reader : dropped[n] \subseteq dropped'[n]
            /\ Holds(m) \cap Broadcasts \subseteq UnreadBroadcasts(m) \cup dropped'[m]
        BY <1>0, <3>1, <3>2
      <3>4. /\ unmarked' \in [Reader -> SUBSET Message]
            /\ \A n \in Reader : unmarked[n] \subseteq unmarked'[n]
            /\ Current(m) \subseteq unmarked'[m]
        <4>1. CASE drain[m].at = "mark"
          <5>1. Crash(m) /\ Current(m) = {drain[m].current} /\ drain[m].current \in Message
            BY <1>0, <2>1, <4>1, Facts DEF Defer, Current
          <5> QED
            BY <1>0, <4>1, <5>1 DEF Crash
        <4>2. CASE drain[m].at # "mark"
          BY <1>0, <2>1, <4>2 DEF Defer, Crash, Current
        <4> QED
          BY <4>1, <4>2
      <3> QED
        BY <3>3, <3>4
    <2>2. CASE ~(Defer(m) \/ Crash(m))
      BY <1>0, <2>2 DEF Wake, ReadDirect, ReadDirectAs, ReadBroadcasts, Collect, history, Current
    <2> QED
      BY <2>1, <2>2
  <1>7. TypeOK' /\ clock' >= clock
    BY <1>1, <1>6, MailboxAssumption DEF IInv, TypeOK
  <1>8. Current(m) # {} => Holds(m)' = {}
    BY <1>2, <1>5 DEF Current
  <1>9. /\ Seen(m)' \subseteq Seen(m)
        /\ Holds(m)' \subseteq Holds(m) \cup UnreadDirect(m) \cup UnreadBroadcasts(m)
        /\ drain'[m].at = "direct" => Holds(m)' = {}
    BY <1>2, <1>3, <1>5
  <1>10. Seen(m) \subseteq offered[m]
    BY DEF IInv, HoldsItsOwn
  <1>11. ASSUME backend = "memory"
         PROVE  /\ Holds(m) \cap Broadcasts
                     \subseteq Holds(m)' \cup UnreadBroadcasts(m) \cup offered[m] \cup dropped'[m]
                /\ drain'[m].at \in {"deliver", "mark"} =>
                     UnreadBroadcasts(m) \subseteq Holds(m)' \cup Seen(m)
    BY <1>2, <1>3, <1>5, <1>6, <1>10, <1>11
  <1>12. Quiet(m)
    BY <1>5, <1>6, <1>8, <1>9, <1>11 DEF Quiet
  <1>13. ASSUME NEW n \in Reader, n # m PROVE Quiet(n)
    BY <1>3, <1>4, <1>6, <1>13 DEF Quiet, IInv, HoldsItsOwn
  <1> QED
    BY <1>1, <1>3, <1>7, <1>12, <1>13, QuietStep

LEMMA AgentIInv ==
    ASSUME IInv, Tick \/ \E m \in Reader : RaiseInterrupt(m) \/ ResolveInterrupt(m)
    PROVE  IInv'
  <1>1. UNCHANGED <<row, isRead, readAt, drain, offered, backend, unmarked, dropped>>
    BY DEF Tick, RaiseInterrupt, ResolveInterrupt, history
  <1>2. TypeOK' /\ clock' >= clock
    BY <1>1, MailboxAssumption DEF IInv, TypeOK, Tick, RaiseInterrupt, ResolveInterrupt
  <1>3. \A m \in Reader : Holds(m)' = Holds(m) /\ Seen(m)' = Seen(m) /\ Current(m)' = Current(m)
    BY <1>1 DEF Holds, Seen, Current
  <1>4. \A m \in Reader : drain[m].at = "direct" => Holds(m) = {}
    BY DEF IInv, HoldsItsOwn
  <1> QED
    <2>1. \A m \in Reader : Quiet(m)
      BY <1>1, <1>3, <1>4 DEF Quiet
    <2> QED
      BY <1>1, <1>2, <2>1, QuietStep DEF IInv

\* A hand-over: the message leaves the batch, and is about to be marked.
LEMMA DeliverIInv ==
    ASSUME IInv, NEW m \in Reader, NEW x \in Message, Deliver(m, x) PROVE IInv'
  <1> DEFINE new == [at |-> "mark", batch |-> drain[m].batch \ {x},
                     seen |-> drain[m].seen \cup {x}, current |-> x]
  <1>1. /\ drain[m].at = "deliver" /\ x \in Holds(m)
        /\ Holds(m) = drain[m].batch /\ Seen(m) = drain[m].seen /\ Current(m) = {}
        /\ offered' = [offered EXCEPT ![m] = @ \cup {x}]
        /\ drain' = [drain EXCEPT ![m] = new]
        /\ UNCHANGED <<clock, row, isRead, readAt, interrupt, crashes, backend, unmarked, dropped>>
    BY DEF Deliver, Holds, Seen, Current, history
  <1>2. /\ new \in DrainState /\ new.at = "mark" /\ new.current = x
        /\ new.batch = Holds(m) \ {x} /\ new.seen = Seen(m) \cup {x}
    BY <1>1 DEF IInv, DrainState
  <1> HIDE DEF new
  <1>3. /\ drain' \in [Reader -> DrainState] /\ drain'[m] = new
        /\ \A n \in Reader : n # m => /\ drain'[n] = drain[n] /\ Holds(n)' = Holds(n)
                                      /\ Seen(n)' = Seen(n) /\ Current(n)' = Current(n)
        /\ Holds(m)' = Holds(m) \ {x} /\ Seen(m)' = Seen(m) \cup {x} /\ Current(m)' = {x}
    BY <1>1, <1>2 DEF IInv, Holds, Seen, Current
  <1>4. /\ offered' \in [Reader -> SUBSET Message] /\ offered'[m] = offered[m] \cup {x}
        /\ \A n \in Reader : n # m => offered'[n] = offered[n]
        /\ \A n \in Reader : offered[n] \subseteq offered'[n]
    BY <1>1 DEF IInv, TypeOK
  <1>5. TypeOK'
    BY <1>1, <1>4 DEF IInv, TypeOK
  <1>6. /\ Sent' = Sent /\ Broadcasts' = Broadcasts
        /\ \A n \in Reader : /\ DirectTo(n)' = DirectTo(n) /\ BroadcastsTo(n)' = BroadcastsTo(n)
                             /\ UnreadDirect(n)' = UnreadDirect(n) /\ Marked(n)' = Marked(n)
                             /\ UnreadBroadcasts(n)' = UnreadBroadcasts(n)
    BY <1>1 DEF Sent, DirectTo, BroadcastsTo, Broadcasts, UnreadDirect, UnreadBroadcasts, Marked
  <1>7. RowsAreSound'
    <2>1. ASSUME NEW n \in Reader, readAt'[n] # 0
          PROVE  \E y \in offered'[n] \cap Broadcasts' : row'[y].time = readAt'[n]
      BY <1>1, <1>4, <1>6, <2>1 DEF IInv, RowsAreSound
    <2> QED
      BY <1>1, <1>6, <2>1 DEF IInv, RowsAreSound
  <1>8. HoldsItsOwn'
    <2>1. ASSUME NEW n \in Reader
          PROVE  /\ Holds(n)' \cup offered'[n] \subseteq DirectTo(n) \cup BroadcastsTo(n)
                 /\ Seen(n)' \cup Current(n)' \subseteq offered'[n]
                 /\ Holds(n)' \cap Current(n)' = {}
                 /\ drain'[n].at = "direct" => Holds(n)' = {}
      <3>1. CASE n = m
        BY <3>1, <1>1, <1>2, <1>3, <1>4 DEF IInv, HoldsItsOwn
      <3>2. CASE n # m
        BY <3>2, <1>3, <1>4 DEF IInv, HoldsItsOwn
      <3> QED
        BY <3>1, <3>2
    <2> QED
      BY <1>6, <2>1 DEF HoldsItsOwn
  <1>9. HandedOverIsMarked'
    <2>1. ASSUME NEW n \in Reader
          PROVE  /\ Holds(n)' \cap offered'[n] \subseteq unmarked[n]
                 /\ offered'[n] \subseteq Marked(n) \cup Current(n)' \cup unmarked[n]
      <3>1. CASE n = m
        BY <3>1, <1>1, <1>3, <1>4 DEF IInv, HandedOverIsMarked
      <3>2. CASE n # m
        BY <3>2, <1>3, <1>4 DEF IInv, HandedOverIsMarked
      <3> QED
        BY <3>1, <3>2
    <2> QED
      BY <1>1, <1>6, <2>1 DEF HandedOverIsMarked
  <1>10. \A n \in Reader : Settled(n) \subseteq Settled(n)'
    <2> SUFFICES ASSUME NEW n \in Reader, NEW z \in Settled(n) PROVE z \in Settled(n)'
      OBVIOUS
    <2>1. Holds(n) \cup offered[n] \subseteq Holds(n)' \cup offered'[n]
      BY <1>3, <1>4
    <2> QED
      BY <2>1, <1>1, <1>4, <1>6 DEF Settled
  <1>11. BatchIsComplete'
    <2> SUFFICES ASSUME backend = "memory", NEW n \in Reader, drain'[n].at \in {"deliver", "mark"},
                        NEW y \in (Holds(n)' \cup Current(n)') \cap Broadcasts,
                        NEW z \in BroadcastsTo(n), row[z].time < row[y].time
                 PROVE  z \in Settled(n)
      BY <1>1, <1>6, <1>10 DEF BatchIsComplete
    <2>1. drain[n].at \in {"deliver", "mark"} /\ y \in Holds(n) \cup Current(n)
      <3>1. CASE n = m
        BY <3>1, <1>1, <1>3
      <3>2. CASE n # m
        BY <3>2, <1>3
      <3> QED
        BY <3>1, <3>2
    <2> QED
      BY <2>1 DEF IInv, BatchIsComplete
  <1>12. DirectIsUnreadOrOffered'
    BY <1>4, <1>6 DEF IInv, DirectIsUnreadOrOffered
  <1>13. BroadcastsAreAccounted'
    <2> SUFFICES ASSUME backend = "memory", NEW n \in Reader
                 PROVE  BroadcastsTo(n)' \subseteq UnreadBroadcasts(n)' \cup Settled(n)'
      BY <1>1 DEF BroadcastsAreAccounted, Settled, Holds
    <2> QED
      BY <1>6, <1>10, Accounted
  <1> QED
    BY <1>3, <1>5, <1>7, <1>8, <1>9, <1>11, <1>12, <1>13 DEF IInv

\* The mark, whether it succeeds or not: only a message that was handed over is flagged,
\* and only for its member, and a watermark moves to one that was.
LEMMA MarkIInv == ASSUME IInv, NEW m \in Reader, MarkMessageRead(m) PROVE IInv'
  <1> DEFINE x == drain[m].current
             at == IF drain[m].batch = {} THEN "direct" ELSE "deliver"
             new == [at |-> at, batch |-> drain[m].batch, seen |-> drain[m].seen]
  <1>1. /\ drain[m].at = "mark" /\ drain[m] \in DrainState /\ m \in Member
        /\ drain' = [drain EXCEPT ![m] = new]
        /\ UNCHANGED <<clock, row, interrupt, offered, crashes, backend, dropped>>
    BY MailboxAssumption DEF MarkMessageRead, Marks, Loop, IInv
  <1>2. /\ Current(m) = {x} /\ Holds(m) = drain[m].batch /\ Seen(m) = drain[m].seen
        /\ x \in Message /\ x \in offered[m] /\ x \notin Holds(m) /\ x \in Sent
        /\ x \in DirectTo(m) \cup BroadcastsTo(m)
    <2>1. Current(m) = {x} /\ Holds(m) = drain[m].batch /\ Seen(m) = drain[m].seen
      BY <1>1 DEF Current, Holds, Seen
    <2> QED
      BY <2>1, Facts DEF IInv, HoldsItsOwn
  <1>3. /\ new \in DrainState /\ new.batch = Holds(m) /\ new.seen = Seen(m)
        /\ new.at \in {"direct", "deliver"} /\ (new.at = "direct" => Holds(m) = {})
    BY <1>1, <1>2 DEF DrainState
  <1>4. \/ /\ row[x].to = Everyone
           /\ readAt' = [readAt EXCEPT ![m] = IF row[x].time > @ THEN row[x].time ELSE @]
           /\ UNCHANGED isRead /\ unmarked' = [unmarked EXCEPT ![m] = @ \ {x}]
        \/ /\ row[x].to # Everyone
           /\ isRead' = isRead \cup {x}
           /\ UNCHANGED readAt /\ unmarked' = [unmarked EXCEPT ![m] = @ \ {x}]
        \/ UNCHANGED <<isRead, readAt>> /\ unmarked' = [unmarked EXCEPT ![m] = @ \cup {x}]
    BY DEF MarkMessageRead, Marks, Watermark
  <1>5. row[x].time \in 0 .. MaxTime /\ row[x].time \in Nat /\ readAt \in [Member -> 0 .. MaxTime]
        /\ unmarked \in [Reader -> SUBSET Message]
    BY <1>2, MailboxAssumption DEF IInv, TypeOK
  <1>6. /\ row[x].to = Everyone <=> x \in BroadcastsTo(m)
        /\ row[x].to # Everyone => row[x].to = m
        /\ x \in BroadcastsTo(m) => x \in Broadcasts
    BY <1>1, <1>2, MailboxAssumption DEF DirectTo, BroadcastsTo, Broadcasts
  <1> HIDE DEF x, at, new
  <1>7. /\ drain' \in [Reader -> DrainState] /\ drain'[m] = new
        /\ \A n \in Reader : n # m => drain'[n] = drain[n] /\ Current(n)' = Current(n)
        /\ \A n \in Reader : Holds(n)' = Holds(n) /\ Seen(n)' = Seen(n)
        /\ Current(m)' = {}
    BY <1>1, <1>2, <1>3 DEF IInv, Holds, Seen, Current
  <1>8. /\ readAt' \in [Member -> 0 .. MaxTime] /\ isRead \subseteq isRead'
        /\ \A n \in Member : n # m => readAt'[n] = readAt[n]
        /\ readAt'[m] # readAt[m] => /\ x \in BroadcastsTo(m) /\ readAt'[m] = row[x].time
                                     /\ readAt[m] < row[x].time
        /\ \A y \in isRead' : y \in isRead \/ (y = x /\ row[x].to = m)
    BY <1>1, <1>4, <1>5, <1>6
  <1>9. /\ unmarked' \in [Reader -> SUBSET Message]
        /\ \A n \in Reader : n # m => unmarked'[n] = unmarked[n]
        /\ unmarked[m] \subseteq unmarked'[m] \cup {x}
    BY <1>2, <1>4, <1>5
  <1>10. TypeOK'
    BY <1>1, <1>2, <1>8, <1>9 DEF IInv, TypeOK
  <1>11. /\ Sent' = Sent /\ Broadcasts' = Broadcasts
         /\ \A n \in Reader : /\ DirectTo(n)' = DirectTo(n) /\ BroadcastsTo(n)' = BroadcastsTo(n)
                              /\ n \in Member
    BY <1>1, MailboxAssumption DEF Sent, DirectTo, BroadcastsTo, Broadcasts
  <1>12. RowsAreSound'
    <2>1. isRead' \subseteq Sent
      BY <1>2, <1>8 DEF IInv, RowsAreSound
    <2>2. ASSUME NEW n \in Reader, readAt'[n] # 0
          PROVE  \E y \in offered[n] \cap Broadcasts : row[y].time = readAt'[n]
      BY <1>2, <1>6, <1>8, <1>11, <2>2 DEF IInv, RowsAreSound
    <2> QED
      BY <1>1, <1>11, <2>1, <2>2 DEF IInv, RowsAreSound
  <1>13. HoldsItsOwn'
    <2>1. ASSUME NEW n \in Reader
          PROVE  /\ Holds(n)' \cup offered'[n] \subseteq DirectTo(n) \cup BroadcastsTo(n)
                 /\ Seen(n)' \cup Current(n)' \subseteq offered'[n]
                 /\ Holds(n)' \cap Current(n)' = {}
                 /\ drain'[n].at = "direct" => Holds(n)' = {}
      <3>1. CASE n = m
        BY <3>1, <1>1, <1>3, <1>7 DEF IInv, HoldsItsOwn
      <3>2. CASE n # m
        BY <3>2, <1>1, <1>7 DEF IInv, HoldsItsOwn
      <3> QED
        BY <3>1, <3>2
    <2> QED
      BY <1>11, <2>1 DEF HoldsItsOwn
  <1>14. \A n \in Reader : Marked(n) \subseteq Marked(n)'
    <2> SUFFICES ASSUME NEW n \in Reader, NEW y \in BroadcastsTo(n), row[y].time <= readAt[n]
                 PROVE  row'[y].time <= readAt'[n]
      BY <1>8, <1>11 DEF Marked
    <2>1. n \in Member /\ row[y].time \in Nat /\ readAt[n] \in Nat /\ readAt'[n] \in Nat
      BY <1>8, Facts, MailboxAssumption
    <2> QED
      BY <1>1, <1>5, <1>8, <2>1
  <1>15. x \in Marked(m)' \cup unmarked'[m]
    <2>1. CASE x \in unmarked'[m]
      BY <2>1
    <2>2. CASE x \notin unmarked'[m]
      <3>1. \/ row[x].to = Everyone /\ readAt' = [readAt EXCEPT ![m] = IF row[x].time > @ THEN row[x].time ELSE @]
            \/ row[x].to # Everyone /\ x \in isRead'
        BY <1>4, <1>5, <2>2
      <3>2. row[x].to = Everyone => row'[x].time <= readAt'[m]
        BY <1>1, <1>5, <3>1
      <3>3. row[x].to # Everyone => x \in DirectTo(m)' /\ x \in isRead'
        BY <1>2, <1>6, <1>11, <3>1
      <3> QED
        BY <1>6, <1>11, <3>2, <3>3 DEF Marked
    <2> QED
      BY <2>1, <2>2
  <1>16. HandedOverIsMarked'
    <2>1. ASSUME NEW n \in Reader
          PROVE  /\ Holds(n)' \cap offered'[n] \subseteq unmarked'[n]
                 /\ offered'[n] \subseteq Marked(n)' \cup Current(n)' \cup unmarked'[n]
      <3>1. CASE n = m
        BY <3>1, <1>1, <1>2, <1>7, <1>9, <1>14, <1>15 DEF IInv, HandedOverIsMarked
      <3>2. CASE n # m
        BY <3>2, <1>1, <1>7, <1>9, <1>14 DEF IInv, HandedOverIsMarked
      <3> QED
        BY <3>1, <3>2
    <2> QED
      BY <2>1 DEF HandedOverIsMarked
  <1>17. \A n \in Reader : Settled(n)' = Settled(n)
    BY <1>1, <1>7, <1>11 DEF Settled
  <1>18. BatchIsComplete'
    <2> SUFFICES ASSUME backend = "memory", NEW n \in Reader, drain'[n].at \in {"deliver", "mark"},
                        NEW y \in (Holds(n)' \cup Current(n)') \cap Broadcasts,
                        NEW z \in BroadcastsTo(n), row[z].time < row[y].time
                 PROVE  z \in Settled(n)
      BY <1>1, <1>11, <1>17 DEF BatchIsComplete
    <2>1. drain[n].at \in {"deliver", "mark"} /\ y \in Holds(n) \cup Current(n)
      <3>1. CASE n = m
        BY <3>1, <1>1, <1>7
      <3>2. CASE n # m
        BY <3>2, <1>7
      <3> QED
        BY <3>1, <3>2
    <2> QED
      BY <2>1 DEF IInv, BatchIsComplete
  <1>19. DirectIsUnreadOrOffered'
    <2> SUFFICES ASSUME NEW n \in Reader, NEW y \in DirectTo(n), y \in isRead', y \notin isRead
                 PROVE  y \in offered[n]
      BY <1>1, <1>11 DEF IInv, DirectIsUnreadOrOffered, UnreadDirect
    <2>1. y = x /\ n = m
      BY <1>8 DEF DirectTo
    <2> QED
      BY <1>2, <2>1
  <1>20. BroadcastsAreAccounted'
    <2> SUFFICES ASSUME backend = "memory", NEW n \in Reader, NEW z \in BroadcastsTo(n),
                        z \notin Settled(n)
                 PROVE  z \in UnreadBroadcasts(n)'
      BY <1>1, <1>11, <1>17 DEF BroadcastsAreAccounted, Settled, Holds
    <2>1. z \in UnreadBroadcasts(n) /\ row[z].time \in Nat /\ row[z].time > readAt[n]
      BY Accounted, UnreadIsAbove, Facts
    <2>2. CASE readAt'[n] = readAt[n]
      BY <1>1, <1>11, <2>1, <2>2 DEF UnreadBroadcasts
    <2>3. CASE readAt'[n] # readAt[n]
      <3>1. n = m /\ x \in BroadcastsTo(m) /\ readAt'[m] = row[x].time
        BY <1>8, <1>11, <2>3
      <3>2. ~(row[z].time < row[x].time)
        BY <1>1, <1>2, <1>6, <3>1 DEF IInv, BatchIsComplete
      <3>3. row[z].time # row[x].time
        BY <1>2, <1>6, <3>1 DEF Settled
      <3>4. row'[z].time > readAt'[n]
        BY <1>1, <1>5, <2>1, <3>1, <3>2, <3>3
      <3> QED
        BY <1>11, <3>4 DEF UnreadBroadcasts
    <2> QED
      BY <2>2, <2>3
  <1> QED
    BY <1>7, <1>10, <1>12, <1>13, <1>16, <1>18, <1>19, <1>20 DEF IInv

LEMMA NextIInv == IInv /\ [Next]_vars => IInv'
  <1> SUFFICES ASSUME IInv, [Next]_vars PROVE IInv'
    OBVIOUS
  <1>1. CASE Tick
    BY <1>1, AgentIInv
  <1>2. ASSUME NEW m \in Member, NEW x \in Message,
               BroadcastMessage(x, m) \/ \E n \in Member : SendMessage(x, m, n)
        PROVE  IInv'
    BY <1>2, CreateIInv DEF SendMessage, BroadcastMessage
  <1>3. ASSUME NEW m \in Reader, NEW x \in Message, Deliver(m, x) PROVE IInv'
    BY <1>3, DeliverIInv
  <1>4. ASSUME NEW m \in Reader, MarkMessageRead(m) PROVE IInv'
    BY <1>4, MarkIInv
  <1>5. ASSUME NEW m \in Reader,
               Wake(m) \/ ReadDirect(m) \/ ReadBroadcasts(m) \/ Defer(m) \/ Crash(m)
        PROVE  IInv'
    BY <1>5, LoopIInv
  <1>6. ASSUME NEW m \in Reader, RaiseInterrupt(m) \/ ResolveInterrupt(m) PROVE IInv'
    BY <1>6, AgentIInv
  <1>7. CASE UNCHANGED vars
    <2>1. \A m \in Reader : Quiet(m)
      BY <1>7 DEF vars, history, Quiet, Holds, Seen, Current, IInv, HoldsItsOwn
    <2>2. TypeOK' /\ clock' >= clock
      BY <1>7, MailboxAssumption DEF vars, history, IInv, TypeOK
    <2> QED
      BY <1>7, <2>1, <2>2, QuietStep DEF vars, IInv
  <1> QED
    BY <1>1, <1>2, <1>3, <1>4, <1>5, <1>6, <1>7 DEF Next

\* The inductive invariant holds of every behaviour of the mailbox.
THEOREM MailboxInvariant == Spec => []IInv
  BY InitIInv, NextIInv, PTL DEF Spec

\* Whatever crashes, fails or is interrupted, a direct message is unread until the agent
\* of its addressee was given it.
THEOREM DirectIsKept == Spec => []DirectIsUnreadOrOffered
  BY MailboxInvariant, PTL DEF IInv

\* On the memory backend a broadcast is unread, at hand or was handed over, but for the two
\* ways of losing it: dropped with a batch behind a newer one that is marked, and stamped in
\* the millisecond of one that was handed over.
THEOREM BroadcastsAreKept == Spec => []BroadcastsAreAccounted
  BY MailboxInvariant, PTL DEF IInv

\* On either backend, no message is handed to an agent twice unless its mark did not
\* succeed or was cut off.
THEOREM NoneIsRepeated == Spec => OfferedOnce
  <1>1. ASSUME IInv, [Next]_vars, NEW m \in Reader,
               drain'[m].at = "mark", drain[m].at # "mark"
        PROVE  drain'[m].current \notin offered[m] \ unmarked[m]
    <2>0. m \in Reader /\ drain \in [Reader -> DrainState]
      BY <1>1 DEF IInv
    <2>1. CASE UNCHANGED vars
      BY <1>1, <2>1 DEF vars
    <2>2. ASSUME NEW n \in Reader, NEW x \in Message, Deliver(n, x)
          PROVE  drain'[m].current \notin offered[m] \ unmarked[m]
      <3>1. n = m
        BY <1>1, <2>0, <2>2 DEF Deliver
      <3>2. x \in Holds(m)
        BY <2>2, <3>1 DEF Deliver, Holds
      <3>3. drain'[m] = [at |-> "mark", batch |-> drain[m].batch \ {x},
                         seen |-> drain[m].seen \cup {x}, current |-> x]
        BY <2>0, <2>2, <3>1 DEF Deliver
      <3>4. drain'[m].current = x
        BY <3>3
      <3> QED
        BY <1>1, <3>2, <3>4 DEF IInv, HandedOverIsMarked
    <2>3. ASSUME UNCHANGED drain PROVE FALSE
      BY <1>1, <2>3
    <2>4. ASSUME NEW n \in Reader,
                 Wake(n) \/ ReadDirect(n) \/ ReadBroadcasts(n) \/ MarkMessageRead(n)
                 \/ Defer(n) \/ Crash(n)
          PROVE  FALSE
      <3>1. n = m
        BY <1>1, <2>0, <2>4 DEF Wake, ReadDirect, ReadDirectAs, ReadBroadcasts, Collect,
           MarkMessageRead, Marks, Defer, Crash, Forget, Loop
      <3>2. ~MarkMessageRead(m)
        BY <1>1 DEF MarkMessageRead, Marks
      <3>3. drain'[m].at # "mark"
        BY <2>0, <2>4, <3>1, <3>2 DEF Wake, ReadDirect, ReadDirectAs, ReadBroadcasts, Collect,
           Defer, Crash, Forget, Loop, Idle
      <3> QED
        BY <1>1, <3>3
    <2> QED
      BY <1>1, <2>1, <2>2, <2>3, <2>4 DEF Next, Tick, SendMessage, BroadcastMessage,
         CreateMessage, RaiseInterrupt, ResolveInterrupt
  <1>2. IInv /\ [Next]_vars => [\A m \in Reader :
          (drain'[m].at = "mark" /\ drain[m].at # "mark")
            => drain'[m].current \notin offered[m] \ unmarked[m]]_vars
    BY <1>1
  <1> QED
    BY <1>2, MailboxInvariant, PTL DEF Spec, OfferedOnce
=============================================================================
