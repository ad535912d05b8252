------------------------- MODULE TeamRuntimeProofs -------------------------
(***************************************************************************)
(* Theorems about TeamRuntime, for any runs, payloads, managers and sessions: *)
(* what the gate counts, however the callers overlap; what a drained gate    *)
(* promises when runs take turns; what a stream and its cleanup promise when *)
(* nobody stops the team either.                                           *)
(***************************************************************************)
EXTENDS TeamRuntime, SequenceTheorems, FiniteSetTheorems, TLAPS

EntryRec == [session : Session, state : {"running", "paused"}, closed : BOOLEAN,
             inflight : Nat, open : BOOLEAN, overdue : BOOLEAN,
             kernel : {"idle", "running", "paused", "stopped"}]

Sound ==
  /\ session \in [Run -> Session] /\ entries \in Seq(EntryRec)
  /\ pool \in 0..Len(entries) /\ tickets \in [Payload -> 0..Len(entries)]

FinitelyMany == \A e \in Entry : IsFiniteSet(Dispatching(e))

IInv == Sound /\ FinitelyMany /\ GateCountsTickets

LEMMA InitIInv == Init => IInv
  <1> SUFFICES ASSUME Init PROVE IInv
    OBVIOUS
  <1>1. entries \in Seq(EntryRec) /\ Len(entries) = 0 /\ Entry = {}
    BY EmptySeq DEF Init, Entry
  <1>2. Sound
    BY <1>1 DEF Init, Sound
  <1> QED
    BY <1>1, <1>2 DEF IInv, FinitelyMany, GateCountsTickets

LEMMA EntryIs ==
  ASSUME Sound
  PROVE  Len(entries) \in Nat /\ Entry = 1..Len(entries) /\ \A e \in Entry : entries[e] \in EntryRec
  BY LenProperties, ElementOfSeq DEF Sound, Entry

\* Setting the fields of a gate.
LEMMA GatePut ==
  \A rec \in EntryRec, n \in Nat, b \in BOOLEAN :
    /\ [rec EXCEPT !.inflight = n, !.open = b] \in EntryRec
    /\ [rec EXCEPT !.inflight = n, !.open = b].inflight = n
    /\ [rec EXCEPT !.inflight = n, !.open = b].open = b
  BY DEF EntryRec

\* Writing one entry.
LEMMA EntryPut ==
  ASSUME Sound, NEW e \in Entry, NEW new \in EntryRec, entries' = [entries EXCEPT ![e] = new]
  PROVE  /\ entries' \in Seq(EntryRec) /\ Len(entries') = Len(entries) /\ Entry' = Entry
         /\ \A f \in Entry : entries'[f] = IF f = e THEN new ELSE entries[f]
  BY ExceptSeq DEF Sound, Entry

\* An entry that is none of the pool's history is written nowhere.
LEMMA EntryPutNone ==
  ASSUME Sound, NEW e, e \notin Entry, NEW new, entries' = [entries EXCEPT ![e] = new]
  PROVE  entries' = entries
  <1>1. entries \in [Entry -> EntryRec]
    BY LenProperties DEF Sound, Entry
  <1> QED
    BY <1>1

\* A step that leaves gates and tickets alone.
LEMMA GateFrame ==
  ASSUME IInv, UNCHANGED <<session, tickets>>, entries' \in Seq(EntryRec), Len(entries') = Len(entries),
         pool' \in 0..Len(entries),
         \A e \in Entry : entries'[e].inflight = entries[e].inflight /\ entries'[e].open = entries[e].open
  PROVE  IInv'
  <1>1. Entry' = Entry /\ \A e \in Entry : Dispatching(e)' = Dispatching(e)
    BY DEF Entry, Dispatching
  <1>2. Sound'
    BY DEF IInv, Sound, EntryRec
  <1> QED
    BY <1>1, <1>2 DEF IInv, FinitelyMany, GateCountsTickets

\* The same with every entry as it was.
LEMMA SameFrame ==
  ASSUME IInv, UNCHANGED <<session, tickets, entries>>, pool' \in 0..Len(entries)
  PROVE  IInv'
  BY GateFrame DEF IInv, Sound, Entry

\* The steps that set one field beside the gate's.
LEMMA FieldFrame ==
  ASSUME IInv, UNCHANGED <<session, tickets, pool>>, NEW e,
         \/ entries' = [entries EXCEPT ![e].kernel = "running"]
         \/ entries' = [entries EXCEPT ![e].kernel = "paused"]
         \/ entries' = [entries EXCEPT ![e].kernel = "stopped"]
         \/ entries' = [entries EXCEPT ![e].state = "paused"]
         \/ entries' = [entries EXCEPT ![e].closed = TRUE]
         \/ entries' = [entries EXCEPT ![e].overdue = TRUE]
  PROVE  IInv'
  <1>1. Sound /\ pool' \in 0..Len(entries)
    BY DEF IInv, Sound
  <1>2. PICK new :
          /\ entries' = [entries EXCEPT ![e] = new]
          /\ new \in {[entries[e] EXCEPT !.kernel = "running"],
                      [entries[e] EXCEPT !.kernel = "paused"],
                      [entries[e] EXCEPT !.kernel = "stopped"],
                      [entries[e] EXCEPT !.state = "paused"],
                      [entries[e] EXCEPT !.closed = TRUE],
                      [entries[e] EXCEPT !.overdue = TRUE]}
    OBVIOUS
  <1>3. CASE e \in Entry
    <2>1. entries[e] \in EntryRec
      BY <1>1, <1>3, EntryIs
    <2>2. new \in EntryRec /\ new.inflight = entries[e].inflight /\ new.open = entries[e].open
      <3>1. PICK rec \in EntryRec : rec = entries[e]
        BY <2>1
      <3>2. ASSUME NEW k \in {"running", "paused", "stopped"}, new = [rec EXCEPT !.kernel = k]
            PROVE  new \in EntryRec /\ new.inflight = rec.inflight /\ new.open = rec.open
        BY <3>2 DEF EntryRec
      <3>3. CASE new = [rec EXCEPT !.state = "paused"]
        BY <3>1, <3>3 DEF EntryRec
      <3>4. CASE new = [rec EXCEPT !.closed = TRUE]
        BY <3>1, <3>4 DEF EntryRec
      <3>5. CASE new = [rec EXCEPT !.overdue = TRUE]
        BY <3>1, <3>5 DEF EntryRec
      <3> QED
        BY <1>2, <3>1, <3>2, <3>3, <3>4, <3>5, Zenon
    <2>3. /\ entries' \in Seq(EntryRec) /\ Len(entries') = Len(entries)
          /\ \A f \in Entry : entries'[f] = IF f = e THEN new ELSE entries[f]
      BY <1>1, <1>2, <1>3, <2>2, EntryPut
    <2> QED
      BY <1>1, <2>2, <2>3, GateFrame
  <1>4. CASE e \notin Entry
    BY <1>1, <1>2, <1>4, EntryPutNone, SameFrame
  <1> QED
    BY <1>3, <1>4

-----------------------------------------------------------------------------
(* The steps that touch a gate.                                              *)

LEMMA AdmitStep ==
  ASSUME IInv, NEW p \in Payload, Admit(p)
  PROVE  IInv'
  <1>1. Sound /\ Len(entries) \in Nat /\ Entry = 1..Len(entries)
    BY EntryIs DEF IInv
  <1>2. PICK s \in Session : LET e == Resolve(s) IN
          /\ e # 0 /\ tickets' = [tickets EXCEPT ![p] = e]
          /\ entries' = [entries EXCEPT ![e].inflight = @ + 1, ![e].open = TRUE]
    BY DEF Admit
  <1>2a. PICK e : e = Resolve(s)
    OBVIOUS
  <1>2b. e \in Entry
    BY <1>1, <1>2, <1>2a DEF Resolve, Sound
  <1>2c. tickets[p] = 0 /\ UNCHANGED <<session, pool>>
    BY DEF Admit, rigid
  <1>4. entries[e] \in EntryRec /\ entries[e].inflight + 1 \in Nat
    BY <1>1, <1>2b, EntryIs DEF EntryRec
  <1>5. PICK new \in EntryRec :
          /\ new = [entries[e] EXCEPT !.inflight = entries[e].inflight + 1, !.open = TRUE]
          /\ new.inflight = entries[e].inflight + 1 /\ new.open = TRUE
    BY <1>4, GatePut
  <1>3. e \in Entry /\ tickets[p] = 0 /\ tickets' = [tickets EXCEPT ![p] = e]
        /\ entries' = [entries EXCEPT ![e] = new] /\ UNCHANGED <<session, pool>>
    BY <1>2, <1>2a, <1>2b, <1>2c, <1>5
  <1>6. /\ entries' \in Seq(EntryRec) /\ Len(entries') = Len(entries) /\ Entry' = Entry
        /\ \A f \in Entry : entries'[f] = IF f = e THEN new ELSE entries[f]
    BY <1>1, <1>3, <1>5, EntryPut
  <1>7. Sound'
    BY <1>1, <1>3, <1>6 DEF Sound, EntryRec
  <1>8. Dispatching(e)' = Dispatching(e) \cup {p} /\ p \notin Dispatching(e)
        /\ \A f \in Entry \ {e} : Dispatching(f)' = Dispatching(f)
    BY <1>1, <1>3 DEF Dispatching, Sound
  <1>9. IsFiniteSet(Dispatching(e)) /\ entries[e].inflight \in 0..Cardinality(Dispatching(e))
    BY <1>3 DEF IInv, FinitelyMany, GateCountsTickets
  <1>10. IsFiniteSet(Dispatching(e)') /\ Cardinality(Dispatching(e)') = Cardinality(Dispatching(e)) + 1
         /\ Cardinality(Dispatching(e)) \in Nat
    BY <1>8, <1>9, FS_AddElement, FS_CardinalityType
  <1>11. new.inflight \in 0..Cardinality(Dispatching(e)') /\ new.inflight > 0
    BY <1>5, <1>9, <1>10
  <1>12. FinitelyMany'
    BY <1>6, <1>8, <1>10 DEF IInv, FinitelyMany
  <1>13. GateCountsTickets'
    BY <1>3, <1>5, <1>6, <1>8, <1>11 DEF IInv, GateCountsTickets
  <1> QED
    BY <1>7, <1>12, <1>13 DEF IInv

LEMMA DoneStep ==
  ASSUME IInv, NEW p \in Payload, ConsumeDone(p)
  PROVE  IInv'
  <1>0. PICK e, left : e = tickets[p] /\ left = entries[e].inflight - 1
    OBVIOUS
  <1>1. /\ Sound /\ Len(entries) \in Nat /\ Entry = 1..Len(entries)
        /\ e \in Entry /\ entries[e] \in EntryRec
    BY <1>0, EntryIs DEF IInv, Sound, ConsumeDone
  <1>2. tickets' = [tickets EXCEPT ![p] = 0] /\ UNCHANGED <<session, pool>>
    BY DEF ConsumeDone, rigid
  <1>3. IF left < 0 THEN entries' = entries
        ELSE entries' = [entries EXCEPT ![e] = [entries[e] EXCEPT !.inflight = left,
                                                                  !.open = left # 0]]
    BY <1>0 DEF ConsumeDone
  <1>4. Dispatching(e)' = Dispatching(e) \ {p} /\ p \in Dispatching(e)
        /\ \A f \in Entry \ {e} : Dispatching(f)' = Dispatching(f)
    BY <1>0, <1>1, <1>2 DEF Dispatching, Sound
  <1>5. IsFiniteSet(Dispatching(e)) /\ entries[e].inflight \in 0..Cardinality(Dispatching(e))
        /\ (entries[e].open <=> entries[e].inflight > 0)
    BY <1>1 DEF IInv, FinitelyMany, GateCountsTickets
  <1>6. IsFiniteSet(Dispatching(e)') /\ Cardinality(Dispatching(e)') = Cardinality(Dispatching(e)) - 1
        /\ Cardinality(Dispatching(e)) \in Nat /\ Cardinality(Dispatching(e)') \in Nat
    BY <1>4, <1>5, FS_RemoveElement, FS_CardinalityType
  <1>7. /\ entries' \in Seq(EntryRec) /\ Len(entries') = Len(entries) /\ Entry' = Entry
        /\ \A f \in Entry \ {e} : entries'[f] = entries[f]
        /\ entries'[e].inflight \in 0..Cardinality(Dispatching(e)')
        /\ entries'[e].open <=> entries'[e].inflight > 0
    <2>1. CASE left < 0
      <3>1. entries' = entries /\ entries[e].inflight = 0
        BY <1>0, <1>1, <1>3, <2>1 DEF EntryRec
      <3> QED
        BY <1>1, <1>5, <1>6, <3>1 DEF Sound, Entry
    <2>2. CASE ~(left < 0)
      <3>0. left \in Nat
        BY <1>0, <1>1, <2>2 DEF EntryRec
      <3>0a. PICK rec \in EntryRec : rec = entries[e]
        BY <1>1
      <3>1. PICK new : new = [rec EXCEPT !.inflight = left, !.open = left # 0]
        OBVIOUS
      <3>1a. new \in EntryRec /\ new.inflight = left /\ (new.open <=> left # 0)
        BY <3>0, <3>1 DEF EntryRec
      <3>2. entries' = [entries EXCEPT ![e] = new]
        BY <1>3, <2>2, <3>0a, <3>1, Zenon
      <3>3. left \in 0..Cardinality(Dispatching(e)')
        BY <1>0, <1>5, <1>6, <3>0
      <3>4. /\ entries' \in Seq(EntryRec) /\ Len(entries') = Len(entries) /\ Entry' = Entry
            /\ \A f \in Entry : entries'[f] = IF f = e THEN new ELSE entries[f]
        BY <1>1, <3>1a, <3>2, EntryPut
      <3> QED
        <4>1. left # 0 <=> left > 0
          BY <3>0
        <4>2. entries'[e] = new
          BY <1>1, <3>4
        <4>3. entries'[e].open <=> entries'[e].inflight > 0
          BY <3>1a, <4>1, <4>2, Zenon
        <4>4. entries'[e].inflight \in 0..Cardinality(Dispatching(e)')
          BY <3>1a, <3>3, <4>2
        <4> QED
          BY <3>4, <4>3, <4>4
    <2> QED
      BY <2>1, <2>2
  <1>8. Sound'
    BY <1>1, <1>2, <1>7 DEF Sound, EntryRec
  <1>9. \A f \in Entry : /\ IsFiniteSet(Dispatching(f)')
                         /\ entries'[f].inflight \in 0..Cardinality(Dispatching(f)')
                         /\ entries'[f].open <=> entries'[f].inflight > 0
    <2> TAKE f \in Entry
    <2>1. CASE f = e
      BY <1>6, <1>7, <2>1
    <2>2. CASE f # e
      BY <1>4, <1>7, <2>2 DEF IInv, FinitelyMany, GateCountsTickets
    <2> QED
      BY <2>1, <2>2
  <1> QED
    BY <1>7, <1>8, <1>9 DEF IInv, FinitelyMany, GateCountsTickets

\* A Reset forgets what is in flight.
LEMMA ResumeStep ==
  ASSUME IInv, NEW r \in Run, Resume(r)
  PROVE  IInv'
  <1>0. PICK e, new :
          /\ e = calls[r].entry
          /\ new = [entries[e] EXCEPT !.state = "running", !.closed = FALSE,
                                      !.inflight = 0, !.open = FALSE]
    OBVIOUS
  <1>1. Sound /\ Len(entries) \in Nat /\ Entry = 1..Len(entries)
    BY EntryIs DEF IInv
  <1>2. UNCHANGED <<session, pool, tickets>> /\ entries' = [entries EXCEPT ![e] = new]
    BY <1>0 DEF Resume, rigid
  <1>3. CASE e \notin Entry
    <2>1. UNCHANGED entries
      BY <1>1, <1>2, <1>3, EntryPutNone
    <2> QED
      BY <1>1, <1>2, <2>1, SameFrame DEF Sound
  <1>4. CASE e \in Entry
    <2>1. new \in EntryRec /\ new.inflight = 0 /\ ~new.open
      <3>1. entries[e] \in EntryRec
        BY <1>1, <1>4, EntryIs
      <3> QED
        BY <1>0, <3>1 DEF EntryRec
    <2>2. /\ entries' \in Seq(EntryRec) /\ Len(entries') = Len(entries) /\ Entry' = Entry
          /\ \A f \in Entry : entries'[f] = IF f = e THEN new ELSE entries[f]
      BY <1>1, <1>2, <1>4, <2>1, EntryPut
    <2>3. \A f \in Entry : Dispatching(f)' = Dispatching(f) /\ IsFiniteSet(Dispatching(f))
                           /\ Cardinality(Dispatching(f)) \in Nat
      BY <1>2, FS_CardinalityType DEF Dispatching, IInv, FinitelyMany
    <2>4. Sound'
      BY <1>1, <1>2, <2>2 DEF Sound, EntryRec
    <2> QED
      BY <2>1, <2>2, <2>3, <2>4 DEF IInv, FinitelyMany, GateCountsTickets
  <1> QED
    BY <1>3, <1>4

\* A new entry has a gate of its own.
LEMMA BuildStep ==
  ASSUME IInv, NEW r \in Run, Build(r)
  PROVE  IInv'
  <1>0. PICK n, new :
          /\ n = Len(entries) + 1
          /\ new = [session |-> session[r], state |-> "running", closed |-> FALSE,
                    inflight |-> 0, open |-> FALSE, overdue |-> FALSE, kernel |-> "idle"]
    OBVIOUS
  <1>1. Sound /\ Len(entries) \in Nat /\ Entry = 1..Len(entries)
    BY EntryIs DEF IInv
  <1>2. entries' = Append(entries, new) /\ pool' = n /\ UNCHANGED <<session, tickets>>
    BY <1>0 DEF Build, rigid
  <1>3. new \in EntryRec /\ new.inflight = 0 /\ ~new.open
    BY <1>0, <1>1 DEF EntryRec, Sound
  <1>4. /\ entries' \in Seq(EntryRec) /\ Len(entries') = n /\ entries'[n] = new
        /\ \A f \in Entry : entries'[f] = entries[f]
    BY <1>0, <1>1, <1>2, <1>3, AppendProperties DEF Sound
  <1>5. Sound'
    BY <1>0, <1>1, <1>2, <1>4 DEF Sound, EntryRec
  <1>6. Entry' = Entry \cup {n} /\ n \notin Entry
    BY <1>0, <1>1, <1>4 DEF Entry
  <1>7. Dispatching(n)' = {} /\ \A f \in Entry : Dispatching(f)' = Dispatching(f)
    BY <1>0, <1>1, <1>2 DEF Dispatching, Sound
  <1>8. IsFiniteSet({}) /\ Cardinality({}) = 0
    BY FS_EmptySet
  <1>9. FinitelyMany'
    BY <1>6, <1>7, <1>8 DEF IInv, FinitelyMany
  <1>10. entries'[n].inflight \in 0..Cardinality(Dispatching(n)') /\ ~entries'[n].open
         /\ ~(entries'[n].inflight > 0)
    BY <1>3, <1>4, <1>7, <1>8
  <1>11. GateCountsTickets'
    BY <1>4, <1>6, <1>7, <1>10 DEF IInv, GateCountsTickets
  <1> QED
    BY <1>5, <1>9, <1>11 DEF IInv

\* The other steps of a run.
LEMMA OtherRunStep ==
  ASSUME IInv, NEW r \in Run, RunStep(r), ~Resume(r), ~Build(r)
  PROVE  IInv'
  <1>1. pool \in 0..Len(entries)
    BY DEF IInv, Sound
  <1>2. CASE UNCHANGED <<session, tickets, entries, pool>>
    BY <1>1, <1>2, SameFrame
  <1>3. CASE Stream(r)
    BY <1>3, FieldFrame DEF Stream, rigid
  <1>4. CASE DrainTimesOut(r)
    BY <1>4, FieldFrame DEF DrainTimesOut, rigid
  <1>5. CASE CloseGate(r)
    <2>1. CASE UNCHANGED entries
      BY <1>2, <1>5, <2>1 DEF CloseGate, rigid
    <2>2. CASE ~UNCHANGED entries
      BY <1>5, <2>2, FieldFrame DEF CloseGate, rigid
    <2> QED
      BY <2>1, <2>2
  <1> QED
    BY <1>2, <1>3, <1>4, <1>5 DEF RunStep, Look, Decide, ActivateFails, LeaderBuilds, LeaderCleans,
          StreamEnds, Finalize, Drained, rigid

LEMMA KernelStep ==
  ASSUME IInv, NEW a \in Actor, KernelCall(a)
  PROVE  IInv'
  <1>1. CASE Pause(a)
    BY <1>1, FieldFrame DEF Pause, rigid
  <1>2. CASE Stop(a)
    BY <1>2, FieldFrame DEF Stop, rigid
  <1>3. CASE RecordPause(a)
    BY <1>3, FieldFrame DEF RecordPause, rigid
  <1>4. CASE Remove(a)
    <2>1. 0 \in 0..Len(entries)
      BY EntryIs DEF IInv
    <2> QED
      BY <1>4, <2>1, SameFrame DEF Remove, rigid
  <1> QED
    BY <1>1, <1>2, <1>3, <1>4 DEF KernelCall

-----------------------------------------------------------------------------
LEMMA GateStep ==
  ASSUME IInv, [Next]_vars
  PROVE  IInv'
  <1>0. pool \in 0..Len(entries)
    BY DEF IInv, Sound
  <1>1. CASE \E r \in Run : RunStep(r)
    BY <1>1, ResumeStep, BuildStep, OtherRunStep
  <1>2. CASE \E a \in Actor : KernelCall(a)
    BY <1>2, KernelStep
  <1>3. CASE \E m \in Manager : StopTeam(m) \/ PauseTeam(m) \/ DeleteTeam(m) \/ DeleteData(m)
    BY <1>0, <1>3, SameFrame DEF StopTeam, PauseTeam, DeleteTeam, DeleteData, rigid
  <1>4. CASE \E p \in Payload : Admit(p) \/ ConsumeDone(p)
    BY <1>4, AdmitStep, DoneStep
  <1>5. CASE UNCHANGED vars
    BY <1>0, <1>5, SameFrame DEF vars, rigid
  <1> QED
    BY <1>1, <1>2, <1>3, <1>4, <1>5 DEF Next

\* The inductive invariant holds in every reachable state.
THEOREM GateInvariant == Spec => []IInv
  BY InitIInv, GateStep, PTL DEF Spec

\* The gate's count (gate.go, TryAcquire, ConsumeDone and Reset) never exceeds what is
\* in flight and never goes below zero, however runs, resets and payloads interleave,
\* and the drained channel is open exactly while it counts something.
THEOREM GateIsSound == Spec => []GateCountsTickets
  BY GateInvariant, PTL DEF IInv

-----------------------------------------------------------------------------
(* Where the calls are.                                                      *)

PC == {"out", "inspecting", "building", "resuming", "activated", "streaming", "finalizing",
       "stopping", "removing", "pausing", "recording", "closing", "draining", "deleting", "ended"}
CallRec == [pc : PC, entry : Nat, next : {"ended", "inspecting", "closing", "deleting"},
            wait : {"no", "on", "woken", "lost"}]

CallsOK == calls \in [Actor -> CallRec] /\ \A a \in Actor : calls[a].entry <= Len(entries)

\* One call moves.
LEMMA Moved ==
  ASSUME CallsOK, NEW a \in Actor, NEW new \in CallRec, calls' = [calls EXCEPT ![a] = new],
         Len(entries) \in Nat, Len(entries') \in Nat, Len(entries) <= Len(entries'),
         new.entry <= Len(entries')
  PROVE  /\ CallsOK' /\ calls'[a] = new
         /\ \A q \in Actor : q # a => calls'[q] = calls[q]
  <1>1. /\ calls' \in [Actor -> CallRec] /\ calls'[a] = new
        /\ \A q \in Actor : q # a => calls'[q] = calls[q]
    BY DEF CallsOK
  <1>2. \A q \in Actor : calls[q].entry \in Nat /\ calls[q].entry <= Len(entries)
    BY DEF CallsOK, CallRec
  <1>3. \A q \in Actor : calls'[q].entry <= Len(entries')
    BY <1>1, <1>2
  <1> QED
    BY <1>1, <1>3 DEF CallsOK

\* Goto and Jump as such moves.
LEMMA Went ==
  ASSUME CallsOK, NEW a \in Actor, NEW pc \in PC, Goto(a, pc),
         Len(entries) \in Nat, Len(entries') = Len(entries)
  PROVE  /\ CallsOK' /\ calls'[a].pc = pc /\ calls'[a].entry = calls[a].entry
         /\ calls'[a].next = calls[a].next
         /\ \A q \in Actor : q # a => calls'[q] = calls[q]
  <1>1. PICK old \in CallRec : old = calls[a] /\ old.entry <= Len(entries)
    BY DEF CallsOK
  <1>2. PICK new : new = [old EXCEPT !.pc = pc]
    OBVIOUS
  <1>3. new \in CallRec /\ new.pc = pc /\ new.entry = old.entry /\ new.next = old.next
    BY <1>2 DEF CallRec
  <1>4. calls' = [calls EXCEPT ![a] = new]
    BY <1>1, <1>2 DEF Goto
  <1>5. Len(entries') \in Nat /\ Len(entries) <= Len(entries') /\ new.entry <= Len(entries')
    BY <1>1, <1>3
  <1>6. CallsOK' /\ calls'[a] = new /\ \A q \in Actor : q # a => calls'[q] = calls[q]
    BY <1>3, <1>4, <1>5, Moved
  <1> QED
    BY <1>1, <1>3, <1>6

LEMMA Jumped ==
  ASSUME CallsOK, NEW a \in Actor, NEW pc \in PC, Jump(a, pc),
         Len(entries) \in Nat, Len(entries') = Len(entries)
  PROVE  /\ CallsOK' /\ calls'[a].pc = pc /\ calls'[a].entry = 0 /\ calls'[a].next = "ended"
         /\ \A q \in Actor : q # a => calls'[q] = calls[q]
  <1>1. PICK new : new = [NoCall EXCEPT !.pc = pc]
    OBVIOUS
  <1>2. new \in CallRec /\ new.pc = pc /\ new.entry = 0 /\ new.next = "ended"
    BY <1>1 DEF CallRec, NoCall, PC
  <1>3. calls' = [calls EXCEPT ![a] = new]
    BY <1>1 DEF Jump
  <1>4. Len(entries') \in Nat /\ Len(entries) <= Len(entries') /\ new.entry <= Len(entries')
    BY <1>2
  <1>5. CallsOK' /\ calls'[a] = new /\ \A q \in Actor : q # a => calls'[q] = calls[q]
    BY <1>2, <1>3, <1>4, Moved
  <1> QED
    BY <1>2, <1>5

\* A drained channel that is closed or replaced changes what the waiting calls know.
LEMMA Signalled ==
  ASSUME CallsOK, NEW e \in Nat, NEW w \in {"woken", "lost"}, Len(entries') = Len(entries),
         calls' = [a \in Actor |->
            IF calls[a].pc = "draining" /\ calls[a].entry = e /\ calls[a].wait = "on"
            THEN [calls[a] EXCEPT !.wait = w] ELSE calls[a]]
  PROVE  /\ CallsOK'
         /\ \A a \in Actor : /\ calls'[a].pc = calls[a].pc /\ calls'[a].entry = calls[a].entry
                             /\ calls'[a].next = calls[a].next
                             /\ calls'[a].wait = calls[a].wait \/ calls'[a].wait = w
                             /\ calls[a].pc # "draining" \/ calls[a].entry # e
                                  => calls'[a].wait = calls[a].wait
  <1>1. \A a \in Actor : calls[a] \in CallRec /\ calls[a].entry <= Len(entries)
    BY DEF CallsOK
  <1>2. \A a \in Actor : calls'[a] \in CallRec /\ calls'[a].pc = calls[a].pc
                         /\ calls'[a].entry = calls[a].entry /\ calls'[a].next = calls[a].next
                         /\ (calls'[a].wait = calls[a].wait \/ calls'[a].wait = w)
                         /\ (calls[a].pc # "draining" \/ calls[a].entry # e
                              => calls'[a].wait = calls[a].wait)
    BY <1>1 DEF CallRec
  <1>3. calls' \in [Actor -> CallRec]
    BY <1>2
  <1> QED
    BY <1>1, <1>2, <1>3 DEF CallsOK

-----------------------------------------------------------------------------
(* Runs that take turns: a gate that is closed was drained, or the drain ran *)
(* out of time.                                                              *)

Choosing == {"inspecting", "building", "resuming"}

\* A run on its way to CloseGate.
Closes(r) ==
  \/ calls[r].pc \in {"activated", "streaming", "finalizing", "closing"}
  \/ calls[r].pc \in {"stopping", "removing", "pausing", "recording"} /\ calls[r].next = "closing"

OneRun == \A q, r \in Run : ~Idle(q) /\ ~Idle(r) => q = r

\* What a run found in the pool is closed, whoever removes it meanwhile.
FoundClosed ==
  \A r \in Run :
    /\ calls[r].pc \in Choosing /\ calls[r].entry # 0 => entries[calls[r].entry].closed
    /\ calls[r].pc = "resuming" =>
         calls[r].entry # 0 /\ entries[calls[r].entry].session = session[r]

DrainsClosed ==
  \A r \in Run : calls[r].pc = "draining" =>
    /\ calls[r].entry # 0 /\ entries[calls[r].entry].closed
    /\ calls[r].wait = "woken" => entries[calls[r].entry].inflight = 0

OpenIsInUse ==
  pool # 0 /\ ~entries[pool].closed => \E r \in Run : Closes(r) /\ session[r] = entries[pool].session

\* No Reset met a payload, so the count is exact.
ExactCount ==
  \A e \in Entry : ~entries[e].overdue => entries[e].inflight = Cardinality(Dispatching(e))

\* DrainedGateIsEmpty, without its condition on the callers.
Drains ==
  \A e \in Entry : entries[e].closed /\ ~entries[e].overdue /\ Dispatching(e) # {} =>
    \E r \in Run : calls[r].pc = "draining" /\ calls[r].entry = e

Turns == OneRun /\ FoundClosed /\ DrainsClosed /\ OpenIsInUse /\ ExactCount /\ Drains

StoreOK == /\ stored \in BOOLEAN
           /\ bucket \in [Session -> {"none", "pending_create", "created", "cleaned"}]

TurnsInv == IInv /\ CallsOK /\ StoreOK /\ (callers # "eager" => Turns)

\* Writing a field beside the gate's count.
LEMMA SoftWrite ==
  ASSUME Sound, NEW e \in Nat,
         \/ entries' = [entries EXCEPT ![e].kernel = "running"]
         \/ entries' = [entries EXCEPT ![e].kernel = "paused"]
         \/ entries' = [entries EXCEPT ![e].kernel = "stopped"]
         \/ entries' = [entries EXCEPT ![e].state = "paused"]
  PROVE  /\ Len(entries') = Len(entries)
         /\ \A f \in Entry : /\ entries'[f].session = entries[f].session
                             /\ entries'[f].closed = entries[f].closed
                             /\ entries'[f].inflight = entries[f].inflight
                             /\ entries'[f].overdue = entries[f].overdue
  <1>1. PICK new :
          /\ entries' = [entries EXCEPT ![e] = new]
          /\ new \in {[entries[e] EXCEPT !.kernel = "running"],
                      [entries[e] EXCEPT !.kernel = "paused"],
                      [entries[e] EXCEPT !.kernel = "stopped"],
                      [entries[e] EXCEPT !.state = "paused"]}
    OBVIOUS
  <1>2. CASE e \in Entry
    <2>1. entries[e] \in EntryRec
      BY <1>2, EntryIs
    <2>2. /\ new \in EntryRec /\ new.inflight = entries[e].inflight /\ new.closed = entries[e].closed
          /\ new.session = entries[e].session /\ new.overdue = entries[e].overdue
      BY <1>1, <2>1 DEF EntryRec
    <2>3. /\ Len(entries') = Len(entries)
          /\ \A f \in Entry : entries'[f] = IF f = e THEN new ELSE entries[f]
      BY <1>1, <1>2, <2>2, EntryPut
    <2> QED
      BY <2>2, <2>3
  <1>3. CASE e \notin Entry
    <2>1. entries' = entries
      BY <1>1, <1>3, EntryPutNone
    <2> QED
      BY <2>1
  <1> QED
    BY <1>2, <1>3

\* A step that moves one call and leaves gates and tickets alone.
LEMMA TurnsFrame ==
  ASSUME IInv, CallsOK, Turns, callers # "eager",
         UNCHANGED <<session, tickets>>, pool' \in {pool, 0},
         Len(entries') = Len(entries),
         \A f \in Entry : /\ entries'[f].session = entries[f].session
                          /\ entries'[f].closed = entries[f].closed
                          /\ entries'[f].inflight = entries[f].inflight
                          /\ entries'[f].overdue = entries[f].overdue,
         NEW a \in Actor, \A q \in Actor : q # a => calls'[q] = calls[q],
         a \in Run =>
           /\ ~Idle(a) /\ calls[a].pc # "draining" /\ calls'[a].pc # "draining"
           /\ calls'[a].pc \in Choosing /\ calls'[a].entry # 0 =>
                calls[a].pc \in Choosing /\ calls'[a].entry = calls[a].entry
           /\ calls'[a].pc = "resuming" =>
                calls'[a].entry # 0 /\ entries[calls'[a].entry].session = session[a]
           /\ Closes(a) => Closes(a)'
  PROVE  Turns'
  <1>1. Entry' = Entry /\ \A e \in Entry : Dispatching(e)' = Dispatching(e)
    BY DEF Entry, Dispatching
  <1>2. /\ Sound /\ Len(entries) \in Nat /\ Entry = 1..Len(entries)
        /\ Run \subseteq Actor /\ \A r \in Run : calls[r].entry \in 0..Len(entries)
    BY EntryIs DEF IInv, CallsOK, CallRec, Actor
  <1>3. \A r \in Run : calls[r].entry # 0 => calls[r].entry \in Entry
    BY <1>2
  <1>4. OneRun'
    BY <1>2 DEF Turns, OneRun, Idle
  <1>5. FoundClosed'
    <2> SUFFICES ASSUME NEW r \in Run
                 PROVE  /\ calls'[r].pc \in Choosing /\ calls'[r].entry # 0 =>
                             entries'[calls'[r].entry].closed
                        /\ calls'[r].pc = "resuming" =>
                             calls'[r].entry # 0 /\ entries'[calls'[r].entry].session = session'[r]
      BY DEF FoundClosed, Choosing
    <2>1. CASE r = a
      <3>1. calls'[r].pc = "resuming" => calls'[r].pc \in Choosing
        BY DEF Choosing
      <3> QED
        BY <1>2, <1>3, <2>1, <3>1 DEF Turns, FoundClosed
    <2>2. CASE r # a
      BY <1>2, <1>3, <2>2 DEF Turns, FoundClosed, Choosing
    <2> QED
      BY <2>1, <2>2
  <1>6. DrainsClosed'
    BY <1>2, <1>3 DEF Turns, DrainsClosed
  <1>7. OpenIsInUse'
    <2>1. CASE pool' = 0
      BY <2>1 DEF OpenIsInUse
    <2>2. CASE pool' = pool /\ pool # 0 /\ ~entries[pool].closed
      <3>1. pool \in Entry
        BY <1>2, <2>2 DEF Sound
      <3>2. PICK r \in Run : Closes(r) /\ session[r] = entries[pool].session
        BY <2>2 DEF Turns, OpenIsInUse
      <3>3. Closes(r)'
        BY <1>2, <3>2 DEF Closes
      <3> QED
        BY <2>2, <3>1, <3>2, <3>3 DEF OpenIsInUse
    <2>3. CASE pool' = pool /\ pool # 0 /\ entries[pool].closed
      <3>1. pool \in Entry
        BY <1>2, <2>3 DEF Sound
      <3> QED
        BY <2>3, <3>1 DEF OpenIsInUse
    <2> QED
      BY <2>1, <2>2, <2>3
  <1>8. ExactCount'
    BY <1>1 DEF Turns, ExactCount
  <1>9. Drains'
    <2> SUFFICES ASSUME NEW e \in Entry, entries[e].closed, ~entries[e].overdue, Dispatching(e) # {}
                 PROVE  \E r \in Run : calls'[r].pc = "draining" /\ calls'[r].entry = e
      BY <1>1 DEF Drains
    <2>1. PICK r \in Run : calls[r].pc = "draining" /\ calls[r].entry = e
      BY DEF Turns, Drains
    <2> QED
      BY <1>2, <2>1
  <1> QED
    BY <1>4, <1>5, <1>6, <1>7, <1>8, <1>9 DEF Turns

\* What every step of a run or of a kernel call may use.
LEMMA TurnsFacts ==
  ASSUME TurnsInv
  PROVE  /\ Sound /\ IInv /\ CallsOK /\ Len(entries) \in Nat /\ Entry = 1..Len(entries)
         /\ Run \subseteq Actor /\ Manager \subseteq Actor
         /\ \A a \in Actor : calls[a] \in CallRec /\ calls[a].entry \in Nat
                             /\ calls[a].entry \in 0..Len(entries)
  BY EntryIs DEF TurnsInv, IInv, CallsOK, CallRec, Actor

LEMMA DecideStep ==
  ASSUME TurnsInv, NEW r \in Run, Decide(r)
  PROVE  CallsOK' /\ (callers # "eager" => Turns')
  <1>1. PICK pc : pc = Decision(calls[r].entry, session[r])
    OBVIOUS
  <1>2. /\ pc \in {"building", "resuming", "finalizing"}
        /\ pc = "resuming" => calls[r].entry # 0 /\ entries[calls[r].entry].session = session[r]
    <2>1. stored \in BOOLEAN /\ bucket[session[r]] \in {"none", "pending_create", "created", "cleaned"}
      BY DEF TurnsInv, StoreOK, IInv, Sound
    <2> QED
      BY <1>1, <2>1 DEF Decision
  <1>3. Goto(r, pc) /\ calls[r].pc = "inspecting" /\ UNCHANGED <<rigid, pool, entries, tickets>>
    BY <1>1 DEF Decide
  <1>4. /\ CallsOK' /\ calls'[r].pc = pc /\ calls'[r].entry = calls[r].entry
        /\ \A q \in Actor : q # r => calls'[q] = calls[q]
    BY <1>2, <1>3, TurnsFacts, Went DEF PC
  <1>5. ASSUME callers # "eager" PROVE Turns'
    <2>1. Turns /\ r \in Actor /\ ~Idle(r) /\ ~Closes(r)
      BY <1>3, <1>5, TurnsFacts DEF TurnsInv, Idle, Closes
    <2> QED
      BY <1>2, <1>3, <1>4, <1>5, <2>1, TurnsFacts, TurnsFrame DEF rigid, Choosing
  <1> QED
    BY <1>4, <1>5

LEMMA FailStep ==
  ASSUME TurnsInv, NEW r \in Run, ActivateFails(r)
  PROVE  CallsOK' /\ (callers # "eager" => Turns')
  <1>1. Jump(r, "ended") /\ UNCHANGED <<rigid, pool, entries, tickets>>
        /\ ~Idle(r) /\ ~Closes(r) /\ calls[r].pc # "draining" /\ r \in Actor
    BY TurnsFacts DEF ActivateFails, Idle, Closes
  <1>2. /\ CallsOK' /\ calls'[r].pc = "ended" /\ calls'[r].entry = 0
        /\ \A q \in Actor : q # r => calls'[q] = calls[q]
    BY <1>1, TurnsFacts, Jumped DEF PC
  <1>3. ASSUME callers # "eager" PROVE Turns'
    BY <1>1, <1>2, <1>3, TurnsFacts, TurnsFrame DEF TurnsInv, rigid, Choosing
  <1> QED
    BY <1>2, <1>3

LEMMA StreamStep ==
  ASSUME TurnsInv, NEW r \in Run, Stream(r)
  PROVE  CallsOK' /\ (callers # "eager" => Turns')
  <1>1. /\ Goto(r, "streaming") /\ UNCHANGED <<rigid, pool, tickets>>
        /\ ~Idle(r) /\ calls[r].pc # "draining" /\ r \in Actor
        /\ entries' = [entries EXCEPT ![calls[r].entry].kernel = "running"]
    BY TurnsFacts DEF Stream, Idle
  <1>2. /\ Len(entries') = Len(entries)
        /\ \A f \in Entry : /\ entries'[f].session = entries[f].session
                            /\ entries'[f].closed = entries[f].closed
                            /\ entries'[f].inflight = entries[f].inflight
                            /\ entries'[f].overdue = entries[f].overdue
    BY <1>1, TurnsFacts, SoftWrite
  <1>3. /\ CallsOK' /\ calls'[r].pc = "streaming"
        /\ \A q \in Actor : q # r => calls'[q] = calls[q]
    BY <1>1, <1>2, TurnsFacts, Went DEF PC
  <1>4. ASSUME callers # "eager" PROVE Turns'
    BY <1>1, <1>2, <1>3, <1>4, TurnsFacts, TurnsFrame DEF TurnsInv, rigid, Choosing, Closes
  <1> QED
    BY <1>3, <1>4

LEMMA StreamEndsStep ==
  ASSUME TurnsInv, NEW r \in Run, StreamEnds(r)
  PROVE  CallsOK' /\ (callers # "eager" => Turns')
  <1>1. Jump(r, "finalizing") /\ UNCHANGED <<rigid, pool, entries, tickets>>
        /\ ~Idle(r) /\ calls[r].pc # "draining" /\ r \in Actor
    BY TurnsFacts DEF StreamEnds, Idle
  <1>2. /\ CallsOK' /\ calls'[r].pc = "finalizing" /\ calls'[r].entry = 0
        /\ \A q \in Actor : q # r => calls'[q] = calls[q]
    BY <1>1, TurnsFacts, Jumped DEF PC
  <1>3. ASSUME callers # "eager" PROVE Turns'
    BY <1>1, <1>2, <1>3, TurnsFacts, TurnsFrame DEF TurnsInv, rigid, Choosing, Closes
  <1> QED
    BY <1>2, <1>3

LEMMA FinalizeStep ==
  ASSUME TurnsInv, NEW r \in Run, Finalize(r)
  PROVE  CallsOK' /\ (callers # "eager" => Turns')
  <1>1. /\ UNCHANGED <<rigid, pool, entries, tickets>> /\ ~Idle(r)
        /\ calls[r].pc # "draining" /\ r \in Actor
    BY TurnsFacts DEF Finalize, Idle
  <1>2. PICK e, new :
          /\ e = Resolve(session[r]) /\ calls' = [calls EXCEPT ![r] = new]
          /\ \/ e = 0 /\ new = [calls[r] EXCEPT !.pc = "closing"]
             \/ /\ e # 0
                /\ \E pc \in {StopPC(e), PausePC(e)} :
                     new = [pc |-> pc, entry |-> e, next |-> "closing", wait |-> "no"]
    BY DEF Finalize, Goto
  <1>3. /\ new \in CallRec /\ new.entry \in 0..Len(entries)
        /\ \/ new.pc \in {"stopping", "removing", "pausing", "recording"} /\ new.next = "closing"
           \/ new.pc = "closing"
    <2>1. e \in 0..Len(entries) /\ calls[r] \in CallRec /\ calls[r].entry \in 0..Len(entries)
      BY <1>2, TurnsFacts DEF Resolve, Sound
    <2>2. {StopPC(e), PausePC(e)} \subseteq {"stopping", "removing", "pausing", "recording"}
      BY DEF PausePC, StopPC
    <2> QED
      BY <1>2, <2>1, <2>2, TurnsFacts DEF CallRec, PC
  <1>4. /\ CallsOK' /\ calls'[r] = new /\ \A q \in Actor : q # r => calls'[q] = calls[q]
    <2>1. /\ Len(entries) \in Nat /\ Len(entries') \in Nat /\ Len(entries) <= Len(entries')
          /\ new.entry <= Len(entries')
      BY <1>1, <1>3, TurnsFacts
    <2>2. CallsOK /\ r \in Actor /\ new \in CallRec /\ calls' = [calls EXCEPT ![r] = new]
      BY <1>1, <1>2, <1>3, TurnsFacts
    <2> QED
      BY <2>1, <2>2, Moved, Zenon
  <1>5. ASSUME callers # "eager" PROVE Turns'
    <2>1. Closes(r)' /\ calls'[r].pc \notin Choosing \cup {"draining"}
      BY <1>3, <1>4 DEF Closes, Choosing
    <2> QED
      BY <1>1, <1>4, <1>5, <2>1, TurnsFacts, TurnsFrame DEF TurnsInv, rigid, Choosing
  <1> QED
    BY <1>4, <1>5

LEMMA KernelTurns ==
  ASSUME TurnsInv, NEW a \in Actor, KernelCall(a)
  PROVE  CallsOK' /\ (callers # "eager" => Turns')
  <1>1. /\ UNCHANGED <<rigid, tickets>> /\ pool' \in {pool, 0}
        /\ calls[a].pc \in {"stopping", "removing", "pausing", "recording"}
        /\ calls[a].next \in {"ended", "inspecting", "closing", "deleting"}
    BY TurnsFacts DEF KernelCall, Pause, Stop, RecordPause, Remove, CallRec
  <1>2. /\ Len(entries') = Len(entries)
        /\ \A f \in Entry : /\ entries'[f].session = entries[f].session
                            /\ entries'[f].closed = entries[f].closed
                            /\ entries'[f].inflight = entries[f].inflight
                            /\ entries'[f].overdue = entries[f].overdue
    <2>1. CASE UNCHANGED entries
      BY <2>1
    <2>2. CASE ~UNCHANGED entries
      BY <2>2, TurnsFacts, SoftWrite DEF KernelCall, Pause, Stop, RecordPause, Remove
    <2> QED
      BY <2>1, <2>2
  <1>3. \/ Goto(a, "recording") /\ calls[a].pc = "pausing"
        \/ Goto(a, "removing") /\ calls[a].pc = "stopping"
        \/ Jump(a, calls[a].next)
    BY DEF KernelCall, Pause, Stop, RecordPause, Remove
  <1>4. /\ CallsOK' /\ \A q \in Actor : q # a => calls'[q] = calls[q]
        /\ \/ calls'[a].pc \in {"recording", "removing"} /\ calls'[a].next = calls[a].next
           \/ calls'[a].pc = calls[a].next /\ calls'[a].entry = 0
    <2>1. CASE Goto(a, "recording")
      BY <1>2, <2>1, TurnsFacts, Went DEF PC
    <2>2. CASE Goto(a, "removing")
      BY <1>2, <2>2, TurnsFacts, Went DEF PC
    <2>3. CASE Jump(a, calls[a].next)
      <3>1. calls[a].next \in PC
        BY <1>1 DEF PC
      <3> QED
        BY <1>2, <2>3, <3>1, TurnsFacts, Jumped
    <2> QED
      BY <1>3, <2>1, <2>2, <2>3
  <1>5. ASSUME callers # "eager" PROVE Turns'
    <2>1. ~Idle(a) /\ calls[a].pc # "draining" /\ calls'[a].pc \notin {"draining", "resuming"}
      BY <1>1, <1>4 DEF Idle
    <2>2. calls'[a].pc \in Choosing => calls'[a].entry = 0
      BY <1>1, <1>4 DEF Choosing
    <2>3. Closes(a) => Closes(a)'
      BY <1>1, <1>4 DEF Closes
    <2> QED
      BY <1>1, <1>2, <1>4, <1>5, <2>1, <2>2, <2>3, TurnsFacts, TurnsFrame DEF TurnsInv, rigid
  <1> QED
    BY <1>4, <1>5

LEMMA ManagerStep ==
  ASSUME TurnsInv, NEW m \in Manager,
         StopTeam(m) \/ PauseTeam(m) \/ DeleteTeam(m) \/ DeleteData(m)
  PROVE  CallsOK' /\ (callers # "eager" => Turns')
  <1>1. /\ UNCHANGED <<rigid, pool, entries, tickets>> /\ m \in Actor /\ m \notin Run
        /\ pool \in 0..Len(entries)
    BY TurnsFacts, ActorAssumption DEF StopTeam, PauseTeam, DeleteTeam, DeleteData, Sound
  <1>2. CallsOK' /\ \A q \in Actor : q # m => calls'[q] = calls[q]
    <2>1. CASE DeleteData(m)
      BY <1>1, <2>1, TurnsFacts, Jumped DEF DeleteData, PC
    <2>2. CASE ~DeleteData(m)
      <3>0. StopPC(pool) \in PC /\ PausePC(pool) \in PC /\ "deleting" \in PC /\ pool \in Nat
        BY <1>1 DEF StopPC, PausePC, PC
      <3>0a. PICK pc \in PC, next \in {"ended", "deleting"} :
               calls' = [calls EXCEPT ![m] = [pc |-> pc, entry |-> pool, next |-> next, wait |-> "no"]]
        <4>1. CASE StopTeam(m)
          BY <3>0, <4>1 DEF StopTeam
        <4>2. CASE PauseTeam(m)
          BY <3>0, <4>2 DEF PauseTeam
        <4>3. CASE DeleteTeam(m)
          <5>1. (IF pool = 0 THEN "deleting" ELSE StopPC(pool)) \in PC
            BY <3>0
          <5> QED
            BY <4>3, <5>1 DEF DeleteTeam
        <4> QED
          BY <2>2, <4>1, <4>2, <4>3
      <3>1. PICK new : new = [pc |-> pc, entry |-> pool, next |-> next, wait |-> "no"]
        OBVIOUS
      <3>1a. new.entry = pool /\ new \in CallRec /\ calls' = [calls EXCEPT ![m] = new]
        BY <3>0, <3>0a, <3>1 DEF CallRec
      <3>2. /\ Len(entries) \in Nat /\ Len(entries') \in Nat /\ Len(entries) <= Len(entries')
            /\ new.entry <= Len(entries')
        BY <1>1, <3>1a, TurnsFacts
      <3>3. CallsOK /\ m \in Actor /\ new \in CallRec /\ calls' = [calls EXCEPT ![m] = new]
        BY <1>1, <3>1a, TurnsFacts
      <3> QED
        BY <1>1, <3>1a, <3>2, <3>3, Moved
    <2> QED
      BY <2>1, <2>2
  <1>3. ASSUME callers # "eager" PROVE Turns'
    BY <1>1, <1>2, <1>3, TurnsFacts, TurnsFrame DEF TurnsInv, rigid
  <1> QED
    BY <1>2, <1>3

\* Nothing moves.
LEMMA TurnsStutter ==
  ASSUME TurnsInv, UNCHANGED <<rigid, pool, entries, calls, tickets>>
  PROVE  CallsOK' /\ (callers # "eager" => Turns')
  <1>1. CallsOK'
    BY TurnsFacts DEF CallsOK
  <1>2. /\ Entry' = Entry /\ \A e \in Entry : Dispatching(e)' = Dispatching(e)
        /\ \A r \in Run : (Idle(r)' <=> Idle(r)) /\ (Closes(r)' <=> Closes(r))
        /\ UNCHANGED session
    BY DEF Entry, Dispatching, Idle, Closes, rigid
  <1>3. Turns => Turns'
    BY <1>2 DEF Turns, OneRun, FoundClosed, DrainsClosed, OpenIsInUse, ExactCount, Drains
  <1> QED
    BY <1>1, <1>3 DEF TurnsInv

-----------------------------------------------------------------------------
(* The steps of a run that open or close a gate, or leave it.                *)

\* While a run is active the others are nowhere.
LEMMA OnlyRun ==
  ASSUME TurnsInv, callers # "eager", NEW r \in Run, ~Idle(r)
  PROVE  \A q \in Run : q # r => Idle(q) /\ ~Closes(q) /\ calls[q].pc # "draining"
                                 /\ calls[q].pc \notin Choosing
  BY DEF TurnsInv, Turns, OneRun, Idle, Closes, Choosing

\* A run that closes nothing on its way leaves a closed gate in the pool.
LEMMA PoolIsClosed ==
  ASSUME TurnsInv, callers # "eager", \A q \in Run : ~Closes(q), pool # 0
  PROVE  entries[pool].closed
  BY DEF TurnsInv, Turns, OpenIsInUse

\* With nobody in a drain, closed gates are empty, or overdue.
LEMMA NobodyDrains ==
  ASSUME TurnsInv, callers # "eager", \A q \in Run : calls[q].pc # "draining"
  PROVE  \A e \in Entry : entries[e].closed /\ ~entries[e].overdue => Dispatching(e) = {}
  BY DEF TurnsInv, Turns, Drains

LEMMA LookStep ==
  ASSUME TurnsInv, NEW r \in Run, Look(r)
  PROVE  CallsOK' /\ (callers # "eager" => Turns')
  <1>1. /\ UNCHANGED <<rigid, pool, entries, tickets>> /\ pool \in 0..Len(entries) /\ r \in Actor
        /\ calls[r].pc = "out" /\ (callers # "eager" => \A q \in Run : Idle(q))
    BY TurnsFacts DEF Look, Sound
  <1>2. PICK new :
          /\ calls' = [calls EXCEPT ![r] = new]
          /\ new = IF pool # 0 /\ entries[pool].session # session[r]
                   THEN [pc |-> StopPC(pool), entry |-> pool, next |-> "inspecting", wait |-> "no"]
                   ELSE [calls[r] EXCEPT !.pc = "inspecting", !.entry = pool]
    BY DEF Look
  <1>3. /\ new \in CallRec /\ new.entry = pool
        /\ new.pc \notin {"draining", "resuming"}
    <2>1. calls[r] \in CallRec /\ StopPC(pool) \in {"stopping", "removing"} /\ pool \in Nat
      BY <1>1, TurnsFacts DEF StopPC
    <2> QED
      BY <1>2, <2>1 DEF CallRec, PC
  <1>4. /\ CallsOK' /\ calls'[r] = new /\ \A q \in Actor : q # r => calls'[q] = calls[q]
    <2>1. /\ Len(entries) \in Nat /\ Len(entries') \in Nat /\ Len(entries) <= Len(entries')
          /\ new.entry <= Len(entries')
      BY <1>1, <1>3, TurnsFacts
    <2>2. CallsOK /\ r \in Actor /\ new \in CallRec /\ calls' = [calls EXCEPT ![r] = new]
      BY <1>1, <1>2, <1>3, TurnsFacts
    <2> QED
      BY <2>1, <2>2, Moved, Zenon
  <1>5. ASSUME callers # "eager" PROVE Turns'
    <2>1. \A q \in Run : /\ Idle(q) /\ ~Closes(q)
                         /\ calls[q].pc \notin Choosing \cup {"draining"}
      BY <1>1, <1>5 DEF Idle, Closes, Choosing
    <2>2. pool # 0 => entries[pool].closed
      BY <1>5, <2>1, PoolIsClosed
    <2>3. \A e \in Entry : entries[e].closed /\ ~entries[e].overdue => Dispatching(e) = {}
      BY <1>5, <2>1, NobodyDrains
    <2>4. \A q \in Run : q # r => calls'[q] = calls[q]
      BY <1>4, TurnsFacts
    <2>5. OneRun'
      BY <2>1, <2>4 DEF OneRun, Idle
    <2>6. FoundClosed'
      BY <1>1, <1>3, <1>4, <2>1, <2>2, <2>4 DEF FoundClosed, Choosing, rigid
    <2>7. DrainsClosed'
      BY <1>3, <1>4, <2>1, <2>4 DEF DrainsClosed
    <2>8. OpenIsInUse' /\ ExactCount' /\ Drains'
      BY <1>1, <1>5, <2>2, <2>3
         DEF TurnsInv, Turns, OpenIsInUse, ExactCount, Drains, Entry, Dispatching
    <2> QED
      BY <2>5, <2>6, <2>7, <2>8 DEF Turns
  <1> QED
    BY <1>4, <1>5

LEMMA BuildTurns ==
  ASSUME TurnsInv, NEW r \in Run, Build(r)
  PROVE  CallsOK' /\ (callers # "eager" => Turns')
  <1>1. PICK n, new, rec :
          /\ n = Len(entries) + 1
          /\ new = [session |-> session[r], state |-> "running", closed |-> FALSE,
                    inflight |-> 0, open |-> FALSE, overdue |-> FALSE, kernel |-> "idle"]
          /\ rec = [calls[r] EXCEPT !.pc = "activated", !.entry = n]
    OBVIOUS
  <1>2. /\ entries' = Append(entries, new) /\ pool' = n /\ UNCHANGED <<session, callers, tickets>>
        /\ calls[r].pc = "building" /\ r \in Actor
    BY <1>1, TurnsFacts DEF Build, rigid
  <1>2a. calls' = [calls EXCEPT ![r] = rec]
    BY <1>1 DEF Build
  <1>3. rec \in CallRec /\ rec.pc = "activated" /\ rec.entry = n /\ n \in Nat
    <2>1. calls[r] \in CallRec /\ n \in Nat
      BY <1>1, <1>2, TurnsFacts
    <2> QED
      BY <1>1, <2>1 DEF CallRec, PC
  <1>4. new \in EntryRec /\ new.inflight = 0 /\ ~new.closed /\ new.session = session[r]
    BY <1>1, TurnsFacts DEF EntryRec, Sound
  <1>5. /\ Len(entries') = n /\ entries'[n] = new
        /\ \A f \in Entry : entries'[f] = entries[f]
    BY <1>1, <1>2, <1>4, TurnsFacts, AppendProperties DEF Sound
  <1>6. Entry' = Entry \cup {n} /\ n \notin Entry /\ n # 0
    BY <1>1, <1>5, TurnsFacts DEF Entry
  <1>7. /\ CallsOK' /\ calls'[r] = rec /\ \A q \in Actor : q # r => calls'[q] = calls[q]
    <2>1. /\ Len(entries) \in Nat /\ Len(entries') \in Nat /\ Len(entries) <= Len(entries')
          /\ rec.entry <= Len(entries')
      BY <1>1, <1>3, <1>5, TurnsFacts
    <2>2. CallsOK /\ r \in Actor /\ rec \in CallRec /\ calls' = [calls EXCEPT ![r] = rec]
      BY <1>2, <1>2a, <1>3, TurnsFacts
    <2> QED
      BY <2>1, <2>2, Moved, Zenon
  <1>8. ASSUME callers # "eager" PROVE Turns'
    <2>1. ~Idle(r) /\ calls[r].pc # "draining"
      BY <1>2 DEF Idle
    <2>2. \A q \in Run : q # r => /\ calls'[q] = calls[q] /\ Idle(q) /\ calls[q].pc # "draining"
                                  /\ calls[q].pc \notin Choosing
      BY <1>7, <1>8, <2>1, OnlyRun, TurnsFacts
    <2>3. \A e \in Entry : entries[e].closed /\ ~entries[e].overdue => Dispatching(e) = {}
      BY <1>8, <2>1, <2>2, NobodyDrains
    <2>4. Dispatching(n)' = {} /\ \A f \in Entry : Dispatching(f)' = Dispatching(f)
      BY <1>1, <1>2, TurnsFacts DEF Dispatching, Sound
    <2>5. OneRun'
      BY <2>2 DEF OneRun, Idle
    <2>6. FoundClosed' /\ DrainsClosed'
      BY <1>3, <1>7, <2>2 DEF FoundClosed, DrainsClosed, Choosing
    <2>7. OpenIsInUse'
      BY <1>2, <1>3, <1>4, <1>5, <1>7 DEF OpenIsInUse, Closes
    <2>8. ExactCount'
      BY <1>4, <1>5, <1>6, <1>8, <2>4, FS_EmptySet DEF TurnsInv, Turns, ExactCount
    <2>9. Drains'
      BY <1>4, <1>5, <1>6, <2>3, <2>4 DEF Drains
    <2> QED
      BY <2>5, <2>6, <2>7, <2>8, <2>9 DEF Turns
  <1> QED
    BY <1>7, <1>8

LEMMA ResumeTurns ==
  ASSUME TurnsInv, NEW r \in Run, Resume(r)
  PROVE  CallsOK' /\ (callers # "eager" => Turns')
  <1>1. PICK e, new :
          /\ e = calls[r].entry
          /\ new = [entries[e] EXCEPT !.state = "running", !.closed = FALSE,
                                      !.inflight = 0, !.open = FALSE]
    OBVIOUS
  <1>2. /\ UNCHANGED <<session, callers, pool, tickets>> /\ entries' = [entries EXCEPT ![e] = new]
        /\ calls[r].pc = "resuming" /\ r \in Actor /\ e \in Nat /\ calls[r] \in CallRec
    BY <1>1, TurnsFacts DEF Resume, rigid
  <1>3. /\ Len(entries') = Len(entries)
        /\ e \in Entry => /\ new.session = entries[e].session /\ ~new.closed /\ new.inflight = 0
                          /\ new.overdue = entries[e].overdue
                          /\ \A f \in Entry : entries'[f] = IF f = e THEN new ELSE entries[f]
    <2>1. CASE e \in Entry
      <3>1. entries[e] \in EntryRec
        BY <2>1, EntryIs, TurnsFacts
      <3>2. /\ new \in EntryRec /\ new.session = entries[e].session /\ ~new.closed
            /\ new.inflight = 0 /\ new.overdue = entries[e].overdue
        BY <1>1, <3>1 DEF EntryRec
      <3> QED
        BY <1>2, <2>1, <3>2, EntryPut, TurnsFacts
    <2>2. CASE e \notin Entry
      BY <1>2, <2>2, EntryPutNone, TurnsFacts
    <2> QED
      BY <2>1, <2>2
  <1>4. /\ CallsOK' /\ calls'[r].pc = "activated" /\ calls'[r].entry = e
        /\ \A q \in Actor : q # r /\ calls[q].pc # "draining" => calls'[q] = calls[q]
    <2>1. \A a \in Actor : Wake(e)[a] \in CallRec /\ Wake(e)[a].entry = calls[a].entry
                           /\ (calls[a].pc # "draining" => Wake(e)[a] = calls[a])
      BY TurnsFacts DEF Wake, CallRec
    <2>2. PICK rec : rec = [calls[r] EXCEPT !.pc = "activated"]
      OBVIOUS
    <2>3. rec \in CallRec /\ rec.pc = "activated" /\ rec.entry = e
      BY <1>1, <1>2, <2>2 DEF CallRec, PC
    <2>4. calls' = [Wake(e) EXCEPT ![r] = rec] /\ Wake(e) \in [Actor -> CallRec]
      <3>1. Wake(e)[r] = calls[r]
        BY <1>2, <2>1
      <3>2. calls' = [Wake(e) EXCEPT ![r].pc = "activated"]
        BY <1>1 DEF Resume
      <3>3. Wake(e) \in [Actor -> CallRec]
        BY <2>1 DEF Wake
      <3> QED
        BY <2>2, <3>1, <3>2, <3>3
    <2>5. /\ calls' \in [Actor -> CallRec] /\ calls'[r] = rec
          /\ \A q \in Actor : q # r => calls'[q] = Wake(e)[q]
      BY <1>2, <2>3, <2>4
    <2>6. \A q \in Actor : calls'[q].entry <= Len(entries')
      BY <1>1, <1>2, <1>3, <2>1, <2>3, <2>5, TurnsFacts
    <2> QED
      BY <2>1, <2>3, <2>5, <2>6 DEF CallsOK
  <1>5. ASSUME callers # "eager" PROVE Turns'
    <2>1. ~Idle(r) /\ calls[r].pc # "draining" /\ ~Closes(r)
      BY <1>2 DEF Idle, Closes
    <2>2. \A q \in Run : q # r => /\ calls'[q] = calls[q] /\ Idle(q) /\ calls[q].pc # "draining"
                                  /\ calls[q].pc \notin Choosing /\ ~Closes(q)
      BY <1>4, <1>5, <2>1, OnlyRun, TurnsFacts
    <2>3. \A f \in Entry : entries[f].closed /\ ~entries[f].overdue => Dispatching(f) = {}
      BY <1>5, <2>1, <2>2, NobodyDrains
    <2>4. e \in Entry /\ e # 0 /\ entries[e].closed /\ entries[e].session = session[r]
      BY <1>1, <1>2, <1>5, TurnsFacts DEF TurnsInv, Turns, FoundClosed, Choosing
    <2>5. Entry' = Entry /\ \A f \in Entry : Dispatching(f)' = Dispatching(f)
      BY <1>2, <1>3 DEF Entry, Dispatching
    <2>6. OneRun' /\ FoundClosed' /\ DrainsClosed'
      BY <1>4, <2>2 DEF OneRun, Idle, FoundClosed, DrainsClosed, Choosing
    <2>7. OpenIsInUse'
      <3>1. CASE pool = e
        BY <1>2, <1>3, <1>4, <2>4, <3>1 DEF OpenIsInUse, Closes
      <3>2. CASE pool # e /\ pool # 0
        <4>1. entries[pool].closed /\ pool \in Entry
          BY <1>5, <2>1, <2>2, <3>2, PoolIsClosed, TurnsFacts DEF Sound
        <4> QED
          BY <1>2, <1>3, <2>4, <3>2, <4>1 DEF OpenIsInUse
      <3>3. CASE pool = 0
        BY <1>2, <3>3 DEF OpenIsInUse
      <3> QED
        BY <3>1, <3>2, <3>3
    <2>8. ExactCount'
      BY <1>3, <1>5, <2>3, <2>4, <2>5, FS_EmptySet DEF TurnsInv, Turns, ExactCount
    <2>9. Drains'
      BY <1>3, <2>3, <2>4, <2>5 DEF Drains
    <2> QED
      BY <2>6, <2>7, <2>8, <2>9 DEF Turns
  <1> QED
    BY <1>4, <1>5

\* The marks that a drain writes.
LEMMA CloseWrite ==
  ASSUME Sound, NEW e \in Entry, entries' = [entries EXCEPT ![e].closed = TRUE]
  PROVE  /\ Len(entries') = Len(entries)
         /\ entries'[e].closed /\ entries'[e].overdue = entries[e].overdue
         /\ \A f \in Entry : /\ entries'[f].session = entries[f].session
                             /\ entries'[f].inflight = entries[f].inflight
                             /\ f # e => entries'[f] = entries[f]
  <1>1. PICK new : new = [entries[e] EXCEPT !.closed = TRUE]
    OBVIOUS
  <1>2. entries[e] \in EntryRec /\ entries' = [entries EXCEPT ![e] = new]
    BY <1>1, EntryIs
  <1>3. /\ new \in EntryRec /\ new.inflight = entries[e].inflight
        /\ new.session = entries[e].session /\ new.closed /\ new.overdue = entries[e].overdue
    BY <1>1, <1>2 DEF EntryRec
  <1>4. /\ Len(entries') = Len(entries)
        /\ \A f \in Entry : entries'[f] = IF f = e THEN new ELSE entries[f]
    BY <1>2, <1>3, EntryPut
  <1> QED
    BY <1>3, <1>4

LEMMA OverdueWrite ==
  ASSUME Sound, NEW e \in Entry, entries' = [entries EXCEPT ![e].overdue = TRUE]
  PROVE  /\ Len(entries') = Len(entries)
         /\ entries'[e].overdue /\ entries'[e].closed = entries[e].closed
         /\ \A f \in Entry : /\ entries'[f].session = entries[f].session
                             /\ entries'[f].inflight = entries[f].inflight
                             /\ f # e => entries'[f] = entries[f]
  <1>1. PICK new : new = [entries[e] EXCEPT !.overdue = TRUE]
    OBVIOUS
  <1>2. entries[e] \in EntryRec /\ entries' = [entries EXCEPT ![e] = new]
    BY <1>1, EntryIs
  <1>3. /\ new \in EntryRec /\ new.inflight = entries[e].inflight
        /\ new.session = entries[e].session /\ new.overdue /\ new.closed = entries[e].closed
    BY <1>1, <1>2 DEF EntryRec
  <1>4. /\ Len(entries') = Len(entries)
        /\ \A f \in Entry : entries'[f] = IF f = e THEN new ELSE entries[f]
    BY <1>2, <1>3, EntryPut
  <1> QED
    BY <1>3, <1>4

LEMMA DrainedTurns ==
  ASSUME TurnsInv, NEW r \in Run, Drained(r) \/ DrainTimesOut(r)
  PROVE  CallsOK' /\ (callers # "eager" => Turns')
  <1>1. PICK e : e = calls[r].entry
    OBVIOUS
  <1>2. /\ UNCHANGED <<session, callers, pool, tickets>> /\ Jump(r, "ended")
        /\ calls[r].pc = "draining" /\ r \in Actor /\ e \in 0..Len(entries)
        /\ \/ calls[r].wait = "woken" /\ UNCHANGED entries
           \/ entries' = [entries EXCEPT ![e].overdue = TRUE]
    BY <1>1, TurnsFacts DEF Drained, DrainTimesOut, rigid
  <1>3. /\ Len(entries') = Len(entries)
        /\ e \in Entry =>
             \/ calls[r].wait = "woken" /\ UNCHANGED entries
             \/ /\ entries'[e].overdue /\ entries'[e].closed = entries[e].closed
                /\ \A f \in Entry : /\ entries'[f].session = entries[f].session
                                    /\ entries'[f].inflight = entries[f].inflight
                                    /\ f # e => entries'[f] = entries[f]
    <2>1. CASE UNCHANGED entries /\ calls[r].wait = "woken"
      BY <2>1
    <2>2. CASE entries' = [entries EXCEPT ![e].overdue = TRUE]
      <3>1. CASE e \in Entry
        BY <2>2, <3>1, OverdueWrite, TurnsFacts
      <3>2. CASE e \notin Entry
        <4>1. entries' = entries
          BY <1>2, <2>2, <3>2, EntryPutNone, TurnsFacts
        <4> QED
          BY <3>2, <4>1
      <3> QED
        BY <3>1, <3>2
    <2> QED
      BY <1>2, <2>1, <2>2
  <1>4. /\ CallsOK' /\ calls'[r].pc = "ended" /\ calls'[r].entry = 0
        /\ \A q \in Actor : q # r => calls'[q] = calls[q]
    BY <1>2, <1>3, TurnsFacts, Jumped DEF PC
  <1>5. ASSUME callers # "eager" PROVE Turns'
    <2>1. ~Idle(r) /\ ~Closes(r)
      BY <1>2 DEF Idle, Closes
    <2>2. \A q \in Run : q # r => /\ calls'[q] = calls[q] /\ Idle(q) /\ calls[q].pc # "draining"
                                  /\ calls[q].pc \notin Choosing /\ ~Closes(q)
      BY <1>4, <1>5, <2>1, OnlyRun, TurnsFacts
    <2>3. /\ e \in Entry
          /\ calls[r].wait = "woken" => entries[e].inflight = 0
      BY <1>1, <1>2, <1>5, TurnsFacts DEF TurnsInv, Turns, DrainsClosed
    <2>4. \A f \in Entry : /\ entries'[f].session = entries[f].session
                           /\ entries'[f].inflight = entries[f].inflight
                           /\ entries'[f].closed = entries[f].closed
                           /\ entries[f].overdue => entries'[f].overdue
                           /\ f # e => entries'[f] = entries[f]
      BY <1>3, <2>3
    <2>5. Entry' = Entry /\ \A f \in Entry : Dispatching(f)' = Dispatching(f)
      BY <1>2, <1>3 DEF Entry, Dispatching
    <2>6. OneRun' /\ FoundClosed' /\ DrainsClosed'
      BY <1>4, <2>2 DEF OneRun, Idle, FoundClosed, DrainsClosed, Choosing
    <2>7. OpenIsInUse'
      <3>1. CASE pool # 0
        <4>1. entries[pool].closed /\ pool \in Entry
          BY <1>5, <2>1, <2>2, <3>1, PoolIsClosed, TurnsFacts DEF Sound
        <4> QED
          BY <1>2, <2>4, <4>1 DEF OpenIsInUse
      <3>2. CASE pool = 0
        BY <1>2, <3>2 DEF OpenIsInUse
      <3> QED
        BY <3>1, <3>2
    <2>8. ExactCount'
      BY <1>5, <2>4, <2>5 DEF TurnsInv, Turns, ExactCount
    <2>9. Drains'
      <3> SUFFICES ASSUME NEW f \in Entry, entries'[f].closed, ~entries'[f].overdue
                   PROVE  Dispatching(f) = {}
        BY <2>5 DEF Drains
      <3>1. entries[f].closed /\ ~entries[f].overdue
        BY <2>4
      <3>2. CASE f # e
        BY <1>1, <1>5, <2>2, <3>1, <3>2 DEF TurnsInv, Turns, Drains
      <3>3. CASE f = e
        <4>1. entries' = entries /\ entries[e].inflight = 0
          BY <1>3, <2>3, <3>3
        <4>2. Cardinality(Dispatching(e)) = 0 /\ IsFiniteSet(Dispatching(e))
          BY <1>5, <2>3, <3>1, <3>3, <4>1, TurnsFacts
             DEF TurnsInv, Turns, ExactCount, IInv, FinitelyMany
        <4> QED
          BY <3>3, <4>2, FS_EmptySet
      <3> QED
        BY <3>2, <3>3
    <2> QED
      BY <2>6, <2>7, <2>8, <2>9 DEF Turns
  <1> QED
    BY <1>4, <1>5

LEMMA CloseTurns ==
  ASSUME TurnsInv, NEW r \in Run, CloseGate(r)
  PROVE  CallsOK' /\ (callers # "eager" => Turns')
  <1>1. PICK e, new :
          /\ e = Resolve(session[r]) /\ calls' = [calls EXCEPT ![r] = new]
          /\ new = IF e = 0 \/ entries[e].inflight = 0 THEN [NoCall EXCEPT !.pc = "ended"]
                   ELSE [calls[r] EXCEPT !.pc = "draining", !.entry = e, !.wait = "on"]
    BY DEF CloseGate
  <1>2. /\ UNCHANGED <<session, callers, pool, tickets>> /\ calls[r].pc = "closing" /\ r \in Actor
        /\ IF e = 0 THEN UNCHANGED entries ELSE entries' = [entries EXCEPT ![e].closed = TRUE]
    BY <1>1, TurnsFacts DEF CloseGate, rigid
  <1>3. /\ e \in 0..Len(entries)
        /\ e # 0 => e \in Entry /\ e = pool
        /\ pool # 0 /\ session[r] = entries[pool].session => e = pool
    BY <1>1, TurnsFacts DEF Resolve, Sound
  <1>4. /\ new \in CallRec /\ new.entry \in 0..Len(entries) /\ new.pc \in {"ended", "draining"}
        /\ new.pc = "draining" => e # 0 /\ new.entry = e /\ new.wait = "on"
        /\ new.pc # "draining" => e = 0 \/ entries[e].inflight = 0
    <2>1. calls[r] \in CallRec /\ e \in Nat
      BY <1>2, <1>3, TurnsFacts
    <2>2. CASE e = 0 \/ entries[e].inflight = 0
      BY <1>1, <2>2, TurnsFacts DEF CallRec, NoCall, PC
    <2>3. CASE ~(e = 0 \/ entries[e].inflight = 0)
      BY <1>1, <1>3, <2>1, <2>3 DEF CallRec, PC
    <2> QED
      BY <2>2, <2>3
  <1>5. /\ Len(entries') = Len(entries)
        /\ e # 0 => entries'[e].closed /\ entries'[e].overdue = entries[e].overdue
        /\ \A f \in Entry : /\ entries'[f].session = entries[f].session
                            /\ entries'[f].inflight = entries[f].inflight
                            /\ f # e => entries'[f] = entries[f]
    <2>1. CASE e = 0
      BY <1>2, <2>1
    <2>2. CASE e # 0
      BY <1>2, <1>3, <2>2, CloseWrite, TurnsFacts
    <2> QED
      BY <2>1, <2>2
  <1>6. /\ CallsOK' /\ calls'[r] = new /\ \A q \in Actor : q # r => calls'[q] = calls[q]
    <2>1. /\ Len(entries) \in Nat /\ Len(entries') \in Nat /\ Len(entries) <= Len(entries')
          /\ new.entry <= Len(entries')
      BY <1>4, <1>5, TurnsFacts
    <2>2. CallsOK /\ r \in Actor /\ new \in CallRec /\ calls' = [calls EXCEPT ![r] = new]
      BY <1>1, <1>2, <1>4, TurnsFacts
    <2> QED
      BY <2>1, <2>2, Moved, Zenon
  <1>7. ASSUME callers # "eager" PROVE Turns'
    <2>1. ~Idle(r) /\ calls[r].pc # "draining"
      BY <1>2 DEF Idle
    <2>2. \A q \in Run : q # r => /\ calls'[q] = calls[q] /\ Idle(q) /\ calls[q].pc # "draining"
                                  /\ calls[q].pc \notin Choosing /\ ~Closes(q)
      BY <1>6, <1>7, <2>1, OnlyRun, TurnsFacts
    <2>3. \A f \in Entry : entries[f].closed /\ ~entries[f].overdue => Dispatching(f) = {}
      BY <1>7, <2>1, <2>2, NobodyDrains
    <2>4. Entry' = Entry /\ \A f \in Entry : Dispatching(f)' = Dispatching(f)
      BY <1>2, <1>5 DEF Entry, Dispatching
    <2>5. OneRun' /\ FoundClosed'
      BY <1>4, <1>6, <2>2 DEF OneRun, Idle, FoundClosed, Choosing
    <2>6. DrainsClosed'
      <3> SUFFICES ASSUME NEW q \in Run, calls'[q].pc = "draining"
                   PROVE  /\ calls'[q].entry # 0 /\ entries'[calls'[q].entry].closed
                          /\ calls'[q].wait # "woken"
        BY DEF DrainsClosed
      <3>1. q = r /\ new.pc = "draining"
        BY <1>6, <2>2
      <3> QED
        BY <1>4, <1>5, <1>6, <3>1
    <2>7. OpenIsInUse'
      <3> SUFFICES ASSUME pool # 0 PROVE entries'[pool].closed
        BY <1>2 DEF OpenIsInUse
      <3>1. pool \in Entry
        BY TurnsFacts DEF Sound
      <3>2. CASE e = pool
        BY <1>5, <3>2
      <3>3. CASE e # pool
        <4>1. entries[pool].closed
          BY <1>3, <1>7, <2>2, <3>3 DEF TurnsInv, Turns, OpenIsInUse
        <4> QED
          BY <1>5, <3>1, <3>3, <4>1
      <3> QED
        BY <3>2, <3>3
    <2>8. ExactCount'
      <3>1. \A f \in Entry : entries'[f].overdue = entries[f].overdue
                             /\ entries'[f].inflight = entries[f].inflight
        BY <1>5, TurnsFacts
      <3> QED
        BY <1>7, <2>4, <3>1 DEF TurnsInv, Turns, ExactCount
    <2>9. Drains'
      <3> SUFFICES ASSUME NEW f \in Entry, entries'[f].closed, ~entries'[f].overdue,
                          Dispatching(f) # {}
                   PROVE  calls'[r].pc = "draining" /\ calls'[r].entry = f
        BY <2>4 DEF Drains
      <3>1. f = e /\ e # 0 /\ ~entries[e].overdue
        BY <1>5, <2>3, TurnsFacts
      <3>2. entries[e].inflight = Cardinality(Dispatching(e)) /\ IsFiniteSet(Dispatching(e))
        BY <1>7, <3>1 DEF TurnsInv, Turns, ExactCount, IInv, FinitelyMany
      <3>3. entries[e].inflight # 0
        BY <3>1, <3>2, FS_EmptySet
      <3> QED
        BY <1>4, <1>6, <3>1, <3>3
    <2> QED
      BY <2>5, <2>6, <2>7, <2>8, <2>9 DEF Turns
  <1> QED
    BY <1>6, <1>7

\* A step of a payload: the count of one gate follows its tickets, and calls only learn
\* of it.
LEMMA CountTurns ==
  ASSUME TurnsInv, callers # "eager", UNCHANGED <<session, pool>>,
         NEW e \in Entry, Len(entries') = Len(entries),
         \A f \in Entry : /\ entries'[f].session = entries[f].session
                          /\ entries'[f].closed = entries[f].closed
                          /\ entries'[f].overdue = entries[f].overdue
                          /\ f # e => entries'[f].inflight = entries[f].inflight,
         \A f \in Entry : f # e => Dispatching(f)' = Dispatching(f),
         ~entries[e].overdue => entries'[e].inflight = Cardinality(Dispatching(e)'),
         entries[e].closed => Dispatching(e)' \subseteq Dispatching(e),
         \A a \in Actor : /\ calls'[a].pc = calls[a].pc /\ calls'[a].entry = calls[a].entry
                          /\ calls'[a].next = calls[a].next,
         \A r \in Run : calls[r].pc = "draining" /\ calls'[r].wait = "woken" =>
              IF calls[r].entry = e THEN entries'[e].inflight = 0 ELSE calls[r].wait = "woken"
  PROVE  Turns'
  <1>1. /\ Turns /\ Entry' = Entry
        /\ \A r \in Run : calls[r].entry # 0 => calls[r].entry \in Entry
        /\ \A r \in Run : /\ calls'[r].pc = calls[r].pc /\ calls'[r].entry = calls[r].entry
                          /\ calls'[r].next = calls[r].next
    BY TurnsFacts DEF TurnsInv, Entry
  <1>2. OneRun' /\ FoundClosed'
    BY <1>1 DEF Turns, OneRun, Idle, FoundClosed, Choosing
  <1>3. DrainsClosed'
    BY <1>1 DEF Turns, DrainsClosed
  <1>4. OpenIsInUse'
    <2>1. pool # 0 => pool \in Entry
      BY TurnsFacts DEF Sound
    <2> QED
      BY <1>1, <2>1 DEF Turns, OpenIsInUse, Closes
  <1>5. ExactCount'
    BY <1>1 DEF Turns, ExactCount
  <1>6. Drains'
    BY <1>1 DEF Turns, Drains
  <1> QED
    BY <1>2, <1>3, <1>4, <1>5, <1>6 DEF Turns

LEMMA AdmitTurns ==
  ASSUME TurnsInv, NEW p \in Payload, Admit(p)
  PROVE  CallsOK' /\ (callers # "eager" => Turns')
  <1>0. PICK s \in Session : LET e == Resolve(s) IN
          /\ e # 0 /\ ~entries[e].closed
          /\ tickets' = [tickets EXCEPT ![p] = e]
          /\ entries' = [entries EXCEPT ![e].inflight = @ + 1, ![e].open = TRUE]
          /\ calls' = [a \in Actor |->
               IF calls[a].pc = "draining" /\ calls[a].entry = e /\ calls[a].wait = "on"
               THEN [calls[a] EXCEPT !.wait = "lost"] ELSE calls[a]]
    BY DEF Admit
  <1>0a. PICK e : e = Resolve(s)
    OBVIOUS
  <1>1. /\ e # 0 /\ ~entries[e].closed
        /\ tickets' = [tickets EXCEPT ![p] = e]
        /\ entries' = [entries EXCEPT ![e].inflight = @ + 1, ![e].open = TRUE]
        /\ calls' = [a \in Actor |->
             IF calls[a].pc = "draining" /\ calls[a].entry = e /\ calls[a].wait = "on"
             THEN [calls[a] EXCEPT !.wait = "lost"] ELSE calls[a]]
    BY <1>0, <1>0a
  <1>2. /\ e \in Entry /\ e \in Nat /\ tickets[p] = 0 /\ UNCHANGED <<session, callers, pool>>
        /\ entries[e] \in EntryRec
    BY <1>0a, <1>1, TurnsFacts, EntryIs DEF Admit, rigid, Resolve, Sound
  <1>2a. PICK rec \in EntryRec : rec = entries[e]
    BY <1>2
  <1>3. PICK n, new :
          /\ n = rec.inflight + 1
          /\ new = [rec EXCEPT !.inflight = n, !.open = TRUE]
          /\ entries' = [entries EXCEPT ![e] = new]
    BY <1>1, <1>2a
  <1>4. /\ new \in EntryRec /\ new.inflight = n /\ new.session = entries[e].session
        /\ new.closed = entries[e].closed /\ new.overdue = entries[e].overdue
    <2>1. n \in Nat
      BY <1>3 DEF EntryRec
    <2> QED
      BY <1>2a, <1>3, <2>1 DEF EntryRec
  <1>5. /\ Len(entries') = Len(entries)
        /\ \A f \in Entry : entries'[f] = IF f = e THEN new ELSE entries[f]
    BY <1>2, <1>3, <1>4, EntryPut, TurnsFacts
  <1>6. /\ CallsOK'
        /\ \A a \in Actor : /\ calls'[a].pc = calls[a].pc /\ calls'[a].entry = calls[a].entry
                            /\ calls'[a].next = calls[a].next
                            /\ calls'[a].wait = calls[a].wait \/ calls'[a].wait = "lost"
    BY <1>1, <1>2, <1>5, TurnsFacts, Signalled
  <1>7. Dispatching(e)' = Dispatching(e) \cup {p} /\ p \notin Dispatching(e)
        /\ \A f \in Entry : f # e => Dispatching(f)' = Dispatching(f)
    BY <1>1, <1>2, TurnsFacts DEF Dispatching, Sound
  <1>8. ASSUME callers # "eager" PROVE Turns'
    <2>1. IsFiniteSet(Dispatching(e)) /\ Cardinality(Dispatching(e)') = Cardinality(Dispatching(e)) + 1
      <3>1. IsFiniteSet(Dispatching(e))
        BY <1>2, TurnsFacts DEF IInv, FinitelyMany
      <3>2. PICK D : D = Dispatching(e)
        OBVIOUS
      <3>3. Cardinality(D \cup {p}) = Cardinality(D) + 1
        BY <1>7, <3>1, <3>2, FS_AddElement
      <3> QED
        BY <1>7, <3>1, <3>2, <3>3, Zenon
    <2>2. ~entries[e].overdue => n = Cardinality(Dispatching(e)')
      BY <1>2, <1>2a, <1>3, <1>8, <2>1 DEF TurnsInv, Turns, ExactCount
    <2>3. \A r \in Run : calls[r].pc = "draining" => calls[r].entry # e
      BY <1>1, <1>8 DEF TurnsInv, Turns, DrainsClosed
    <2>4. /\ \A f \in Entry : /\ entries'[f].session = entries[f].session
                              /\ entries'[f].closed = entries[f].closed
                              /\ entries'[f].overdue = entries[f].overdue
                              /\ f # e => entries'[f].inflight = entries[f].inflight
          /\ ~entries[e].overdue => entries'[e].inflight = Cardinality(Dispatching(e)')
      BY <1>2, <1>4, <1>5, <2>2
    <2>5. \A r \in Run : calls[r].pc = "draining" /\ calls'[r].wait = "woken" =>
            IF calls[r].entry = e THEN entries'[e].inflight = 0 ELSE calls[r].wait = "woken"
      <3>1. \A r \in Run : calls'[r].wait = calls[r].wait \/ calls'[r].wait = "lost"
        BY <1>6, TurnsFacts
      <3> QED
        BY <2>3, <3>1
    <2> QED
      BY <1>1, <1>2, <1>5, <1>6, <1>7, <1>8, <2>4, <2>5, CountTurns
  <1> QED
    BY <1>6, <1>8

LEMMA DoneTurns ==
  ASSUME TurnsInv, NEW p \in Payload, ConsumeDone(p)
  PROVE  CallsOK' /\ (callers # "eager" => Turns')
  <1>0. PICK e, left : e = tickets[p] /\ left = entries[e].inflight - 1
    OBVIOUS
  <1>1. /\ tickets' = [tickets EXCEPT ![p] = 0] /\ tickets[p] # 0
        /\ UNCHANGED <<session, callers, pool>> /\ e \in Entry /\ e \in Nat
        /\ IF left < 0 THEN UNCHANGED <<entries, calls>>
           ELSE /\ entries' = [entries EXCEPT ![e].inflight = left, ![e].open = left # 0]
                /\ calls' = IF left = 0 THEN Wake(e) ELSE calls
    BY <1>0, TurnsFacts DEF ConsumeDone, rigid, Sound
  <1>2. PICK rec \in EntryRec : rec = entries[e]
    BY <1>1, EntryIs, TurnsFacts
  <1>3. Dispatching(e)' = Dispatching(e) \ {p} /\ p \in Dispatching(e)
        /\ \A f \in Entry : f # e => Dispatching(f)' = Dispatching(f)
    BY <1>0, <1>1, TurnsFacts DEF Dispatching, Sound
  <1>4. /\ Len(entries') = Len(entries)
        /\ \A f \in Entry : /\ entries'[f].session = entries[f].session
                            /\ entries'[f].closed = entries[f].closed
                            /\ entries'[f].overdue = entries[f].overdue
                            /\ f # e => entries'[f].inflight = entries[f].inflight
        /\ ~(left < 0) => entries'[e].inflight = left
    <2>1. CASE left < 0
      BY <1>1, <2>1
    <2>2. CASE ~(left < 0)
      <3>1. PICK new : new = [rec EXCEPT !.inflight = left, !.open = left # 0]
        OBVIOUS
      <3>2. /\ new \in EntryRec /\ new.inflight = left /\ new.session = rec.session
            /\ new.closed = rec.closed /\ new.overdue = rec.overdue
        <4>1. left \in Nat
          BY <1>0, <1>2, <2>2 DEF EntryRec
        <4> QED
          BY <3>1, <4>1 DEF EntryRec
      <3>3. entries' = [entries EXCEPT ![e] = new]
        BY <1>1, <1>2, <2>2, <3>1, Zenon
      <3>4. /\ Len(entries') = Len(entries)
            /\ \A f \in Entry : entries'[f] = IF f = e THEN new ELSE entries[f]
        BY <1>1, <3>2, <3>3, EntryPut, TurnsFacts
      <3> QED
        BY <1>1, <1>2, <3>2, <3>4
    <2> QED
      BY <2>1, <2>2
  <1>5. /\ CallsOK'
        /\ \A a \in Actor : /\ calls'[a].pc = calls[a].pc /\ calls'[a].entry = calls[a].entry
                            /\ calls'[a].next = calls[a].next
                            /\ calls[a].pc = "draining" /\ calls'[a].wait = "woken" =>
                                 calls[a].wait = "woken" \/ (calls[a].entry = e /\ left = 0)
    <2>1. CASE UNCHANGED calls
      BY <1>4, <2>1, TurnsFacts DEF CallsOK
    <2>2. CASE left = 0 /\ calls' = Wake(e)
      <3>1. calls' = [a \in Actor |->
              IF calls[a].pc = "draining" /\ calls[a].entry = e /\ calls[a].wait = "on"
              THEN [calls[a] EXCEPT !.wait = "woken"] ELSE calls[a]]
        BY <2>2 DEF Wake
      <3> QED
        BY <1>1, <1>4, <2>2, <3>1, TurnsFacts, Signalled
    <2> QED
      BY <1>1, <2>1, <2>2
  <1>6. ASSUME callers # "eager" PROVE Turns'
    <2>1. /\ IsFiniteSet(Dispatching(e)) /\ Cardinality(Dispatching(e)) \in Nat
          /\ Cardinality(Dispatching(e)') = Cardinality(Dispatching(e)) - 1
          /\ Cardinality(Dispatching(e)') \in Nat
      BY <1>1, <1>3, FS_RemoveElement, FS_CardinalityType, TurnsFacts DEF IInv, FinitelyMany
    <2>2. ~entries[e].overdue => left = Cardinality(Dispatching(e)')
      BY <1>0, <1>1, <1>6, <2>1 DEF TurnsInv, Turns, ExactCount
    <2>3. ~entries[e].overdue => entries'[e].inflight = Cardinality(Dispatching(e)')
      BY <1>4, <2>1, <2>2
    <2>4. \A r \in Run : calls[r].pc = "draining" /\ calls'[r].wait = "woken" =>
            IF calls[r].entry = e THEN entries'[e].inflight = 0 ELSE calls[r].wait = "woken"
      <3> TAKE r \in Run
      <3> HAVE calls[r].pc = "draining" /\ calls'[r].wait = "woken"
      <3>1. r \in Actor
        BY TurnsFacts
      <3>2. CASE calls[r].wait = "woken" /\ calls[r].entry = e
        <4>1. entries[e].inflight = 0
          BY <1>6, <3>2 DEF TurnsInv, Turns, DrainsClosed
        <4>2. left < 0 /\ entries' = entries
          BY <1>0, <1>1, <4>1
        <4> QED
          BY <3>2, <4>1, <4>2
      <3>3. CASE calls[r].entry = e /\ left = 0
        BY <1>4, <3>3
      <3> QED
        BY <1>5, <3>1, <3>2, <3>3
    <2>5. \A a \in Actor : /\ calls'[a].pc = calls[a].pc /\ calls'[a].entry = calls[a].entry
                           /\ calls'[a].next = calls[a].next
      BY <1>5
    <2>6. Dispatching(e)' \subseteq Dispatching(e)
      BY <1>3
    <2> QED
      BY <1>1, <1>3, <1>4, <1>6, <2>3, <2>4, <2>5, <2>6, CountTurns
  <1> QED
    BY <1>5, <1>6

-----------------------------------------------------------------------------
LEMMA StoreStep ==
  ASSUME TurnsInv, [Next]_vars
  PROVE  StoreOK'
  <1>1. StoreOK /\ session \in [Run -> Session]
    BY TurnsFacts DEF TurnsInv, Sound
  <1>2. CASE UNCHANGED <<stored, bucket>>
    BY <1>1, <1>2 DEF StoreOK
  <1>3. ASSUME NEW r \in Run, Build(r) \/ LeaderBuilds(r) \/ LeaderCleans(r) PROVE StoreOK'
    BY <1>1, <1>3 DEF StoreOK, Build, LeaderBuilds, LeaderCleans
  <1>4. ASSUME NEW m \in Manager, DeleteData(m) PROVE StoreOK'
    BY <1>1, <1>4 DEF StoreOK, DeleteData
  <1>5. ASSUME NEW r \in Run, RunStep(r) PROVE StoreOK'
    BY <1>2, <1>3, <1>5 DEF RunStep, Look, Decide, Resume, ActivateFails, Stream, StreamEnds, Finalize,
                            CloseGate, Drained, DrainTimesOut
  <1>6. ASSUME NEW a \in Actor, KernelCall(a) PROVE StoreOK'
    BY <1>2, <1>6 DEF KernelCall, Pause, Stop, RecordPause, Remove
  <1>7. ASSUME NEW m \in Manager, StopTeam(m) \/ PauseTeam(m) \/ DeleteTeam(m) PROVE StoreOK'
    BY <1>2, <1>7 DEF StopTeam, PauseTeam, DeleteTeam
  <1>8. ASSUME NEW p \in Payload, Admit(p) \/ ConsumeDone(p) PROVE StoreOK'
    BY <1>2, <1>8 DEF Admit, ConsumeDone
  <1> QED
    BY <1>2, <1>4, <1>5, <1>6, <1>7, <1>8 DEF Next, vars

LEMMA CallersStay ==
  ASSUME [Next]_vars
  PROVE  callers' = callers
  <1>1. ASSUME NEW r \in Run, RunStep(r) PROVE callers' = callers
    BY <1>1 DEF RunStep, Look, Decide, Build, Resume, ActivateFails, Stream, LeaderBuilds,
                LeaderCleans, StreamEnds, Finalize, CloseGate, Drained, DrainTimesOut, rigid
  <1>2. ASSUME NEW a \in Actor, KernelCall(a) PROVE callers' = callers
    BY <1>2 DEF KernelCall, Pause, Stop, RecordPause, Remove, rigid
  <1>3. ASSUME NEW m \in Manager, StopTeam(m) \/ PauseTeam(m) \/ DeleteTeam(m) \/ DeleteData(m)
        PROVE  callers' = callers
    BY <1>3 DEF StopTeam, PauseTeam, DeleteTeam, DeleteData, rigid
  <1>4. ASSUME NEW p \in Payload, Admit(p) \/ ConsumeDone(p) PROVE callers' = callers
    BY <1>4 DEF Admit, ConsumeDone, rigid
  <1>5. CASE UNCHANGED vars
    BY <1>5 DEF vars, rigid
  <1> QED
    BY <1>1, <1>2, <1>3, <1>4, <1>5 DEF Next

LEMMA TurnsStep ==
  ASSUME TurnsInv, [Next]_vars
  PROVE  TurnsInv'
  <1>1. CallsOK' /\ (callers # "eager" => Turns')
    <2>1. ASSUME NEW r \in Run, RunStep(r) PROVE CallsOK' /\ (callers # "eager" => Turns')
      <3>1. CASE LeaderBuilds(r) \/ LeaderCleans(r)
        BY <3>1, TurnsStutter DEF LeaderBuilds, LeaderCleans
      <3> QED
        BY <2>1, <3>1, LookStep, DecideStep, BuildTurns, ResumeTurns, FailStep, StreamStep,
           StreamEndsStep, FinalizeStep, CloseTurns, DrainedTurns DEF RunStep
    <2>2. CASE UNCHANGED vars
      BY <2>2, TurnsStutter DEF vars
    <2> QED
      BY <2>1, <2>2, KernelTurns, ManagerStep, AdmitTurns, DoneTurns DEF Next
  <1> QED
    BY <1>1, CallersStay, GateStep, StoreStep DEF TurnsInv

LEMMA TurnsInit == Init => TurnsInv
  <1> SUFFICES ASSUME Init PROVE TurnsInv
    OBVIOUS
  <1>1. Len(entries) = 0 /\ Entry = {} /\ IInv
    BY EmptySeq, InitIInv DEF Init, Entry
  <1>2. NoCall \in CallRec /\ NoCall.pc = "out" /\ NoCall.entry = 0
    BY DEF NoCall, CallRec, PC
  <1>3. CallsOK /\ StoreOK
    <2>1. calls \in [Actor -> CallRec] /\ \A a \in Actor : calls[a].entry = 0
      BY <1>2 DEF Init
    <2>2. \A a \in Actor : calls[a].entry <= Len(entries)
      BY <1>1, <2>1
    <2>3. StoreOK
      BY DEF Init, StoreOK
    <2> QED
      BY <2>1, <2>2, <2>3 DEF CallsOK
  <1>4. \A r \in Run : calls[r].pc = "out"
    BY <1>2 DEF Init, Actor
  <1>5. Turns
    BY <1>1, <1>4 DEF Init, Turns, OneRun, Idle, FoundClosed, DrainsClosed, OpenIsInUse, ExactCount,
                     Drains, Choosing
  <1> QED
    BY <1>1, <1>3, <1>5 DEF TurnsInv

\* The inductive invariant of runs that take turns.
THEOREM TurnsInvariant == Spec => []TurnsInv
  BY TurnsInit, TurnsStep, PTL DEF Spec

\* CloseAndDrain (gate.go): when runs take turns, a gate that was closed and whose drain
\* did not run out of time has nobody inside, whatever lifecycle calls come between.
THEOREM DrainIsComplete == Spec => []DrainedGateIsEmpty
  <1>1. TurnsInv => DrainedGateIsEmpty
    BY DEF TurnsInv, Turns, Drains, DrainedGateIsEmpty
  <1> QED
    BY <1>1, TurnsInvariant, PTL

-----------------------------------------------------------------------------
(* Runs that take turns and are left alone: the team that streams is in the  *)
(* pool and open, and the leader's kernel runs for nobody else.              *)

\* The run for which the kernel of an entry is running.
Streams(r, e) ==
  /\ session[r] = entries[e].session
  /\ \/ calls[r].pc \in {"streaming", "finalizing"}
     \/ calls[r].pc \in {"pausing", "stopping"} /\ calls[r].entry = e

\* What a run sees of the pool stays as it saw it.
SeesPool(r) ==
  /\ calls[r].pc \in {"pausing", "recording"} => calls[r].next # "inspecting"
  /\ calls[r].pc \in Choosing => calls[r].entry = pool
  /\ calls[r].pc \in {"activated", "streaming"} =>
       /\ pool # 0 /\ calls[r].entry = pool /\ ~entries[pool].closed
       /\ session[r] = entries[pool].session

RunsForOne ==
  \A e \in Entry : entries[e].kernel = "running" => e = pool /\ \E r \in Run : Streams(r, e)

Patience ==
  /\ \A m \in Manager : calls[m].pc = "out"
  /\ \A r \in Run : SeesPool(r)
  /\ RunsForOne

PatientInv == TurnsInv /\ (callers = "patient" => Patience)

\* The kernel runs for the one run there is, if it is at a place where it may.
LEMMA RunsForIt ==
  ASSUME PatientInv, callers = "patient", NEW r \in Run, \A q \in Run : q # r => Idle(q)
  PROVE  \A e \in Entry : entries[e].kernel = "running" => e = pool /\ Streams(r, e)
  BY DEF PatientInv, Patience, RunsForOne, Streams, Idle

\* A step that moves one run while the others are idle.
LEMMA PatientFrame ==
  ASSUME PatientInv, callers = "patient", NEW r \in Run, \A q \in Run : q # r => Idle(q),
         UNCHANGED session, \A q \in Actor : q # r => calls'[q] = calls[q],
         SeesPool(r)',
         \A e \in Entry' : entries'[e].kernel = "running" => e = pool' /\ Streams(r, e)'
  PROVE  Patience'
  <1>1. Run \subseteq Actor /\ Manager \subseteq Actor /\ \A m \in Manager : m # r
    BY ActorAssumption DEF Actor
  <1>2. \A m \in Manager : calls'[m].pc = "out"
    BY <1>1 DEF PatientInv, Patience
  <1>3. \A q \in Run : SeesPool(q)'
    BY <1>1 DEF SeesPool, Idle, Choosing
  <1>4. RunsForOne'
    BY DEF RunsForOne
  <1> QED
    BY <1>2, <1>3, <1>4 DEF Patience

\* Writing the kernel's state, or another field.
LEMMA KernelWrite ==
  ASSUME Sound, NEW e \in Nat, NEW k \in {"running", "paused", "stopped"},
         entries' = [entries EXCEPT ![e].kernel = k]
  PROVE  /\ Entry' = Entry
         /\ \A f \in Entry : /\ entries'[f].kernel = IF f = e THEN k ELSE entries[f].kernel
                             /\ entries'[f].session = entries[f].session
                             /\ entries'[f].closed = entries[f].closed
  <1>1. PICK new : new = [entries[e] EXCEPT !.kernel = k]
    OBVIOUS
  <1>2. entries' = [entries EXCEPT ![e] = new]
    BY <1>1
  <1>3. CASE e \in Entry
    <2>1. entries[e] \in EntryRec
      BY <1>3, EntryIs
    <2>2. /\ new \in EntryRec /\ new.kernel = k /\ new.session = entries[e].session
          /\ new.closed = entries[e].closed
      BY <1>1, <2>1 DEF EntryRec
    <2>3. Entry' = Entry /\ \A f \in Entry : entries'[f] = IF f = e THEN new ELSE entries[f]
      BY <1>2, <1>3, <2>2, EntryPut
    <2> QED
      BY <2>2, <2>3
  <1>4. CASE e \notin Entry
    <2>1. entries' = entries
      BY <1>2, <1>4, EntryPutNone
    <2> QED
      BY <1>4, <2>1 DEF Entry
  <1> QED
    BY <1>3, <1>4

LEMMA OtherWrite ==
  ASSUME Sound, NEW e \in Nat,
         \/ entries' = [entries EXCEPT ![e].state = "paused"]
         \/ entries' = [entries EXCEPT ![e].closed = TRUE]
         \/ entries' = [entries EXCEPT ![e].overdue = TRUE]
         \/ entries' = [entries EXCEPT ![e].state = "running", ![e].closed = FALSE,
                                       ![e].inflight = 0, ![e].open = FALSE]
  PROVE  /\ Entry' = Entry
         /\ \A f \in Entry : entries'[f].kernel = entries[f].kernel
                             /\ entries'[f].session = entries[f].session
  <1>1. PICK new :
          /\ new \in {[entries[e] EXCEPT !.state = "paused"], [entries[e] EXCEPT !.closed = TRUE],
                      [entries[e] EXCEPT !.overdue = TRUE],
                      [entries[e] EXCEPT !.state = "running", !.closed = FALSE,
                                         !.inflight = 0, !.open = FALSE]}
          /\ entries' = [entries EXCEPT ![e] = new]
    OBVIOUS
  <1>2. CASE e \in Entry
    <2>1. PICK rec \in EntryRec : rec = entries[e]
      BY <1>2, EntryIs
    <2>2. new \in EntryRec /\ new.kernel = rec.kernel /\ new.session = rec.session
      <3>1. CASE new = [rec EXCEPT !.state = "paused"]
        BY <3>1 DEF EntryRec
      <3>2. CASE new = [rec EXCEPT !.closed = TRUE]
        BY <3>2 DEF EntryRec
      <3>3. CASE new = [rec EXCEPT !.overdue = TRUE]
        BY <3>3 DEF EntryRec
      <3>4. CASE new = [rec EXCEPT !.state = "running", !.closed = FALSE,
                                   !.inflight = 0, !.open = FALSE]
        BY <3>4 DEF EntryRec
      <3> QED
        BY <1>1, <2>1, <3>1, <3>2, <3>3, <3>4, Zenon
    <2>3. Entry' = Entry /\ \A f \in Entry : entries'[f] = IF f = e THEN new ELSE entries[f]
      <3>1. new \in EntryRec /\ entries' = [entries EXCEPT ![e] = new]
        BY <1>1, <2>2
      <3> QED
        BY <1>2, <3>1, EntryPut, Zenon
    <2> QED
      BY <2>1, <2>2, <2>3
  <1>3. CASE e \notin Entry
    <2>1. entries' = entries
      BY <1>1, <1>3, EntryPutNone
    <2> QED
      BY <2>1 DEF Entry
  <1> QED
    BY <1>2, <1>3

\* Where Goto and Jump lead, and who else moves.
LEMMA GotoLeads ==
  ASSUME CallsOK, NEW a \in Actor, NEW pc, Goto(a, pc)
  PROVE  /\ calls'[a].pc = pc /\ calls'[a].entry = calls[a].entry /\ calls'[a].next = calls[a].next
         /\ \A q \in Actor : q # a => calls'[q] = calls[q]
  <1>1. PICK old \in CallRec : old = calls[a]
    BY DEF CallsOK
  <1>2. PICK new : new = [old EXCEPT !.pc = pc]
    OBVIOUS
  <1>3. new.pc = pc /\ new.entry = old.entry /\ new.next = old.next
    BY <1>2 DEF CallRec
  <1>4. calls' = [calls EXCEPT ![a] = new]
    BY <1>1, <1>2 DEF Goto
  <1> QED
    BY <1>1, <1>3, <1>4 DEF CallsOK

LEMMA JumpLeads ==
  ASSUME CallsOK, NEW a \in Actor, NEW pc, Jump(a, pc)
  PROVE  /\ calls'[a].pc = pc /\ calls'[a].entry = 0 /\ calls'[a].next = "ended"
         /\ \A q \in Actor : q # a => calls'[q] = calls[q]
  BY DEF CallsOK, Jump, NoCall

\* The steps after which nobody needs the kernel.
LEMMA ChoosingPatient ==
  ASSUME PatientInv, callers = "patient", NEW r \in Run,
         Look(r) \/ Decide(r) \/ ActivateFails(r)
  PROVE  Patience'
  <1>1. /\ TurnsInv /\ callers # "eager" /\ CallsOK /\ r \in Actor /\ SeesPool(r)
        /\ UNCHANGED <<session, pool, entries>> /\ Entry' = Entry
        /\ calls[r].pc \in Choosing \cup {"out"}
    BY TurnsFacts DEF PatientInv, Patience, Look, Decide, ActivateFails, rigid, Entry, Choosing
  <1>2. \A q \in Run : q # r => Idle(q)
    <2>1. CASE Look(r)
      BY <1>1, <2>1 DEF Look
    <2>2. CASE ~Look(r)
      <3>1. ~Idle(r)
        BY <2>2 DEF Decide, ActivateFails, Idle
      <3> QED
        BY <1>1, <3>1, OnlyRun
    <2> QED
      BY <2>1, <2>2
  <1>3. \A e \in Entry : entries[e].kernel # "running"
    BY <1>1, <1>2, RunsForIt DEF Streams, Choosing
  <1>4. /\ \A q \in Actor : q # r => calls'[q] = calls[q]
        /\ \/ calls'[r].pc \in {"ended", "finalizing", "stopping", "removing"}
           \/ calls'[r].pc \in Choosing /\ calls'[r].entry = pool
    <2>1. CASE Look(r)
      <3>1. PICK new : /\ calls' = [calls EXCEPT ![r] = new]
                       /\ \/ new = [pc |-> StopPC(pool), entry |-> pool, next |-> "inspecting", wait |-> "no"]
                          \/ new = [calls[r] EXCEPT !.pc = "inspecting", !.entry = pool]
        BY <2>1 DEF Look
      <3>2. new.pc \in {"stopping", "removing"} \/ (new.pc = "inspecting" /\ new.entry = pool)
        <4>1. CASE new = [pc |-> StopPC(pool), entry |-> pool, next |-> "inspecting", wait |-> "no"]
          BY <4>1 DEF StopPC
        <4>2. CASE new = [calls[r] EXCEPT !.pc = "inspecting", !.entry = pool]
          <5>1. calls[r] \in CallRec
            BY <1>1, TurnsFacts
          <5> QED
            BY <4>2, <5>1 DEF CallRec
        <4> QED
          BY <3>1, <4>1, <4>2
      <3> QED
        BY <1>1, <3>1, <3>2 DEF CallsOK, Choosing
    <2>2. CASE Decide(r)
      <3>1. Decision(calls[r].entry, session[r]) \in {"building", "resuming", "finalizing"}
        <4>1. stored \in BOOLEAN
              /\ bucket[session[r]] \in {"none", "pending_create", "created", "cleaned"}
          BY <1>1, TurnsFacts DEF TurnsInv, StoreOK, Sound
        <4> QED
          BY <4>1 DEF Decision
      <3> QED
        BY <1>1, <2>2, <3>1, GotoLeads DEF Decide, SeesPool, Choosing
    <2>3. CASE ActivateFails(r)
      BY <1>1, <2>3, JumpLeads DEF ActivateFails
    <2> QED
      BY <2>1, <2>2, <2>3
  <1>5. SeesPool(r)'
    BY <1>1, <1>4 DEF SeesPool, Choosing
  <1> QED
    BY <1>1, <1>2, <1>3, <1>4, <1>5, PatientFrame

LEMMA BuildPatient ==
  ASSUME PatientInv, callers = "patient", NEW r \in Run, Build(r)
  PROVE  Patience'
  <1>1. PICK n, new, rec :
          /\ n = Len(entries) + 1
          /\ new = [session |-> session[r], state |-> "running", closed |-> FALSE,
                    inflight |-> 0, open |-> FALSE, overdue |-> FALSE, kernel |-> "idle"]
          /\ rec = [calls[r] EXCEPT !.pc = "activated", !.entry = n]
    OBVIOUS
  <1>2. /\ entries' = Append(entries, new) /\ pool' = n /\ UNCHANGED session
        /\ calls[r].pc = "building" /\ r \in Actor /\ TurnsInv /\ callers # "eager"
        /\ calls' = [calls EXCEPT ![r] = rec] /\ CallsOK
    BY <1>1, TurnsFacts DEF Build, rigid, PatientInv
  <1>3. /\ rec.pc = "activated" /\ rec.entry = n /\ n # 0
        /\ calls'[r] = rec /\ \A q \in Actor : q # r => calls'[q] = calls[q]
    BY <1>1, <1>2, TurnsFacts DEF CallRec, CallsOK
  <1>4. new \in EntryRec /\ new.session = session[r] /\ ~new.closed /\ new.kernel = "idle"
    BY <1>1, <1>2, TurnsFacts DEF EntryRec, Sound
  <1>5. /\ entries'[n] = new /\ Entry' = Entry \cup {n}
        /\ \A f \in Entry : entries'[f] = entries[f]
    <2>1. Len(entries') = n /\ entries'[n] = new /\ \A f \in Entry : entries'[f] = entries[f]
      BY <1>1, <1>2, <1>4, TurnsFacts, AppendProperties DEF Sound
    <2> QED
      BY <1>1, <1>2, <2>1, TurnsFacts DEF Entry
  <1>6. \A q \in Run : q # r => Idle(q)
    BY <1>2, OnlyRun DEF Idle
  <1>7. \A e \in Entry' : entries'[e].kernel # "running"
    <2>1. ASSUME NEW e \in Entry PROVE entries[e].kernel # "running"
      <3>1. ~ Streams(r, e)
        BY <1>2 DEF Streams
      <3> QED
        BY <1>6, <2>1, <3>1, RunsForIt, Zenon
    <2> QED
      BY <1>4, <1>5, <2>1
  <1>8. SeesPool(r)'
    BY <1>2, <1>3, <1>4, <1>5 DEF SeesPool, Choosing
  <1> QED
    BY <1>2, <1>3, <1>6, <1>7, <1>8, PatientFrame

LEMMA ResumePatient ==
  ASSUME PatientInv, callers = "patient", NEW r \in Run, Resume(r)
  PROVE  Patience'
  <1>1. /\ TurnsInv /\ callers # "eager" /\ r \in Actor /\ SeesPool(r) /\ ~Idle(r)
        /\ UNCHANGED <<session, pool>> /\ calls[r].pc = "resuming" /\ Sound
        /\ calls[r].entry \in Nat
    BY TurnsFacts DEF PatientInv, Patience, Resume, rigid, Idle
  <1>2. PICK e : /\ e = calls[r].entry
                 /\ entries' = [entries EXCEPT ![e].state = "running", ![e].closed = FALSE,
                                               ![e].inflight = 0, ![e].open = FALSE]
    BY DEF Resume
  <1>3. e = pool /\ e \in Entry /\ entries[e].session = session[r] /\ e # 0
    <2>1. e # 0 /\ entries[e].session = session[r]
      BY <1>1, <1>2 DEF TurnsInv, Turns, FoundClosed
    <2>2. e = pool
      BY <1>1, <1>2 DEF SeesPool, Choosing
    <2> QED
      BY <1>1, <2>1, <2>2, TurnsFacts DEF Sound
  <1>4. /\ Entry' = Entry /\ ~entries'[e].closed
        /\ \A f \in Entry : entries'[f].kernel = entries[f].kernel
                            /\ entries'[f].session = entries[f].session
    <2>1. entries[e] \in EntryRec /\ e \in DOMAIN entries
      BY <1>1, <1>3, EntryIs DEF Entry
    <2>2. ~entries'[e].closed
      BY <1>2, <2>1 DEF EntryRec
    <2> QED
      BY <1>1, <1>2, <1>3, <2>2, OtherWrite
  <1>5. \A q \in Run : q # r => Idle(q) /\ calls[q].pc # "draining"
    BY <1>1, OnlyRun
  <1>6. /\ calls'[r].pc = "activated" /\ calls'[r].entry = e
        /\ \A q \in Actor : q # r => calls'[q] = calls[q]
    <2>1. \A m \in Manager : calls[m].pc = "out"
      BY DEF PatientInv, Patience
    <2>2. \A a \in Actor : calls[a].pc # "draining"
      BY <1>1, <1>5, <2>1 DEF Actor
    <2>3. Wake(e) = calls
      BY <1>1, <2>2, TurnsFacts DEF Wake, CallsOK
    <2>4. calls' = [Wake(e) EXCEPT ![r].pc = "activated"]
      BY <1>2 DEF Resume
    <2>5. Goto(r, "activated")
      BY <2>3, <2>4 DEF Goto
    <2> QED
      BY <1>1, <1>2, <2>5, TurnsFacts, GotoLeads
  <1>7. \A f \in Entry' : entries'[f].kernel # "running"
    BY <1>1, <1>4, <1>5, RunsForIt DEF Streams
  <1>8. SeesPool(r)'
    BY <1>1, <1>3, <1>4, <1>6 DEF SeesPool, Choosing
  <1> QED
    BY <1>1, <1>5, <1>6, <1>7, <1>8, PatientFrame

LEMMA StreamPatient ==
  ASSUME PatientInv, callers = "patient", NEW r \in Run, Stream(r) \/ StreamEnds(r)
  PROVE  Patience'
  <1>1. /\ TurnsInv /\ callers # "eager" /\ CallsOK /\ r \in Actor /\ SeesPool(r) /\ ~Idle(r)
        /\ UNCHANGED <<session, pool>> /\ calls[r].pc \in {"activated", "streaming"} /\ Sound
        /\ pool # 0 /\ calls[r].entry = pool /\ ~entries[pool].closed
        /\ session[r] = entries[pool].session /\ pool \in Nat /\ pool \in Entry
    BY TurnsFacts DEF PatientInv, Patience, Stream, StreamEnds, rigid, Idle, SeesPool, Sound
  <1>2. \A q \in Run : q # r => Idle(q)
    BY <1>1, OnlyRun
  <1>3. CASE Stream(r)
    <2>1. /\ Entry' = Entry
          /\ \A f \in Entry : /\ entries'[f].kernel = IF f = pool THEN "running" ELSE entries[f].kernel
                              /\ entries'[f].session = entries[f].session
                              /\ entries'[f].closed = entries[f].closed
      BY <1>1, <1>3, KernelWrite DEF Stream
    <2>2. /\ calls'[r].pc = "streaming" /\ calls'[r].entry = pool
          /\ \A q \in Actor : q # r => calls'[q] = calls[q]
      BY <1>1, <1>3, GotoLeads DEF Stream
    <2>3. SeesPool(r)' /\ Streams(r, pool)'
      BY <1>1, <2>1, <2>2 DEF SeesPool, Streams, Choosing
    <2>4. \A e \in Entry' : entries'[e].kernel = "running" => e = pool' /\ Streams(r, e)'
      BY <1>1, <1>2, <2>1, <2>3, RunsForIt DEF Streams
    <2> QED
      BY <1>1, <1>2, <2>2, <2>3, <2>4, PatientFrame
  <1>4. CASE StreamEnds(r)
    <2>1. entries' = entries /\ Entry' = Entry
      BY <1>4 DEF StreamEnds, Entry
    <2>2. /\ calls'[r].pc = "finalizing" /\ \A q \in Actor : q # r => calls'[q] = calls[q]
      BY <1>1, <1>4, JumpLeads DEF StreamEnds
    <2>3. SeesPool(r)'
      BY <2>2 DEF SeesPool, Choosing
    <2>4. \A e \in Entry' : entries'[e].kernel = "running" => e = pool' /\ Streams(r, e)'
      BY <1>1, <1>2, <2>1, <2>2, RunsForIt DEF Streams
    <2> QED
      BY <1>1, <1>2, <2>2, <2>3, <2>4, PatientFrame
  <1> QED
    BY <1>3, <1>4

LEMMA FinalizePatient ==
  ASSUME PatientInv, callers = "patient", NEW r \in Run, Finalize(r)
  PROVE  Patience'
  <1>1. /\ TurnsInv /\ callers # "eager" /\ CallsOK /\ r \in Actor /\ ~Idle(r)
        /\ UNCHANGED <<session, pool, entries>> /\ Entry' = Entry /\ calls[r].pc = "finalizing"
    BY TurnsFacts DEF PatientInv, Finalize, rigid, Idle, Entry
  <1>2. \A q \in Run : q # r => Idle(q)
    BY <1>1, OnlyRun
  <1>3. PICK e, new :
          /\ e = Resolve(session[r]) /\ calls' = [calls EXCEPT ![r] = new]
          /\ \/ e = 0 /\ new = [calls[r] EXCEPT !.pc = "closing"]
             \/ /\ e # 0
                /\ \E pc \in {StopPC(e), PausePC(e)} :
                     new = [pc |-> pc, entry |-> e, next |-> "closing", wait |-> "no"]
    BY DEF Finalize, Goto
  <1>4. calls'[r] = new /\ \A q \in Actor : q # r => calls'[q] = calls[q]
    BY <1>1, <1>3 DEF CallsOK
  <1>5. SeesPool(r)'
    <2>1. CASE e = 0
      <3>1. new.pc = "closing"
        BY <1>1, <1>3, <2>1, TurnsFacts DEF CallRec
      <3> QED
        BY <1>4, <3>1 DEF SeesPool, Choosing
    <2>2. CASE e # 0
      <3>1. new.pc \in {"stopping", "removing", "pausing", "recording"} /\ new.next = "closing"
        BY <1>3, <2>2 DEF PausePC, StopPC
      <3> QED
        BY <1>4, <3>1 DEF SeesPool, Choosing
    <2> QED
      BY <2>1, <2>2
  <1>6. \A f \in Entry' : entries'[f].kernel = "running" => f = pool' /\ Streams(r, f)'
    <2> SUFFICES ASSUME NEW f \in Entry, entries[f].kernel = "running"
                 PROVE  f = pool /\ Streams(r, f)'
      BY <1>1
    <2>1. f = pool /\ session[r] = entries[f].session
      BY <1>2, RunsForIt DEF Streams
    <2>2. e = f /\ e # 0
      BY <1>1, <1>3, <2>1, TurnsFacts DEF Resolve
    <2>3. new.pc \in {"pausing", "stopping"} /\ new.entry = f
      BY <1>3, <2>2 DEF PausePC, StopPC
    <2> QED
      BY <1>1, <1>4, <2>1, <2>3 DEF Streams
  <1> QED
    BY <1>1, <1>2, <1>4, <1>5, <1>6, PatientFrame

LEMMA DrainPatient ==
  ASSUME PatientInv, callers = "patient", NEW r \in Run,
         CloseGate(r) \/ Drained(r) \/ DrainTimesOut(r)
  PROVE  Patience'
  <1>1. /\ TurnsInv /\ callers # "eager" /\ CallsOK /\ r \in Actor /\ ~Idle(r) /\ Sound
        /\ UNCHANGED <<session, pool>> /\ calls[r].pc \in {"closing", "draining"}
        /\ calls[r].entry \in Nat
    BY TurnsFacts DEF PatientInv, CloseGate, Drained, DrainTimesOut, rigid, Idle
  <1>2. \A q \in Run : q # r => Idle(q)
    BY <1>1, OnlyRun
  <1>3. Entry' = Entry /\ \A f \in Entry : entries'[f].kernel = entries[f].kernel
    <2>1. CASE UNCHANGED entries
      BY <2>1 DEF Entry
    <2>2. CASE CloseGate(r) /\ ~UNCHANGED entries
      <3>1. Resolve(session[r]) \in Nat
        BY <1>1, TurnsFacts DEF Resolve, Sound
      <3> QED
        BY <1>1, <2>2, <3>1, OtherWrite DEF CloseGate
    <2>3. CASE DrainTimesOut(r)
      BY <1>1, <2>3, OtherWrite DEF DrainTimesOut
    <2> QED
      BY <2>1, <2>2, <2>3 DEF Drained
  <1>4. /\ calls'[r].pc \in {"ended", "draining"} /\ \A q \in Actor : q # r => calls'[q] = calls[q]
    <2>1. CASE CloseGate(r)
      <3>1. PICK new : /\ calls' = [calls EXCEPT ![r] = new]
                       /\ \/ new = [NoCall EXCEPT !.pc = "ended"]
                          \/ new = [calls[r] EXCEPT !.pc = "draining", !.entry = Resolve(session[r]),
                                                    !.wait = "on"]
        BY <2>1 DEF CloseGate
      <3>2. calls[r] \in CallRec
        BY <1>1, TurnsFacts
      <3>3. new.pc \in {"ended", "draining"}
        <4>1. CASE new = [NoCall EXCEPT !.pc = "ended"]
          BY <4>1 DEF NoCall
        <4>2. CASE new # [NoCall EXCEPT !.pc = "ended"]
          BY <3>1, <3>2, <4>2 DEF CallRec
        <4> QED
          BY <4>1, <4>2
      <3> QED
        BY <1>1, <3>1, <3>3 DEF CallsOK
    <2>2. CASE ~CloseGate(r)
      BY <1>1, <2>2, JumpLeads DEF Drained, DrainTimesOut
    <2> QED
      BY <2>1, <2>2
  <1>5. SeesPool(r)'
    BY <1>4 DEF SeesPool, Choosing
  <1>6. \A e \in Entry' : entries'[e].kernel # "running"
    BY <1>1, <1>2, <1>3, RunsForIt DEF Streams
  <1> QED
    BY <1>1, <1>2, <1>4, <1>5, <1>6, PatientFrame

LEMMA KernelPatient ==
  ASSUME PatientInv, callers = "patient", NEW a \in Actor, KernelCall(a)
  PROVE  Patience'
  <1>1. calls[a].pc \in {"stopping", "removing", "pausing", "recording"}
    BY DEF KernelCall, Pause, Stop, RecordPause, Remove
  <1>2. /\ a \in Run /\ TurnsInv /\ callers # "eager" /\ CallsOK /\ SeesPool(a) /\ ~Idle(a) /\ Sound
        /\ calls[a].entry \in Nat /\ calls[a].next \in {"ended", "inspecting", "closing", "deleting"}
        /\ UNCHANGED session
    BY <1>1, TurnsFacts DEF PatientInv, Patience, Actor, Idle, CallRec, KernelCall, Pause, Stop,
                            RecordPause, Remove, rigid
  <1>3. \A q \in Run : q # a => Idle(q)
    BY <1>2, OnlyRun
  <1>4. CASE Pause(a) \/ Stop(a)
    <2>1. PICK k \in {"paused", "stopped"} :
            entries' = [entries EXCEPT ![calls[a].entry].kernel = k]
      BY <1>4 DEF Pause, Stop
    <2>0. k \in {"running", "paused", "stopped"}
      BY <2>1
    <2>2. /\ Entry' = Entry
          /\ \A f \in Entry : entries'[f].kernel = IF f = calls[a].entry THEN k ELSE entries[f].kernel
      BY <1>2, <2>0, <2>1, KernelWrite
    <2>3. \A f \in Entry' : entries'[f].kernel # "running"
      BY <1>2, <1>3, <1>4, <2>2, RunsForIt DEF Streams, Pause, Stop
    <2>4. /\ calls'[a].pc \in {"recording", "removing"} /\ calls'[a].next = calls[a].next
          /\ calls'[a].pc = "recording" => calls[a].pc = "pausing"
          /\ \A q \in Actor : q # a => calls'[q] = calls[q]
      <3>1. CASE Pause(a)
        BY <1>2, <3>1, GotoLeads DEF Pause
      <3>2. CASE Stop(a)
        BY <1>2, <3>2, GotoLeads DEF Stop
      <3> QED
        BY <1>4, <3>1, <3>2
    <2>5. SeesPool(a)'
      BY <1>2, <2>4 DEF SeesPool, Choosing
    <2> QED
      BY <1>2, <1>3, <2>3, <2>4, <2>5, PatientFrame
  <1>5. CASE RecordPause(a) \/ Remove(a)
    <2>1. Entry' = Entry /\ \A f \in Entry : entries'[f].kernel = entries[f].kernel
      <3>1. CASE RecordPause(a)
        BY <1>2, <3>1, OtherWrite DEF RecordPause
      <3>2. CASE Remove(a)
        BY <3>2 DEF Remove, Entry
      <3> QED
        BY <1>5, <3>1, <3>2
    <2>2. \A f \in Entry' : entries'[f].kernel # "running"
      BY <1>2, <1>3, <1>5, <2>1, RunsForIt DEF Streams, RecordPause, Remove
    <2>3. /\ calls'[a].pc = calls[a].next /\ calls'[a].entry = 0
          /\ \A q \in Actor : q # a => calls'[q] = calls[q]
      BY <1>2, <1>5, JumpLeads DEF RecordPause, Remove
    <2>4. calls[a].next = "inspecting" => pool' = 0
      BY <1>2, <1>5 DEF SeesPool, RecordPause, Remove
    <2>5. SeesPool(a)'
      BY <1>2, <2>3, <2>4 DEF SeesPool, Choosing
    <2> QED
      BY <1>2, <1>3, <2>2, <2>3, <2>5, PatientFrame
  <1> QED
    BY <1>4, <1>5 DEF KernelCall

\* Steps that move nobody.
LEMMA PayloadPatient ==
  ASSUME PatientInv, callers = "patient", UNCHANGED <<session, pool>>,
         Len(entries') = Len(entries),
         \A f \in Entry : /\ entries'[f].session = entries[f].session
                          /\ entries'[f].closed = entries[f].closed
                          /\ entries'[f].kernel = entries[f].kernel,
         \A a \in Actor : /\ calls'[a].pc = calls[a].pc /\ calls'[a].entry = calls[a].entry
                          /\ calls'[a].next = calls[a].next
  PROVE  Patience'
  <1>1. /\ Patience /\ Entry' = Entry /\ Run \subseteq Actor /\ Manager \subseteq Actor
        /\ pool # 0 => pool \in Entry
    BY TurnsFacts DEF PatientInv, Entry, Sound, Actor
  <1>2. \A m \in Manager : calls'[m].pc = "out"
    BY <1>1 DEF Patience
  <1>3. \A r \in Run : SeesPool(r)'
    <2> TAKE r \in Run
    <2>1. SeesPool(r) /\ r \in Actor
      BY <1>1 DEF Patience
    <2> QED
      BY <1>1, <2>1 DEF SeesPool
  <1>4. RunsForOne'
    <2> SUFFICES ASSUME NEW e \in Entry, entries[e].kernel = "running"
                 PROVE  e = pool /\ \E r \in Run : Streams(r, e)'
      BY <1>1 DEF RunsForOne
    <2>1. PICK r \in Run : e = pool /\ Streams(r, e)
      BY <1>1 DEF Patience, RunsForOne
    <2>2. Streams(r, e)'
      BY <1>1, <2>1 DEF Streams
    <2> QED
      BY <2>1, <2>2
  <1> QED
    BY <1>2, <1>3, <1>4 DEF Patience

\* What a payload's step writes: the gate's count.
LEMMA CountWrite ==
  ASSUME Sound, NEW e \in Entry, NEW n \in Nat, NEW b \in BOOLEAN,
         entries' = [entries EXCEPT ![e].inflight = n, ![e].open = b]
  PROVE  /\ Len(entries') = Len(entries)
         /\ \A f \in Entry : /\ entries'[f].session = entries[f].session
                             /\ entries'[f].closed = entries[f].closed
                             /\ entries'[f].kernel = entries[f].kernel
  <1>1. PICK rec \in EntryRec : rec = entries[e]
    BY EntryIs
  <1>2. PICK new : new = [rec EXCEPT !.inflight = n, !.open = b]
    OBVIOUS
  <1>3. new \in EntryRec /\ new.session = rec.session /\ new.closed = rec.closed
        /\ new.kernel = rec.kernel
    BY <1>2 DEF EntryRec
  <1>4. entries' = [entries EXCEPT ![e] = new]
    BY <1>1, <1>2, Zenon
  <1>5. /\ Len(entries') = Len(entries)
        /\ \A f \in Entry : entries'[f] = IF f = e THEN new ELSE entries[f]
    BY <1>3, <1>4, EntryPut
  <1> QED
    BY <1>1, <1>3, <1>5

LEMMA AdmitPatient ==
  ASSUME PatientInv, callers = "patient", NEW p \in Payload, Admit(p)
  PROVE  Patience'
  <1>1. PICK s \in Session : LET e == Resolve(s) IN
          /\ e # 0
          /\ entries' = [entries EXCEPT ![e].inflight = @ + 1, ![e].open = TRUE]
          /\ calls' = [a \in Actor |->
               IF calls[a].pc = "draining" /\ calls[a].entry = e /\ calls[a].wait = "on"
               THEN [calls[a] EXCEPT !.wait = "lost"] ELSE calls[a]]
    BY DEF Admit
  <1>2. PICK e : e = Resolve(s)
    OBVIOUS
  <1>3. TurnsInv /\ Sound /\ CallsOK /\ e \in Entry /\ e \in Nat /\ UNCHANGED <<session, pool>>
    BY <1>1, <1>2, TurnsFacts DEF PatientInv, Admit, rigid, Resolve, Sound
  <1>4. entries[e].inflight + 1 \in Nat
    <2>1. entries[e] \in EntryRec
      BY <1>3, EntryIs
    <2> QED
      BY <2>1 DEF EntryRec
  <1>5. entries' = [entries EXCEPT ![e].inflight = entries[e].inflight + 1, ![e].open = TRUE]
    BY <1>1, <1>2
  <1>6. /\ Len(entries') = Len(entries)
        /\ \A f \in Entry : /\ entries'[f].session = entries[f].session
                            /\ entries'[f].closed = entries[f].closed
                            /\ entries'[f].kernel = entries[f].kernel
    BY <1>3, <1>4, <1>5, CountWrite
  <1>7. \A a \in Actor : /\ calls'[a].pc = calls[a].pc /\ calls'[a].entry = calls[a].entry
                         /\ calls'[a].next = calls[a].next
    BY <1>1, <1>2, <1>3, <1>6, Signalled
  <1> QED
    BY <1>3, <1>6, <1>7, PayloadPatient

LEMMA DonePatient ==
  ASSUME PatientInv, callers = "patient", NEW p \in Payload, ConsumeDone(p)
  PROVE  Patience'
  <1>0. PICK e, left : e = tickets[p] /\ left = entries[e].inflight - 1
    OBVIOUS
  <1>1. /\ TurnsInv /\ Sound /\ CallsOK /\ e \in Entry /\ e \in Nat /\ UNCHANGED <<session, pool>>
        /\ IF left < 0 THEN UNCHANGED <<entries, calls>>
           ELSE /\ entries' = [entries EXCEPT ![e].inflight = left, ![e].open = left # 0]
                /\ calls' = IF left = 0 THEN Wake(e) ELSE calls
    <2>1. TurnsInv
      BY DEF PatientInv
    <2>2. Sound /\ CallsOK /\ Entry = 1..Len(entries) /\ Len(entries) \in Nat
      BY <2>1, TurnsFacts
    <2>3. tickets[p] # 0 /\ tickets[p] \in 0..Len(entries)
      BY <2>2 DEF ConsumeDone, Sound
    <2>4. e \in Entry /\ e \in Nat
      BY <1>0, <2>2, <2>3
    <2>5. UNCHANGED <<session, pool>>
      BY DEF ConsumeDone, rigid
    <2>6. IF left < 0 THEN UNCHANGED <<entries, calls>>
          ELSE /\ entries' = [entries EXCEPT ![e].inflight = left, ![e].open = left # 0]
               /\ calls' = IF left = 0 THEN Wake(e) ELSE calls
      BY <1>0 DEF ConsumeDone
    <2> QED
      BY <2>1, <2>2, <2>4, <2>5, <2>6
  <1>2. CASE left < 0
    BY <1>1, <1>2, PayloadPatient
  <1>3. CASE ~(left < 0)
    <2>1. left \in Nat
      <3>1. entries[e] \in EntryRec
        BY <1>1, EntryIs
      <3> QED
        BY <1>0, <1>3, <3>1 DEF EntryRec
    <2>2. PICK b \in BOOLEAN : b = (left # 0)
      OBVIOUS
    <2>3. entries' = [entries EXCEPT ![e].inflight = left, ![e].open = b]
      BY <1>1, <1>3, <2>2, Zenon
    <2>4. /\ Len(entries') = Len(entries)
          /\ \A f \in Entry : /\ entries'[f].session = entries[f].session
                              /\ entries'[f].closed = entries[f].closed
                              /\ entries'[f].kernel = entries[f].kernel
      BY <1>1, <2>1, <2>3, CountWrite
    <2>5. \A a \in Actor : /\ calls'[a].pc = calls[a].pc /\ calls'[a].entry = calls[a].entry
                           /\ calls'[a].next = calls[a].next
      <3>1. CASE UNCHANGED calls
        BY <3>1
      <3>2. CASE calls' = Wake(e)
        <4>1. calls' = [a \in Actor |->
                IF calls[a].pc = "draining" /\ calls[a].entry = e /\ calls[a].wait = "on"
                THEN [calls[a] EXCEPT !.wait = "woken"] ELSE calls[a]]
          BY <3>2 DEF Wake
        <4> QED
          BY <1>1, <2>4, <4>1, Signalled
      <3> QED
        BY <1>1, <1>3, <3>1, <3>2
    <2> QED
      BY <1>1, <2>4, <2>5, PayloadPatient
  <1> QED
    BY <1>2, <1>3

LEMMA PatientStep ==
  ASSUME PatientInv, [Next]_vars
  PROVE  callers = "patient" => Patience'
  <1> SUFFICES ASSUME callers = "patient" PROVE Patience'
    OBVIOUS
  <1>1. \A m \in Manager : ~StopTeam(m) /\ ~PauseTeam(m) /\ ~DeleteTeam(m) /\ ~DeleteData(m)
    BY DEF PatientInv, Patience, StopTeam, PauseTeam, DeleteTeam, DeleteData
  <1>2. ASSUME NEW r \in Run, RunStep(r) PROVE Patience'
    <2>1. CASE LeaderBuilds(r) \/ LeaderCleans(r)
      BY <2>1, PayloadPatient DEF LeaderBuilds, LeaderCleans, rigid
    <2> QED
      BY <1>2, <2>1, ChoosingPatient, BuildPatient, ResumePatient, StreamPatient, FinalizePatient,
         DrainPatient DEF RunStep
  <1>3. CASE UNCHANGED vars
    BY <1>3, PayloadPatient DEF vars, rigid
  <1> QED
    BY <1>1, <1>2, <1>3, KernelPatient, AdmitPatient, DonePatient DEF Next

\* The inductive invariant of runs that take turns and are left alone.
THEOREM PatientInvariant == Spec => []PatientInv
  <1>1. Init => PatientInv
    <2> SUFFICES ASSUME Init PROVE PatientInv
      OBVIOUS
    <2>1. Entry = {} /\ \A a \in Actor : calls[a].pc = "out"
      BY EmptySeq DEF Init, Entry, NoCall
    <2>2. Patience
      BY <2>1 DEF Patience, SeesPool, RunsForOne, Choosing, Actor
    <2> QED
      BY <2>2, TurnsInit DEF PatientInv
  <1>2. PatientInv /\ [Next]_vars => PatientInv'
    BY TurnsStep, PatientStep, CallersStay DEF PatientInv
  <1> QED
    BY <1>1, <1>2, PTL DEF Spec

\* What a run of the team is for (manager.go, team_runner.go): while it streams, and no
\* other run overlaps it and nobody stops the team, its entry is in the pool with the
\* gate open, so that interact reaches it.
THEOREM StreamAcceptsInput == Spec => []PatientRunAcceptsInput
  <1>1. PatientInv => PatientRunAcceptsInput
    BY DEF PatientInv, Patience, SeesPool, PatientRunAcceptsInput, Reachable
  <1> QED
    BY <1>1, PatientInvariant, PTL

\* The cleanup of a run (team_runner.go) finds the kernel that the run started: when no
\* run is under way, no kernel of any entry runs.
THEOREM NoKernelIsLeft == Spec => []EndedTeamIsDown
  <1>1. PatientInv => EndedTeamIsDown
    BY DEF PatientInv, Patience, RunsForOne, Streams, EndedTeamIsDown, Idle
  <1> QED
    BY <1>1, PatientInvariant, PTL

=============================================================================
