--------------------------- MODULE TurnSlotProofs ---------------------------
(***************************************************************************)
(* Proofs about TurnSlot for every set of texts and every bound.           *)
(***************************************************************************)
EXTENDS TurnSlot, TLAPS

(* The steps that write neither the history nor the inbox's shape share    *)
(* these groups of variables.                                              *)
USE DEF taskVars, goalVars, bounds, history

(* The initial state is well typed: an empty hub. *)
LEMMA InitType == Init => TypeOK
<1> SUFFICES ASSUME Init PROVE TypeOK
  OBVIOUS
<1> USE TurnSlotAssumption DEF Init, None
<1>1. exists \in BOOLEAN /\ armed \in BOOLEAN /\ stranded \in BOOLEAN /\ stopped \in BOOLEAN
  OBVIOUS
<1>2. slot \in Ids \cup {None} /\ cancelled \in SUBSET Ids /\ evicted \in SUBSET Ids /\ sent \in SUBSET Msgs /\ ran \in [Msgs -> Nat]
  OBVIOUS
<1>3. pc \in [Ids -> PCs] /\ src \in [Ids -> Sources] /\ prompt \in [Ids -> Msgs \cup {NoMsg}]
  BY DEF PCs, Sources, Human
<1>4. disp \in DispStates
  BY DEF DispStates, NotBusy
<1>5. {goalLeft, autoLeft, dueLeft} \subseteq Nat /\ nextPos \in Nat /\ inbox \in SUBSET Items(Msgs \cup {NoMsg})
  OBVIOUS
<1>6. QED
  BY <1>1, <1>2, <1>3, <1>4, <1>5 DEF TypeOK

(* The steps of start_turn keep the types. *)
LEMMA StartType ==
    ASSUME TypeOK, NEW t \in Ids, Start(t)
    PROVE  TypeOK'
<1> USE TurnSlotAssumption DEF TypeOK, None, PCs, Sources, Human, DispStates, NotBusy
<1>1. CASE StartRefused(t)
  <2> USE <1>1 DEF StartRefused
  <2>1. stranded' \in BOOLEAN
    BY DEF Release
  <2>2. slot' \in Ids \cup {None} /\ evicted' \in SUBSET Ids
    BY DEF Release
  <2>3. disp' \in DispStates
    BY DEF Return
  <2>4. pc' \in [Ids -> PCs]
    OBVIOUS
  <2>5. QED
    BY <2>1, <2>2, <2>3, <2>4
<1>2. CASE StartLog(t)
  <2> USE <1>2 DEF StartLog
  <2>1. exists' \in BOOLEAN
    OBVIOUS
  <2>2. ran' \in [Msgs -> Nat]
    BY DEF Logged
  <2>3. pc' \in [Ids -> PCs]
    OBVIOUS
  <2>4. QED
    BY <2>1, <2>2, <2>3
<1>3. CASE StartRegister(t)
  <2> USE <1>3 DEF StartRegister
  <2>1. slot' \in Ids \cup {None} /\ cancelled' \in SUBSET Ids
    OBVIOUS
  <2>2. disp' \in DispStates
    BY DEF Return
  <2>3. pc' \in [Ids -> PCs]
    OBVIOUS
  <2>4. stranded' \in BOOLEAN
    OBVIOUS
  <2>5. QED
    BY <2>1, <2>2, <2>3, <2>4
<1>4. QED
  BY <1>1, <1>2, <1>3 DEF Start

(* So do the steps of a turn's loop. *)
LEMMA HopType ==
    ASSUME TypeOK, NEW t \in Ids, Hop(t)
    PROVE  TypeOK'
<1> USE TurnSlotAssumption DEF TypeOK, None, PCs, Sources, Human, DispStates, NotBusy
<1>1. CASE HopCancelled(t)
  <2> USE <1>1 DEF HopCancelled
  <2>1. pc' \in [Ids -> PCs]
    OBVIOUS
  <2>2. QED
    BY <2>1
<1>2. CASE HopTop(t)
  <2> USE <1>2 DEF HopTop
  <2>1. inbox' \in SUBSET Items(Msgs \cup {NoMsg})
    BY DEF DrainMidTurn
  <2>2. ran' \in [Msgs -> Nat]
    BY DEF Logged
  <2>3. pc' \in [Ids -> PCs]
    OBVIOUS
  <2>4. QED
    BY <2>1, <2>2, <2>3, ZenonT(60)
<1>3. CASE HopAgain(t)
  <2> USE <1>3 DEF HopAgain
  <2>1. pc' \in [Ids -> PCs]
    OBVIOUS
  <2>2. QED
    BY <2>1, ZenonT(60)
<1>4. CASE HopLast(t)
  <2> USE <1>4 DEF HopLast
  <2>1. pc' \in [Ids -> PCs]
    OBVIOUS
  <2>2. QED
    BY <2>1, ZenonT(60)
<1>5. CASE HopVanished(t)
  <2> USE <1>5 DEF HopVanished
  <2>1. pc' \in [Ids -> PCs]
    OBVIOUS
  <2>2. QED
    BY <2>1
<1>6. CASE ArmGoal(t)
  <2> USE <1>6 DEF ArmGoal
  <2>1. armed' \in BOOLEAN
    OBVIOUS
  <2>2. QED
    BY <2>1
<1>7. QED
  BY <1>1, <1>2, <1>3, <1>4, <1>5, <1>6 DEF Hop

(* So do the decisions at the end of a turn. *)
LEMMA DecideType ==
    ASSUME TypeOK, NEW t \in Ids, Decide(t)
    PROVE  TypeOK'
<1> USE TurnSlotAssumption DEF TypeOK, None, PCs, Sources, Human, DispStates, NotBusy
<1>1. CASE DecideStale(t)
  <2> USE <1>1 DEF DecideStale
  <2>1. pc' \in [Ids -> PCs]
    OBVIOUS
  <2>2. QED
    BY <2>1, ZenonT(60)
<1>2. CASE DecideFollowup(t)
  <2> USE <1>2 DEF DecideFollowup
  <2>1. inbox' \in SUBSET Items(Msgs \cup {NoMsg})
    BY DEF OldestFollowup, Followups
  <2>2. pc' \in [Ids -> PCs] /\ src' \in [Ids -> Sources]
    BY DEF HandOff
  <2>3. prompt' \in [Ids -> Msgs \cup {NoMsg}]
    BY DEF HandOff, OldestFollowup, Followups, Items
  <2>4. QED
    BY <2>1, <2>2, <2>3, ZenonT(60)
<1>3. CASE DecideStopped(t)
  <2> USE <1>3 DEF DecideStopped
  <2>1. pc' \in [Ids -> PCs] /\ slot' \in Ids \cup {None}
    OBVIOUS
  <2>2. armed' \in BOOLEAN
    OBVIOUS
  <2>3. QED
    BY <2>1, <2>2
<1>4. CASE DecideContinue(t)
  <2> USE <1>4 DEF DecideContinue
  <2>1. pc' \in [Ids -> PCs] /\ src' \in [Ids -> Sources] /\ prompt' \in [Ids -> Msgs \cup {NoMsg}]
    BY DEF HandOff
  <2>2. autoLeft' \in Nat
    OBVIOUS
  <2>3. QED
    BY <2>1, <2>2, ZenonT(60)
<1>5. CASE DecideRound(t)
  <2> USE <1>5 DEF DecideRound
  <2>1. pc' \in [Ids -> PCs] /\ src' \in [Ids -> Sources] /\ prompt' \in [Ids -> Msgs \cup {NoMsg}]
    BY DEF HandOff
  <2>2. goalLeft' \in Nat
    BY DEF StartRound
  <2>3. armed' \in BOOLEAN
    OBVIOUS
  <2>4. QED
    BY <2>1, <2>2, <2>3, ZenonT(60)
<1>6. CASE DecideIdle(t)
  <2> USE <1>6 DEF DecideIdle
  <2>1. pc' \in [Ids -> PCs] /\ slot' \in Ids \cup {None}
    OBVIOUS
  <2>2. QED
    BY <2>1
<1>7. QED
  BY <1>1, <1>2, <1>3, <1>4, <1>5, <1>6 DEF Decide

(* So do the steps of the schedule timer. *)
LEMMA ScheduleType ==
    ASSUME TypeOK, NEW t \in Ids, Schedule(t)
    PROVE  TypeOK'
<1> USE TurnSlotAssumption DEF TypeOK, None, PCs, Sources, Human, DispStates, NotBusy
<1>1. CASE ScheduleSpawn(t)
  <2> USE <1>1 DEF ScheduleSpawn
  <2>1. pc' \in [Ids -> PCs] /\ src' \in [Ids -> Sources] /\ prompt' \in [Ids -> Msgs \cup {NoMsg}]
    BY DEF HandOff
  <2>2. QED
    BY <2>1, ZenonT(60)
<1>2. CASE ScheduleRelease(t)
  <2> USE <1>2 DEF ScheduleRelease
  <2>1. stranded' \in BOOLEAN
    BY DEF Release
  <2>2. slot' \in Ids \cup {None} /\ evicted' \in SUBSET Ids
    BY DEF Release
  <2>3. pc' \in [Ids -> PCs]
    OBVIOUS
  <2>4. QED
    BY <2>1, <2>2, <2>3
<1>3. QED
  BY <1>1, <1>2 DEF Schedule

(* A request that calls start_turn and awaits it. *)
LEMMA DispStartType ==
    ASSUME TypeOK, NEW m \in Msgs, DispStart(m)
    PROVE  TypeOK'
<1> USE DEF TypeOK, None, PCs, Sources, Human, DispStates, NotBusy
<1>1. PICK t \in Ids : Open(t, "human", m)
                         /\ disp' = [NotBusy EXCEPT !.pc = "await", !.id = t]
  BY DEF DispStart
<1>2. pc' \in [Ids -> PCs] /\ src' \in [Ids -> Sources]
  BY <1>1 DEF Open
<1>3. prompt' \in [Ids -> Msgs \cup {NoMsg}]
  BY <1>1 DEF Open
<1>4. disp' \in DispStates
  BY <1>1
<1>5. sent' \in SUBSET Msgs
  BY DEF DispStart
<1>6. stopped' \in BOOLEAN
  BY DEF DispStart
<1>7. UNCHANGED <<exists, slot, cancelled, inbox, nextPos, goalVars, bounds,
                  ran, evicted, stranded>>
  BY DEF DispStart
<1>8. QED
  BY <1>2, <1>3, <1>4, <1>5, <1>6, <1>7

(* So do the requests that carry a text. *)
LEMMA MessageType ==
    ASSUME TypeOK, NEW m \in Msgs,
           SendQueued(m) \/ SendStart(m) \/ EditUserMessage(m) \/ SteerTurn(m)
    PROVE  TypeOK'
<1> USE TurnSlotAssumption DEF TypeOK, None, PCs, Sources, Human, DispStates, NotBusy
<1>1. CASE SendQueued(m)
  <2> USE <1>1 DEF SendQueued
  <2>1. inbox' \in SUBSET Items(Msgs \cup {NoMsg})
    BY DEF Push, Items, Kinds
  <2>2. nextPos' \in Nat /\ sent' \in SUBSET Msgs
    OBVIOUS
  <2>3. stopped' \in BOOLEAN
    OBVIOUS
  <2>4. QED
    BY <2>1, <2>2, <2>3
<1>2. CASE SendStart(m)
  BY <1>2, DispStartType DEF SendStart
<1>3. CASE EditUserMessage(m)
  BY <1>3, DispStartType DEF EditUserMessage
<1>4. CASE SteerTurn(m)
  <2> USE <1>4 DEF SteerTurn
  <2>1. disp' \in DispStates
    OBVIOUS
  <2>2. sent' \in SUBSET Msgs
    OBVIOUS
  <2>3. stopped' \in BOOLEAN
    OBVIOUS
  <2>4. QED
    BY <2>1, <2>2, <2>3
<1>5. QED
  BY <1>1, <1>2, <1>3, <1>4

(* So do the requests about a row of the queue. *)
LEMMA RowType ==
    ASSUME TypeOK, NEW i \in Followups(inbox),
           SteerQueued(i) \/ RemoveQueued(i) \/ \E m \in Msgs : EditQueued(i, m)
    PROVE  TypeOK'
<1> USE TurnSlotAssumption DEF TypeOK, None, PCs, Sources, Human, DispStates, NotBusy
<1>1. CASE SteerQueued(i)
  <2> USE <1>1 DEF SteerQueued
  <2>1. disp' \in DispStates
    BY DEF Followups, Items
  <2>2. QED
    BY <2>1
<1>2. CASE RemoveQueued(i)
  <2> USE <1>2 DEF RemoveQueued
  <2>1. inbox' \in SUBSET Items(Msgs \cup {NoMsg})
    BY DEF Remove
  <2>2. QED
    BY <2>1
<1>3. CASE \E m \in Msgs : EditQueued(i, m)
  <2> PICK m \in Msgs : EditQueued(i, m)
    BY <1>3
  <2> USE DEF EditQueued
  <2>1. inbox' \in SUBSET Items(Msgs \cup {NoMsg})
    BY DEF Edit, Waiting, Followups, Items
  <2>2. sent' \in SUBSET Msgs
    OBVIOUS
  <2>3. QED
    BY <2>1, <2>2, ZenonT(60)
<1>4. QED
  BY <1>1, <1>2, <1>3

(* And so do the remaining requests and the background steps. *)
LEMMA OtherType ==
    ASSUME TypeOK, SteerPush \/ PromoteTake \/ Interrupt \/ GoalContinueBusy
             \/ GoalContinueIdle \/ DeleteSession \/ Inject \/ ScheduleClaim
    PROVE  TypeOK'
<1> USE TurnSlotAssumption DEF TypeOK, None, PCs, Sources, Human, DispStates, NotBusy
<1>1. CASE SteerPush
  <2> USE <1>1 DEF SteerPush
  <2>1. inbox' \in SUBSET Items(Msgs \cup {NoMsg}) /\ nextPos' \in Nat
    BY DEF Push, Items, Kinds
  <2>2. disp' \in DispStates
    OBVIOUS
  <2>3. QED
    BY <2>1, <2>2
<1>2. CASE PromoteTake
  <2> USE <1>2 DEF PromoteTake
  <2>1. inbox' \in SUBSET Items(Msgs \cup {NoMsg})
    BY DEF Remove
  <2>2. disp' \in DispStates
    BY DEF Waiting, Followups, Items
  <2>3. QED
    BY <2>1, <2>2
<1>3. CASE Interrupt
  <2> USE <1>3 DEF Interrupt
  <2>1. cancelled' \in SUBSET Ids
    OBVIOUS
  <2>2. armed' \in BOOLEAN /\ stopped' \in BOOLEAN
    OBVIOUS
  <2>3. inbox' \in SUBSET Items(Msgs \cup {NoMsg})
    BY DEF DrainMidTurn
  <2>4. QED
    BY <2>1, <2>2, <2>3
<1>4. CASE GoalContinueBusy
  <2> USE <1>4 DEF GoalContinueBusy
  <2>1. armed' \in BOOLEAN /\ stopped' \in BOOLEAN
    OBVIOUS
  <2>2. QED
    BY <2>1
<1>5. CASE GoalContinueIdle
  <2> USE <1>5 DEF GoalContinueIdle
  <2>1. pc' \in [Ids -> PCs] /\ src' \in [Ids -> Sources] /\ prompt' \in [Ids -> Msgs \cup {NoMsg}]
    BY DEF Open
  <2>2. goalLeft' \in Nat
    BY DEF StartRound
  <2>3. armed' \in BOOLEAN
    OBVIOUS
  <2>4. stopped' \in BOOLEAN
    OBVIOUS
  <2>5. QED
    BY <2>1, <2>2, <2>3, <2>4, ZenonT(60)
<1>6. CASE DeleteSession
  <2> USE <1>6 DEF DeleteSession
  <2>1. exists' \in BOOLEAN /\ armed' \in BOOLEAN
    OBVIOUS
  <2>2. inbox' \in SUBSET Items(Msgs \cup {NoMsg}) /\ goalLeft' \in Nat
    OBVIOUS
  <2>3. QED
    BY <2>1, <2>2
<1>7. CASE Inject
  <2> USE <1>7 DEF Inject
  <2>1. inbox' \in SUBSET Items(Msgs \cup {NoMsg}) /\ nextPos' \in Nat
    BY DEF Push, Items, Kinds
  <2>2. QED
    BY <2>1, ZenonT(60)
<1>8. CASE ScheduleClaim
  <2> USE <1>8 DEF ScheduleClaim
  <2>1. slot' \in Ids \cup {None} /\ pc' \in [Ids -> PCs]
    BY DEF Fresh
  <2>2. dueLeft' \in Nat
    OBVIOUS
  <2>3. QED
    BY <2>1, <2>2, ZenonT(60)
<1>9. QED
  BY <1>1, <1>2, <1>3, <1>4, <1>5, <1>6, <1>7, <1>8

(* Every step of the hub keeps the types. *)
LEMMA NextType == TypeOK /\ [Next]_vars => TypeOK'
<1> SUFFICES ASSUME TypeOK, [Next]_vars PROVE TypeOK'
  OBVIOUS
<1>1. CASE \E t \in Ids : Start(t) \/ Hop(t) \/ Decide(t) \/ Schedule(t)
  BY <1>1, StartType, HopType, DecideType, ScheduleType
<1>2. CASE Request
  BY <1>2, MessageType, RowType, OtherType DEF Request
<1>3. CASE Inject \/ ScheduleClaim
  BY <1>3, OtherType
<1>4. CASE UNCHANGED vars
  BY <1>4 DEF vars, TypeOK
<1>5. QED
  BY <1>1, <1>2, <1>3, <1>4 DEF Next

(* Every variable of TurnSlot keeps its type in every behaviour: no        *)
(* counter of rounds, continuations or deliveries is taken below zero, and *)
(* the slot, the tokens and the dispatcher only ever name ids.             *)
THEOREM TypeCorrect == Spec => []TypeOK
BY InitType, NextType, PTL DEF Spec

-----------------------------------------------------------------------------
(***************************************************************************)
(* The slot.  LiveTurnOwnsSlot is inductive together with the types: a     *)
(* turn becomes live only by registering, a registration cancels the turn  *)
(* it finds, and every other step that empties the slot is either the      *)
(* owner's last one or recorded in `evicted`.                              *)
(***************************************************************************)
(* No turn is live at the start. *)
LEMMA InitSlot == Init => LiveTurnOwnsSlot
BY DEF Init, LiveTurnOwnsSlot, Live, Running

(* A step that makes no turn live and leaves the slot and the evictions    *)
(* alone keeps the invariant.                                              *)
LEMMA SlotFrame ==
    ASSUME LiveTurnOwnsSlot, slot' = slot, evicted' = evicted,
           \A t \in Ids : Live(t)' => Live(t)
    PROVE  LiveTurnOwnsSlot'
BY DEF LiveTurnOwnsSlot

(* A step that empties the slot through Release and makes no turn live.    *)
LEMMA SlotRelease ==
    ASSUME LiveTurnOwnsSlot, Release, \A t \in Ids : Live(t)' => Live(t)
    PROVE  LiveTurnOwnsSlot'
BY DEF LiveTurnOwnsSlot, Release

(* start_turn cancels the token it finds when it takes the slot over. *)
LEMMA StartSlot ==
    ASSUME TypeOK, LiveTurnOwnsSlot, NEW t \in Ids, Start(t)
    PROVE  LiveTurnOwnsSlot'
<1> USE DEF TypeOK, Live, Running
<1>1. CASE StartRefused(t)
  <2>1. \A u \in Ids : Live(u)' => Live(u)
    BY <1>1 DEF StartRefused
  <2>2. QED
    BY <1>1, <2>1, SlotRelease DEF StartRefused
<1>2. CASE StartLog(t)
  <2>1. \A u \in Ids : Live(u)' => Live(u)
    BY <1>2 DEF StartLog
  <2>2. QED
    BY <1>2, <2>1, SlotFrame DEF StartLog
<1>3. CASE StartRegister(t)
  <2>1. ASSUME NEW u \in Ids, Live(u)', u \notin evicted', u # t
        PROVE  FALSE
    <3>1. Live(u) /\ u # slot
      BY <1>3, <2>1 DEF StartRegister, None, Ids
    <3>2. QED
      BY <1>3, <2>1, <3>1 DEF StartRegister, LiveTurnOwnsSlot
  <2>2. slot' = t
    BY <1>3 DEF StartRegister
  <2>3. QED
    BY <2>1, <2>2 DEF LiveTurnOwnsSlot
<1>4. QED
  BY <1>1, <1>2, <1>3 DEF Start

(* The loop of a turn leaves the slot alone. *)
LEMMA HopSlot ==
    ASSUME TypeOK, LiveTurnOwnsSlot, NEW t \in Ids, Hop(t)
    PROVE  LiveTurnOwnsSlot'
<1>1. slot' = slot /\ evicted' = evicted
  BY DEF Hop, HopCancelled, HopTop, HopAgain, HopLast, HopVanished, ArmGoal
<1>2. \A u \in Ids : Live(u)' => Live(u)
  BY DEF Hop, HopCancelled, HopTop, HopAgain, HopLast, HopVanished, ArmGoal,
         TypeOK, Live, Running
<1>3. QED
  BY <1>1, <1>2, SlotFrame

(* A turn gives the slot away only with its own last step. *)
LEMMA DecideSlot ==
    ASSUME TypeOK, LiveTurnOwnsSlot, NEW t \in Ids, Decide(t)
    PROVE  LiveTurnOwnsSlot'
<1> USE DEF TypeOK, Live, Running
<1>1. \A u \in Ids : Live(u)' => Live(u) /\ u # t
  BY DEF Decide, DecideStale, DecideFollowup, DecideStopped, DecideContinue,
         DecideRound, DecideIdle, HandOff
<1>2. evicted' = evicted
  BY DEF Decide, DecideStale, DecideFollowup, DecideStopped, DecideContinue,
         DecideRound, DecideIdle
<1>3. slot' = slot \/ slot = t
  BY DEF Decide, DecideStale, DecideFollowup, DecideStopped, DecideContinue,
         DecideRound, DecideIdle, Deciding
<1>4. QED
  BY <1>1, <1>2, <1>3 DEF LiveTurnOwnsSlot

(* The timer gives away only the slot it claimed. *)
LEMMA ScheduleSlot ==
    ASSUME TypeOK, LiveTurnOwnsSlot, NEW t \in Ids, Schedule(t)
    PROVE  LiveTurnOwnsSlot'
<1>1. \A u \in Ids : Live(u)' => Live(u)
  BY DEF Schedule, ScheduleSpawn, ScheduleRelease, HandOff, TypeOK, Live,
         Running
<1>2. CASE ScheduleSpawn(t)
  BY <1>1, <1>2, SlotFrame DEF ScheduleSpawn
<1>3. CASE ScheduleRelease(t)
  BY <1>1, <1>3, SlotRelease DEF ScheduleRelease
<1>4. QED
  BY <1>2, <1>3 DEF Schedule

(* No request touches the slot: it only opens calls or cancels a token. *)
LEMMA RequestSlot ==
    ASSUME TypeOK, LiveTurnOwnsSlot, Request \/ Inject
    PROVE  LiveTurnOwnsSlot'
<1>1. slot' = slot /\ evicted' = evicted
  BY ZenonT(60) DEF Request, SendQueued, SendStart, EditUserMessage, DispStart, SteerTurn,
         SteerQueued, RemoveQueued, EditQueued, SteerPush, PromoteTake,
         Interrupt, GoalContinueBusy, GoalContinueIdle, DeleteSession, Inject
<1>2. /\ \/ pc' = pc
         \/ \E t \in Ids : pc' = [pc EXCEPT ![t] = "opening"]
      /\ cancelled \subseteq cancelled'
  BY ZenonT(60) DEF Request, SendQueued, SendStart, EditUserMessage, DispStart, SteerTurn,
         SteerQueued, RemoveQueued, EditQueued, SteerPush, PromoteTake,
         Interrupt, GoalContinueBusy, GoalContinueIdle, DeleteSession, Inject,
         Open
<1>3. \A u \in Ids : Live(u)' => Live(u)
  BY <1>2 DEF TypeOK, Live, Running
<1>4. QED
  BY <1>1, <1>3, SlotFrame

(* Every step keeps the slot with the live turn. *)
LEMMA NextSlot ==
    TypeOK /\ LiveTurnOwnsSlot /\ [Next]_vars => LiveTurnOwnsSlot'
<1> SUFFICES ASSUME TypeOK, LiveTurnOwnsSlot, [Next]_vars
             PROVE  LiveTurnOwnsSlot'
  OBVIOUS
<1>1. CASE \E t \in Ids : Start(t) \/ Hop(t) \/ Decide(t) \/ Schedule(t)
  BY <1>1, StartSlot, HopSlot, DecideSlot, ScheduleSlot
<1>2. CASE Request \/ Inject
  BY <1>2, RequestSlot
<1>3. CASE ScheduleClaim
  BY <1>3 DEF ScheduleClaim, LiveTurnOwnsSlot, TypeOK, Live, Running, None, Ids
<1>4. CASE UNCHANGED vars
  BY <1>4 DEF vars, LiveTurnOwnsSlot, Live, Running
<1>5. QED
  BY <1>1, <1>2, <1>3, <1>4 DEF Next

(* Whatever the interleaving of requests, handoffs, claims and turn tasks, *)
(* a turn that may still act is the one active_turns names, unless another *)
(* actor's refused start took its slot away.                               *)
THEOREM SlotOwnership == Spec => []LiveTurnOwnsSlot
<1>1. Init => TypeOK /\ LiveTurnOwnsSlot
  BY InitType, InitSlot
<1>2. TypeOK /\ LiveTurnOwnsSlot /\ [Next]_vars => (TypeOK /\ LiveTurnOwnsSlot)'
  BY NextType, NextSlot
<1>3. QED
  BY <1>1, <1>2, PTL DEF Spec

-----------------------------------------------------------------------------
(***************************************************************************)
(* Queued messages.  FollowupHasTurn is inductive by itself: a followup is *)
(* pushed under the lock that also guards the slot's release, and the      *)
(* owner releases the slot only when it saw no followup under that lock.   *)
(***************************************************************************)

(* A step that adds no followup and keeps the slot keeps the property. *)
LEMMA FollowupFrame ==
    ASSUME FollowupHasTurn, stranded' = stranded,
           slot # None => slot' # None,
           Followups(inbox) = {} => Followups(inbox)' = {}
    PROVE  FollowupHasTurn'
BY DEF FollowupHasTurn

(* A task empties the slot over no waiting followup, or records it. *)
LEMMA TaskFollowup ==
    ASSUME TypeOK, FollowupHasTurn, NEW t \in Ids,
           Start(t) \/ Hop(t) \/ Decide(t) \/ Schedule(t)
    PROVE  FollowupHasTurn'
<1> USE DEF FollowupHasTurn, Followups
<1>1. CASE StartRefused(t)
  BY <1>1 DEF StartRefused, Release
<1>2. CASE StartLog(t)
  BY <1>2 DEF StartLog
<1>3. CASE StartRegister(t)
  BY <1>3 DEF StartRegister, None, Ids
<1>4. CASE Hop(t)
  BY <1>4 DEF Hop, HopCancelled, HopTop, HopAgain, HopLast, HopVanished,
              ArmGoal, DrainMidTurn
<1>5. CASE Decide(t)
  BY <1>5 DEF Decide, DecideStale, DecideFollowup, DecideStopped,
              DecideContinue, DecideRound, DecideIdle
<1>6. CASE Schedule(t)
  BY <1>6 DEF Schedule, ScheduleSpawn, ScheduleRelease, Release
<1>7. QED
  BY <1>1, <1>2, <1>3, <1>4, <1>5, <1>6 DEF Start

(* A request queues a followup only behind a taken slot. *)
LEMMA RequestFollowup ==
    ASSUME TypeOK, FollowupHasTurn, Request \/ Inject \/ ScheduleClaim
    PROVE  FollowupHasTurn'
<1>1. CASE \E m \in Msgs : SendQueued(m)
  BY <1>1 DEF SendQueued, FollowupHasTurn
<1>2. CASE \E m \in Msgs : SendStart(m) \/ EditUserMessage(m) \/ SteerTurn(m)
  BY <1>2, FollowupFrame DEF SendStart, EditUserMessage, DispStart, SteerTurn,
                             Followups
<1>3. CASE \E i \in Followups(inbox) :
              SteerQueued(i) \/ RemoveQueued(i) \/ \E m \in Msgs : EditQueued(i, m)
  <2>1. slot' = slot /\ stranded' = stranded
    BY <1>3 DEF SteerQueued, RemoveQueued, EditQueued
  <2>2. QED
    BY <1>3, <2>1 DEF FollowupHasTurn
<1>4. CASE SteerPush \/ PromoteTake \/ Interrupt \/ GoalContinueBusy
             \/ GoalContinueIdle \/ DeleteSession \/ Inject
  <2>1. slot' = slot /\ stranded' = stranded
    BY <1>4 DEF SteerPush, PromoteTake, Interrupt, GoalContinueBusy,
                GoalContinueIdle, DeleteSession, Inject
  <2>2. Followups(inbox) = {} => Followups(inbox)' = {}
    BY <1>4 DEF SteerPush, PromoteTake, Interrupt, GoalContinueBusy,
                GoalContinueIdle, DeleteSession, Inject, Push, Remove,
                DrainMidTurn, Followups
  <2>3. QED
    BY <2>1, <2>2, FollowupFrame
<1>5. CASE ScheduleClaim
  BY <1>5 DEF ScheduleClaim, FollowupHasTurn, None, Ids
<1>6. QED
  BY <1>1, <1>2, <1>3, <1>4, <1>5 DEF Request

(* A message queued behind a turn never waits in an idle session, unless a *)
(* refused start gave the slot away over it.                               *)
THEOREM FollowupNotStranded == Spec => []FollowupHasTurn
<1>1. Init => FollowupHasTurn
  BY DEF Init, FollowupHasTurn, Followups
<1>2. TypeOK /\ FollowupHasTurn /\ [Next]_vars => FollowupHasTurn'
  <2> SUFFICES ASSUME TypeOK, FollowupHasTurn, [Next]_vars
               PROVE  FollowupHasTurn'
    OBVIOUS
  <2>1. CASE Next
    BY <2>1, TaskFollowup, RequestFollowup DEF Next
  <2>2. CASE UNCHANGED vars
    BY <2>2 DEF vars, FollowupHasTurn, Followups
  <2>3. QED
    BY <2>1, <2>2
<1>3. QED
  BY <1>1, <1>2, TypeCorrect, PTL DEF Spec

-----------------------------------------------------------------------------
(* Where a text can be: one row of the queue, the dispatcher's hands, one  *)
(* call of start_turn before its log block, or the log; a text nobody sent *)
(* is nowhere.                                                             *)
TextFits(m) ==
    /\ \A i, j \in inbox : i.msg = m /\ j.msg = m => i = j
    /\ \A t, u \in Ids : prompt[t] = m /\ prompt[u] = m => t = u
    /\ \A i \in inbox : i.msg = m => disp.msg # m /\ ran[m] = 0 /\ \A t \in Ids : prompt[t] # m
    /\ disp.msg = m => ran[m] = 0 /\ \A t \in Ids : prompt[t] # m
    /\ \A t \in Ids : pc[t] = "opening" /\ prompt[t] = m => ran[m] = 0
    /\ m \notin sent => /\ \A i \in inbox : i.msg # m
                        /\ \A t \in Ids : prompt[t] # m
                        /\ disp.msg # m
    /\ m \notin sent => ran[m] = 0
    /\ ran[m] <= 1

(* Positions are minted once, so that a position names one row. *)
RowsApart ==
    /\ \A i \in inbox : i.pos < nextPos
    /\ \A i, j \in inbox : i.pos = j.pos => i = j

TextInv == RowsApart /\ \A m \in Msgs : TextFits(m)

(* What one step may make of one text, in the words of Delivery. *)
LifeMoves(m) ==
    /\ life'[m] \in {"unsent", "waiting", "ran", "dropped"}
    /\ life'[m] = life[m] \/ <<life[m], life'[m]>> \in Life!MayBecome

TextMoves == RowsApart' /\ \A m \in Msgs : TextFits(m)' /\ LifeMoves(m)

(* The life of a text, from its places. *)
LEMMA LifeIs ==
    ASSUME TypeOK, NEW m \in Msgs, TextFits(m)
    PROVE  /\ ran[m] = 1 => life[m] = "ran"
           /\ ran[m] = 0 /\ Held(m) => life[m] = "waiting"
           /\ ran[m] = 0 /\ ~Held(m) /\ m \in sent => life[m] = "dropped"
           /\ ran[m] = 0 /\ ~Held(m) /\ m \notin sent => life[m] = "unsent"
           /\ ran[m] \in {0, 1}
<1>1. life[m] = IF ran[m] > 0 THEN (IF ran[m] = 1 THEN "ran" ELSE "ran again")
                ELSE IF Held(m) THEN "waiting" ELSE IF m \in sent THEN "dropped" ELSE "unsent"
  BY DEF life
<1>2. ran[m] \in {0, 1}
  BY DEF TypeOK, TextFits
<1>3. CASE ran[m] = 0
  BY <1>1, <1>3
<1>4. CASE ran[m] = 1
  BY <1>1, <1>4
<1>5. QED
  BY <1>2, <1>3, <1>4

(* ... and the life it has after a step. *)
LEMMA LifeBecomes ==
    ASSUME TypeOK', NEW m \in Msgs, TextFits(m)'
    PROVE  /\ ran'[m] = 1 => life'[m] = "ran"
           /\ ran'[m] = 0 /\ Held(m)' => life'[m] = "waiting"
           /\ ran'[m] = 0 /\ ~Held(m)' /\ m \in sent' => life'[m] = "dropped"
           /\ ran'[m] = 0 /\ ~Held(m)' /\ m \notin sent' => life'[m] = "unsent"
           /\ ran'[m] \in {0, 1}
<1>1. life'[m] = IF ran'[m] > 0 THEN (IF ran'[m] = 1 THEN "ran" ELSE "ran again")
                 ELSE IF Held(m)' THEN "waiting" ELSE IF m \in sent' THEN "dropped" ELSE "unsent"
  BY DEF life
<1>2. ran'[m] \in {0, 1}
  BY DEF TypeOK, TextFits
<1>3. CASE ran'[m] = 0
  BY <1>1, <1>3
<1>4. CASE ran'[m] = 1
  BY <1>1, <1>4
<1>5. QED
  BY <1>2, <1>3, <1>4

(* A text that leaves a place or stays where it is. *)
LEMMA TextStays ==
    ASSUME TypeOK, TypeOK', NEW m \in Msgs, TextFits(m), TextFits(m)', ran'[m] = ran[m],
           m \in sent' <=> m \in sent, Held(m)' => Held(m)
    PROVE  LifeMoves(m)
<1>1. Held(m) => m \in sent
  BY DEF Held, TextFits
<1>2. QED
  BY <1>1, LifeIs, LifeBecomes DEF LifeMoves, Life!MayBecome

(* A text that was nowhere comes into the hub's hands. *)
LEMMA TextArrives ==
    ASSUME TypeOK, TypeOK', NEW m \in Msgs, TextFits(m), TextFits(m)', ran'[m] = ran[m], m \notin sent, Held(m)'
    PROVE  LifeMoves(m)
<1>1. ~Held(m) /\ ran[m] = 0
  BY DEF Held, TextFits
<1>2. QED
  BY <1>1, LifeIs, LifeBecomes DEF LifeMoves, Life!MayBecome

(* A text in the hub's hands joins the log. *)
LEMMA TextRuns ==
    ASSUME TypeOK, TypeOK', NEW m \in Msgs, TextFits(m), TextFits(m)', Held(m), ran'[m] = ran[m] + 1
    PROVE  LifeMoves(m)
<1>1. ran[m] = 0
  BY DEF Held, TextFits
<1>2. life[m] = "waiting" /\ ran'[m] = 1
  BY <1>1, LifeIs
<1>3. QED
  BY <1>2, LifeBecomes DEF LifeMoves, Life!MayBecome

(* The steps that hand no text on: rows may leave the queue, the           *)
(* dispatcher may come free and a call without a text may open.            *)
LEMMA TextFrame ==
    ASSUME TypeOK, TypeOK', TextInv, inbox' \subseteq inbox, nextPos' = nextPos, ran' = ran, sent' = sent,
           disp'.msg \in {disp.msg, NoMsg},
           \A t \in Ids : prompt'[t] \in {prompt[t], NoMsg} /\ (pc'[t] = "opening" => pc[t] = "opening" \/ prompt'[t] = NoMsg)
    PROVE  TextMoves
<1>1. RowsApart'
  BY DEF TextInv, RowsApart
<1>2. ASSUME NEW m \in Msgs PROVE TextFits(m)' /\ LifeMoves(m)
  <2>1. TextFits(m) /\ m # NoMsg
    BY TurnSlotAssumption DEF TextInv
  <2>2. TextFits(m)'
    BY <2>1 DEF TextFits
  <2>3. Held(m)' => Held(m)
    BY <2>1 DEF Held
  <2>4. QED
    BY <2>1, <2>2, <2>3, TextStays
<1>3. QED
  BY <1>1, <1>2 DEF TextMoves

(* start_turn: the refused and the registering call let the text go where  *)
(* it was; the log block moves it into the log.                            *)
LEMMA StartText ==
    ASSUME TypeOK, TypeOK', TextInv, NEW t \in Ids, Start(t)
    PROVE  TextMoves
<1>1. CASE StartRefused(t) \/ StartRegister(t)
  <2>1. inbox' = inbox /\ nextPos' = nextPos /\ ran' = ran /\ sent' = sent /\ prompt' = prompt
    BY <1>1 DEF StartRefused, StartRegister
  <2>2. disp'.msg \in {disp.msg, NoMsg}
    BY <1>1 DEF StartRefused, StartRegister, Return, NotBusy
  <2>3. \A u \in Ids : pc'[u] = "opening" => pc[u] = "opening"
    BY <1>1 DEF StartRefused, StartRegister, TypeOK
  <2>4. QED
    BY <2>1, <2>2, <2>3, TextFrame
<1>2. CASE StartLog(t)
  <2>1. /\ inbox' = inbox /\ nextPos' = nextPos /\ sent' = sent /\ prompt' = prompt /\ disp' = disp
        /\ pc' = [pc EXCEPT ![t] = "logged"] /\ pc[t] = "opening" /\ ran' = Logged({prompt[t]})
    BY <1>2 DEF StartLog
  <2>2. RowsApart'
    BY <2>1 DEF TextInv, RowsApart
  <2>3. ASSUME NEW m \in Msgs PROVE TextFits(m)' /\ LifeMoves(m)
    <3>1. TextFits(m)
      BY DEF TextInv
    <3>2. CASE m = prompt[t]
      <4>1. ran'[m] = ran[m] + 1 /\ ran[m] = 0 /\ Held(m) /\ m \in sent
        BY <2>1, <3>1, <3>2 DEF Logged, Held, TextFits
      <4>2. /\ \A u \in Ids : pc'[u] = "opening" => prompt[u] # m
            /\ \A i \in inbox : i.msg # m
            /\ disp.msg # m
        BY <2>1, <3>1, <3>2 DEF TextFits, TypeOK
      <4>3. TextFits(m)'
        BY <2>1, <3>1, <4>1, <4>2 DEF TextFits
      <4>4. QED
        BY <3>1, <4>1, <4>3, TextRuns
    <3>3. CASE m # prompt[t]
      <4>1. ran'[m] = ran[m] /\ \A u \in Ids : pc'[u] = "opening" => pc[u] = "opening"
        BY <2>1, <3>3 DEF Logged, TypeOK
      <4>2. TextFits(m)'
        BY <2>1, <3>1, <4>1 DEF TextFits
      <4>3. Held(m)' => Held(m)
        BY <2>1, <4>1 DEF Held
      <4>4. QED
        BY <2>1, <3>1, <4>1, <4>2, <4>3, TextStays
    <3>4. QED
      BY <3>2, <3>3
  <2>4. QED
    BY <2>2, <2>3 DEF TextMoves
<1>3. QED
  BY <1>1, <1>2 DEF Start

(* A hop drains the steers into the log, or out of the hub when the        *)
(* session is gone.                                                        *)
LEMMA HopText ==
    ASSUME TypeOK, TypeOK', TextInv, NEW t \in Ids, Hop(t)
    PROVE  TextMoves
<1>1. CASE HopTop(t)
  <2>1. /\ inbox' = DrainMidTurn(inbox) /\ nextPos' = nextPos /\ sent' = sent /\ prompt' = prompt /\ disp' = disp
        /\ \A u \in Ids : pc'[u] = "opening" => pc[u] = "opening"
        /\ ran' = IF exists THEN Logged({i.msg : i \in MidTurn(inbox)}) ELSE ran
    BY <1>1 DEF HopTop, TypeOK
  <2>2. RowsApart' /\ inbox' \subseteq inbox
    BY <2>1 DEF TextInv, RowsApart, DrainMidTurn
  <2>3. ASSUME NEW m \in Msgs PROVE TextFits(m)' /\ LifeMoves(m)
    <3>1. TextFits(m)
      BY DEF TextInv
    <3>2. CASE exists /\ \E i \in MidTurn(inbox) : i.msg = m
      <4>1. ran'[m] = ran[m] + 1
        BY <2>1, <3>2 DEF Logged
      <4>2. PICK i \in inbox : i.msg = m /\ i.kind # "followup"
        BY <3>2 DEF MidTurn
      <4>3. ran[m] = 0 /\ Held(m) /\ m \in sent /\ disp.msg # m /\ \A u \in Ids : prompt[u] # m
        BY <3>1, <4>2 DEF Held, TextFits
      <4>4. \A j \in inbox' : j.msg # m
        BY <2>1, <3>1, <4>2 DEF TextFits, DrainMidTurn
      <4>5. TextFits(m)'
        BY <2>1, <4>1, <4>3, <4>4 DEF TextFits
      <4>6. QED
        BY <3>1, <4>1, <4>3, <4>5, TextRuns
    <3>3. CASE ~(exists /\ \E i \in MidTurn(inbox) : i.msg = m)
      <4>1. ran'[m] = ran[m]
        BY <2>1, <3>3 DEF Logged
      <4>2. TextFits(m)'
        BY <2>1, <2>2, <3>1, <4>1 DEF TextFits
      <4>3. Held(m)' => Held(m)
        BY <2>1, <2>2 DEF Held
      <4>4. QED
        BY <2>1, <3>1, <4>1, <4>2, <4>3, TextStays
    <3>4. QED
      BY <3>2, <3>3
  <2>4. QED
    BY <2>2, <2>3 DEF TextMoves
<1>2. CASE HopCancelled(t) \/ HopAgain(t) \/ HopLast(t) \/ HopVanished(t) \/ ArmGoal(t)
  <2>1. inbox' = inbox /\ nextPos' = nextPos /\ ran' = ran /\ sent' = sent /\ prompt' = prompt /\ disp' = disp
    BY <1>2 DEF HopCancelled, HopAgain, HopLast, HopVanished, ArmGoal
  <2>2. \A u \in Ids : pc'[u] = "opening" => pc[u] = "opening"
    BY <1>2 DEF HopCancelled, HopAgain, HopLast, HopVanished, ArmGoal, TypeOK
  <2>3. QED
    BY <2>1, <2>2, TextFrame
<1>3. QED
  BY <1>1, <1>2 DEF Hop

(* The end of a turn takes the oldest followup from the queue and hands    *)
(* its text to a call of start_turn; the other decisions hand on none.     *)
LEMMA DecideText ==
    ASSUME TypeOK, TypeOK', TextInv, NEW t \in Ids, Decide(t) \/ Schedule(t)
    PROVE  TextMoves
<1>1. CASE DecideFollowup(t)
  <2>1. PICK i \in OldestFollowup(inbox), n \in Ids :
          /\ inbox' = inbox \ {i}
          /\ HandOff(t, n, "followup", i.msg)
    BY <1>1 DEF DecideFollowup
  <2>2. /\ nextPos' = nextPos /\ sent' = sent /\ disp' = disp /\ ran' = ran
        /\ prompt' = [prompt EXCEPT ![n] = i.msg]
        /\ \A u \in Ids : pc'[u] = "opening" => u = n \/ pc[u] = "opening"
    BY <1>1, <2>1 DEF DecideFollowup, HandOff, TypeOK
  <2>3. i \in inbox /\ prompt'[n] = i.msg /\ \A u \in Ids \ {n} : prompt'[u] = prompt[u]
    BY <2>1, <2>2 DEF OldestFollowup, Followups, TypeOK
  <2>4. RowsApart'
    BY <2>1, <2>2 DEF TextInv, RowsApart
  <2>5. ASSUME NEW m \in Msgs PROVE TextFits(m)' /\ LifeMoves(m)
    <3>1. TextFits(m)
      BY DEF TextInv
    <3>2. CASE m = i.msg
      <4>1. /\ ran[m] = 0 /\ Held(m) /\ m \in sent /\ disp.msg # m /\ \A u \in Ids : prompt[u] # m
            /\ \A j \in inbox' : j.msg # m
        BY <2>1, <2>3, <3>1, <3>2 DEF Held, TextFits
      <4>2. TextFits(m)'
        BY <2>2, <2>3, <4>1 DEF TextFits
      <4>3. QED
        BY <2>2, <3>1, <4>1, <4>2, TextStays
    <3>3. CASE m # i.msg
      <4>1. TextFits(m)'
        BY <2>1, <2>2, <2>3, <3>1, <3>3 DEF TextFits
      <4>2. Held(m)' => Held(m)
        BY <2>1, <2>2, <2>3, <3>3 DEF Held
      <4>3. QED
        BY <2>2, <3>1, <4>1, <4>2, TextStays
    <3>4. QED
      BY <3>2, <3>3
  <2>6. QED
    BY <2>4, <2>5 DEF TextMoves
<1>2. CASE DecideContinue(t) \/ DecideRound(t) \/ ScheduleSpawn(t)
  <2>1. inbox' = inbox /\ nextPos' = nextPos /\ ran' = ran /\ sent' = sent /\ disp' = disp
    BY <1>2 DEF DecideContinue, DecideRound, ScheduleSpawn
  <2>2. PICK n \in Ids : prompt' = [prompt EXCEPT ![n] = NoMsg] /\ pc' = [pc EXCEPT ![t] = "over", ![n] = "opening"]
    BY <1>2 DEF DecideContinue, DecideRound, ScheduleSpawn, HandOff
  <2>3. \A u \in Ids : /\ prompt'[u] \in {prompt[u], NoMsg}
                       /\ pc'[u] = "opening" => pc[u] = "opening" \/ prompt'[u] = NoMsg
    BY <2>2 DEF TypeOK
  <2>4. QED
    BY <2>1, <2>3, TextFrame
<1>3. CASE DecideStale(t) \/ DecideStopped(t) \/ DecideIdle(t) \/ ScheduleRelease(t)
  <2>1. inbox' = inbox /\ nextPos' = nextPos /\ ran' = ran /\ sent' = sent /\ prompt' = prompt /\ disp' = disp
    BY <1>3 DEF DecideStale, DecideStopped, DecideIdle, ScheduleRelease
  <2>2. \A u \in Ids : pc'[u] = "opening" => pc[u] = "opening"
    BY <1>3 DEF DecideStale, DecideStopped, DecideIdle, ScheduleRelease, TypeOK
  <2>3. QED
    BY <2>1, <2>2, TextFrame
<1>4. QED
  BY <1>1, <1>2, <1>3 DEF Decide, Schedule

(* A new text goes into the queue, into the dispatcher's hands or into a   *)
(* call of start_turn: into one of them.                                   *)
LEMMA MessageText ==
    ASSUME TypeOK, TypeOK', TextInv, NEW new \in Msgs,
           SendQueued(new) \/ SendStart(new) \/ EditUserMessage(new) \/ SteerTurn(new)
    PROVE  TextMoves
<1>1. new \notin sent /\ sent' = sent \cup {new} /\ ran' = ran /\ new # NoMsg
  BY TurnSlotAssumption DEF SendQueued, SendStart, EditUserMessage, SteerTurn, DispStart
<1>2. TextFits(new) /\ ran[new] = 0 /\ disp.msg # new /\ (\A i \in inbox : i.msg # new) /\ \A t \in Ids : prompt[t] # new
  BY <1>1 DEF TextInv, TextFits
<1>3. CASE SendQueued(new)
  <2> DEFINE row == [pos |-> nextPos, kind |-> "followup", msg |-> new]
  <2>1. inbox' = inbox \cup {row} /\ nextPos' = nextPos + 1 /\ pc' = pc /\ prompt' = prompt /\ disp' = disp
    BY <1>3 DEF SendQueued, Push
  <2>2. row.msg = new /\ row.pos = nextPos /\ nextPos \in Nat /\ \A i \in inbox : i.pos \in Nat
    BY DEF TypeOK, Items
  <2> HIDE DEF row
  <2>3. RowsApart'
    BY <2>1, <2>2 DEF TextInv, RowsApart
  <2>4. ASSUME NEW m \in Msgs PROVE TextFits(m)' /\ LifeMoves(m)
    <3>1. TextFits(m)
      BY DEF TextInv
    <3>2. CASE m = new
      <4>1. TextFits(m)'
        BY <1>1, <1>2, <2>1, <2>2, <3>2 DEF TextFits
      <4>2. Held(m)'
        BY <2>1, <2>2, <3>2 DEF Held
      <4>3. QED
        BY <1>1, <3>1, <3>2, <4>1, <4>2, TextArrives
    <3>3. CASE m # new
      <4>1. TextFits(m)'
        BY <1>1, <2>1, <2>2, <3>1, <3>3 DEF TextFits
      <4>2. Held(m)' => Held(m)
        BY <2>1, <2>2, <3>3 DEF Held
      <4>3. QED
        BY <1>1, <3>1, <3>3, <4>1, <4>2, TextStays
    <3>4. QED
      BY <3>2, <3>3
  <2>5. QED
    BY <2>3, <2>4 DEF TextMoves
<1>4. CASE SendStart(new) \/ EditUserMessage(new)
  <2>1. PICK t \in Ids : Open(t, "human", new) /\ disp' = [NotBusy EXCEPT !.pc = "await", !.id = t]
    BY <1>4 DEF SendStart, EditUserMessage, DispStart
  <2>2. /\ inbox' = inbox /\ nextPos' = nextPos /\ disp'.msg = NoMsg
        /\ pc'[t] = "opening" /\ prompt'[t] = new
        /\ \A u \in Ids \ {t} : prompt'[u] = prompt[u] /\ pc'[u] = pc[u]
    BY <1>4, <2>1, ZenonT(60) DEF SendStart, EditUserMessage, DispStart, Open, NotBusy, TypeOK
  <2>3. RowsApart'
    BY <2>2 DEF TextInv, RowsApart
  <2>4. ASSUME NEW m \in Msgs PROVE TextFits(m)' /\ LifeMoves(m)
    <3>1. TextFits(m) /\ m # NoMsg
      BY TurnSlotAssumption DEF TextInv
    <3>2. CASE m = new
      <4>1. TextFits(m)'
        BY <1>1, <1>2, <2>2, <3>1, <3>2 DEF TextFits
      <4>2. Held(m)'
        BY <2>2, <3>2 DEF Held
      <4>3. QED
        BY <1>1, <3>1, <3>2, <4>1, <4>2, TextArrives
    <3>3. CASE m # new
      <4>1. TextFits(m)'
        BY <1>1, <2>2, <3>1, <3>3 DEF TextFits
      <4>2. Held(m)' => Held(m)
        BY <2>2, <3>1, <3>3 DEF Held
      <4>3. QED
        BY <1>1, <3>1, <3>3, <4>1, <4>2, TextStays
    <3>4. QED
      BY <3>2, <3>3
  <2>5. QED
    BY <2>3, <2>4 DEF TextMoves
<1>5. CASE SteerTurn(new)
  <2>1. inbox' = inbox /\ nextPos' = nextPos /\ pc' = pc /\ prompt' = prompt /\ disp'.msg = new
    BY <1>5 DEF SteerTurn, NotBusy
  <2>2. RowsApart'
    BY <2>1 DEF TextInv, RowsApart
  <2>3. ASSUME NEW m \in Msgs PROVE TextFits(m)' /\ LifeMoves(m)
    <3>1. TextFits(m)
      BY DEF TextInv
    <3>2. CASE m = new
      <4>1. TextFits(m)'
        BY <1>1, <1>2, <2>1, <3>2 DEF TextFits
      <4>2. Held(m)'
        BY <2>1, <3>2 DEF Held
      <4>3. QED
        BY <1>1, <3>1, <3>2, <4>1, <4>2, TextArrives
    <3>3. CASE m # new
      <4>1. TextFits(m)'
        BY <1>1, <2>1, <3>1, <3>3 DEF TextFits
      <4>2. Held(m)' => Held(m)
        BY <2>1, <3>3 DEF Held
      <4>3. QED
        BY <1>1, <3>1, <3>3, <4>1, <4>2, TextStays
    <3>4. QED
      BY <3>2, <3>3
  <2>4. QED
    BY <2>2, <2>3 DEF TextMoves
<1>6. QED
  BY <1>3, <1>4, <1>5

(* Editing a row drops its old text for the new one; promoting it takes it *)
(* out of the queue before it is pushed again as a steer.                  *)
LEMMA EditText ==
    ASSUME TypeOK, TypeOK', TextInv, NEW i \in Followups(inbox), NEW new \in Msgs, EditQueued(i, new)
    PROVE  TextMoves
<1> DEFINE row == [i EXCEPT !.msg = new]
<1>1. /\ new \notin sent /\ sent' = sent \cup {new} /\ ran' = ran /\ nextPos' = nextPos
      /\ pc' = pc /\ prompt' = prompt /\ disp' = disp /\ inbox' = Edit(inbox, i.pos, new)
  BY DEF EditQueued
<1>2. i \in inbox /\ i \in Items(Msgs \cup {NoMsg}) /\ RowsApart
  BY DEF Followups, TypeOK, TextInv
<1>3. Waiting(inbox, i.pos) = {i}
  BY <1>2 DEF Waiting, Followups, RowsApart
<1>4. inbox' = (inbox \ {i}) \cup {row}
  BY <1>1, <1>3 DEF Edit
<1>5. row.msg = new /\ row.pos = i.pos
  BY <1>2 DEF Items
<1> HIDE DEF row
<1>6. RowsApart'
  BY <1>1, <1>2, <1>4, <1>5 DEF RowsApart
<1>7. ASSUME NEW m \in Msgs PROVE TextFits(m)' /\ LifeMoves(m)
  <2>1. TextFits(m)
    BY DEF TextInv
  <2>2. CASE m = new
    <3>1. TextFits(m)'
      BY <1>1, <1>4, <1>5, <2>1, <2>2 DEF TextFits
    <3>2. Held(m)'
      BY <1>4, <1>5, <2>2 DEF Held
    <3>3. QED
      BY <1>1, <2>1, <2>2, <3>1, <3>2, TextArrives
  <2>3. CASE m # new
    <3>1. TextFits(m)'
      BY <1>1, <1>4, <1>5, <2>1, <2>3 DEF TextFits
    <3>2. Held(m)' => Held(m)
      BY <1>1, <1>4, <1>5, <2>3 DEF Held
    <3>3. QED
      BY <1>1, <2>1, <2>3, <3>1, <3>2, TextStays
  <2>4. QED
    BY <2>2, <2>3
<1>8. QED
  BY <1>6, <1>7 DEF TextMoves

LEMMA PromoteText ==
    ASSUME TypeOK, TypeOK', TextInv, PromoteTake
    PROVE  TextMoves
<1> DEFINE rows == Waiting(inbox, disp.pos)
<1>1. /\ ran' = ran /\ sent' = sent /\ nextPos' = nextPos /\ pc' = pc /\ prompt' = prompt /\ inbox' = inbox \ rows
      /\ disp' = IF rows = {} THEN NotBusy ELSE [NotBusy EXCEPT !.pc = "steer", !.msg = (CHOOSE i \in rows : TRUE).msg]
  BY DEF PromoteTake, Remove
<1>2. CASE rows = {}
  <2>1. disp'.msg = NoMsg /\ inbox' \subseteq inbox
    BY <1>1, <1>2 DEF NotBusy
  <2>2. QED
    BY <1>1, <2>1, TextFrame
<1>3. CASE rows # {}
  <2>1. PICK i \in rows : i = CHOOSE j \in rows : TRUE
    BY <1>3
  <2>2. disp'.msg = i.msg /\ i \in inbox /\ i \notin inbox' /\ inbox' \subseteq inbox
    BY <1>1, <1>3, <2>1 DEF NotBusy, Waiting, Followups
  <2>3. RowsApart'
    BY <1>1, <2>2 DEF TextInv, RowsApart
  <2>4. ASSUME NEW m \in Msgs PROVE TextFits(m)' /\ LifeMoves(m)
    <3>1. TextFits(m)
      BY DEF TextInv
    <3>2. CASE m = i.msg
      <4>1. TextFits(m)' /\ Held(m)
        BY <1>1, <2>2, <3>1, <3>2 DEF TextFits, Held
      <4>2. QED
        BY <1>1, <3>1, <4>1, TextStays
    <3>3. CASE m # i.msg
      <4>1. TextFits(m)'
        BY <1>1, <2>2, <3>1, <3>3 DEF TextFits
      <4>2. Held(m)' => Held(m)
        BY <1>1, <2>2, <3>3 DEF Held
      <4>3. QED
        BY <1>1, <3>1, <4>1, <4>2, TextStays
    <3>4. QED
      BY <3>2, <3>3
  <2>5. QED
    BY <2>3, <2>4 DEF TextMoves
<1>4. QED
  BY <1>2, <1>3

(* A push: the dispatcher's steer leaves its hands for the queue, and an   *)
(* inject carries no text of a user.                                       *)
LEMMA PushText ==
    ASSUME TypeOK, TypeOK', TextInv, SteerPush \/ Inject
    PROVE  TextMoves
<1> DEFINE text == IF SteerPush THEN disp.msg ELSE NoMsg
           kind == IF SteerPush THEN "steer" ELSE "inject"
           row == [pos |-> nextPos, kind |-> kind, msg |-> text]
<1>1. /\ ran' = ran /\ sent' = sent /\ nextPos' = nextPos + 1 /\ pc' = pc /\ prompt' = prompt /\ inbox' = inbox \cup {row}
      /\ disp'.msg = IF SteerPush THEN NoMsg ELSE disp.msg
  <2>1. CASE SteerPush
    BY <2>1 DEF SteerPush, Push, NotBusy
  <2>2. CASE ~SteerPush
    BY <2>2 DEF Inject, Push
  <2>3. QED
    BY <2>1, <2>2
<1>2. row.msg = text /\ row.pos = nextPos /\ nextPos \in Nat /\ \A i \in inbox : i.pos \in Nat
  BY DEF TypeOK, Items
<1> HIDE DEF row
<1>3. RowsApart'
  BY <1>1, <1>2 DEF TextInv, RowsApart
<1>4. ASSUME NEW m \in Msgs PROVE TextFits(m)' /\ LifeMoves(m)
  <2>1. TextFits(m) /\ m # NoMsg
    BY TurnSlotAssumption DEF TextInv
  <2>2. CASE m = text
    <3>1. m = disp.msg /\ disp'.msg = NoMsg
      BY <1>1, <2>1, <2>2
    <3>2. TextFits(m)' /\ Held(m)
      BY <1>1, <1>2, <2>1, <2>2, <3>1 DEF TextFits, Held
    <3>3. QED
      BY <1>1, <2>1, <3>2, TextStays
  <2>3. CASE m # text
    <3>1. disp'.msg = m => disp.msg = m
      BY <1>1, <2>1
    <3>2. TextFits(m)'
      BY <1>1, <1>2, <2>1, <2>3, <3>1 DEF TextFits
    <3>3. Held(m)' => Held(m)
      BY <1>1, <1>2, <2>3, <3>1 DEF Held
    <3>4. QED
      BY <1>1, <2>1, <3>2, <3>3, TextStays
  <2>4. QED
    BY <2>2, <2>3
<1>5. QED
  BY <1>3, <1>4 DEF TextMoves

(* The requests and the timer's claim that hand no text on. *)
LEMMA OtherText ==
    ASSUME TypeOK, TypeOK', TextInv,
           \/ Interrupt \/ GoalContinueBusy \/ GoalContinueIdle \/ DeleteSession \/ ScheduleClaim
           \/ \E i \in Followups(inbox) : SteerQueued(i) \/ RemoveQueued(i)
    PROVE  TextMoves
<1>1. inbox' \subseteq inbox /\ nextPos' = nextPos /\ ran' = ran /\ sent' = sent
  BY DEF Interrupt, GoalContinueBusy, GoalContinueIdle, DeleteSession, ScheduleClaim, SteerQueued, RemoveQueued,
         Remove, DrainMidTurn
<1>2. disp'.msg \in {disp.msg, NoMsg}
  BY DEF Interrupt, GoalContinueBusy, GoalContinueIdle, DeleteSession, ScheduleClaim, SteerQueued, RemoveQueued,
         NotBusy
<1>3. \A u \in Ids : /\ prompt'[u] \in {prompt[u], NoMsg}
                     /\ pc'[u] = "opening" => pc[u] = "opening" \/ prompt'[u] = NoMsg
  <2>1. CASE GoalContinueIdle
    BY <2>1 DEF GoalContinueIdle, Open, TypeOK
  <2>2. CASE ScheduleClaim
    BY <2>2 DEF ScheduleClaim, TypeOK
  <2>3. CASE ~GoalContinueIdle /\ ~ScheduleClaim
    BY <2>3 DEF Interrupt, GoalContinueBusy, DeleteSession, SteerQueued, RemoveQueued
  <2>4. QED
    BY <2>1, <2>2, <2>3
<1>4. QED
  BY <1>1, <1>2, <1>3, TextFrame

LEMMA TextInitially == Init => TextInv /\ Life!Init
<1> SUFFICES ASSUME Init PROVE TextInv /\ Life!Init
  OBVIOUS
<1>1. TextInv
  <2>1. RowsApart
    BY DEF Init, RowsApart
  <2>2. ASSUME NEW m \in Msgs PROVE TextFits(m)
    BY TurnSlotAssumption DEF Init, TextFits, NotBusy
  <2>3. QED
    BY <2>1, <2>2 DEF TextInv
<1>2. ASSUME NEW m \in Msgs PROVE life[m] = "unsent"
  <2>1. ran[m] = 0 /\ m \notin sent
    BY DEF Init
  <2>2. ~Held(m)
    BY TurnSlotAssumption DEF Init, Held, NotBusy
  <2>3. QED
    BY <2>1, <2>2 DEF life
<1>3. life = [m \in Msgs |-> life[m]]
  BY DEF life
<1>4. life = [m \in Msgs |-> "unsent"]
  BY <1>2, <1>3
<1>5. QED
  BY <1>1, <1>4 DEF Life!Init

LEMMA TextStep == TypeOK /\ TypeOK' /\ TextInv /\ Next => TextMoves
<1> SUFFICES ASSUME TypeOK, TypeOK', TextInv, Next PROVE TextMoves
  OBVIOUS
<1>1. ASSUME NEW t \in Ids, Start(t) \/ Hop(t) \/ Decide(t) \/ Schedule(t) PROVE TextMoves
  BY <1>1, StartText, HopText, DecideText
<1>2. CASE Request
  BY <1>2, MessageText, EditText, PromoteText, PushText, OtherText DEF Request
<1>3. CASE Inject \/ ScheduleClaim
  BY <1>3, PushText, OtherText
<1>4. QED
  BY <1>1, <1>2, <1>3 DEF Next

(* Every step of the hub is a step of Delivery, or changes no text's life. *)
LEMMA LifeStep == TypeOK /\ TypeOK' /\ TextInv /\ [Next]_vars => TextInv' /\ [Life!Next]_life
<1> SUFFICES ASSUME TypeOK, TypeOK', TextInv, [Next]_vars PROVE TextInv' /\ [Life!Next]_life
  OBVIOUS
<1>1. CASE Next
  <2>1. TextMoves
    BY <1>1, TextStep
  <2>2. TextInv'
    BY <2>1 DEF TextMoves, TextInv
  <2>3. life' = [m \in Msgs |-> life'[m]]
    BY DEF life
  <2>4. life' \in [Msgs -> {"unsent", "waiting", "ran", "dropped"}]
    BY <2>1, <2>3 DEF TextMoves, LifeMoves
  <2>5. \A m \in Msgs : life'[m] = life[m] \/ <<life[m], life'[m]>> \in Life!MayBecome
    BY <2>1 DEF TextMoves, LifeMoves
  <2> HIDE DEF life
  <2>6. Life!Next
    BY <2>4, <2>5 DEF Life!Next
  <2>7. QED
    BY <2>2, <2>6
<1>2. CASE UNCHANGED vars
  <2>1. UNCHANGED <<inbox, nextPos, disp, prompt, pc, sent, ran>>
    BY <1>2 DEF vars
  <2>2. TextInv'
    BY <2>1 DEF TextInv, RowsApart, TextFits
  <2>3. life' = life
    BY <2>1 DEF life, Held
  <2>4. QED
    BY <2>2, <2>3
<1>3. QED
  BY <1>1, <1>2

LEMMA TextAlways == Spec => []TextInv
  BY TextInitially, LifeStep, TypeCorrect, PTL DEF Spec

(* A user's text is in one place at a time, in every hub: a promotion, an  *)
(* edit, a claim at the end of a turn and a drain never leave two copies   *)
(* of it to run.                                                           *)
THEOREM TextHeldOnce == Spec => []HeldOnce
<1>1. TypeOK /\ TextInv => HeldOnce
  <2> SUFFICES ASSUME TypeOK, TextInv, NEW m \in Msgs
               PROVE  /\ \A i, j \in inbox : i.msg = m /\ j.msg = m => i = j
                      /\ \A t, u \in Ids : pc[t] = "opening" /\ pc[u] = "opening" /\ prompt[t] = m
                                             /\ prompt[u] = m => t = u
                      /\ (\E i \in inbox : i.msg = m) => disp.msg # m /\ \A t \in Ids : prompt[t] # m
                      /\ ran[m] > 0 => \A i \in inbox : i.msg # m
    BY DEF HeldOnce
  <2>1. TextFits(m)
    BY DEF TextInv
  <2>2. QED
    BY <2>1 DEF TextFits
<1>2. QED
  BY <1>1, TextAlways, TypeCorrect, PTL

(* TurnSlot implements Delivery: a text the hub accepted reaches the log   *)
(* at most once and is never taken up again once it ran or was dropped.    *)
THEOREM TextsDelivered == Spec => DeliveredOnce
<1>1. Spec => [][Life!Next]_life
  BY TextAlways, TypeCorrect, LifeStep, PTL DEF Spec
<1>2. QED
  BY <1>1, TextInitially, PTL DEF DeliveredOnce, Life!Spec, Spec

(* A followup that leaves the queue for a turn is the oldest one waiting:  *)
(* only the decision at the end of a turn opens a call for a row, and it   *)
(* takes the first.                                                        *)
THEOREM FollowupsInOrder == Spec => ClaimsInOrder
<1> DEFINE InOrder == \A i \in Followups(inbox) :
             (i \notin inbox' /\ \E t \in Ids : pc[t] = "none" /\ pc'[t] = "opening" /\ prompt'[t] = i.msg)
                => \A j \in Followups(inbox) : i.pos <= j.pos
<1>1. TypeOK /\ [Next]_vars => [InOrder]_vars
  <2> SUFFICES ASSUME TypeOK, Next, NEW i \in Followups(inbox), i \notin inbox',
                      NEW t \in Ids, pc[t] = "none", pc'[t] = "opening"
               PROVE  \A j \in Followups(inbox) : i.pos <= j.pos
    OBVIOUS
  <2>1. CASE \E u \in Ids : DecideFollowup(u)
    <3>1. PICK k \in OldestFollowup(inbox) : inbox' = inbox \ {k}
      BY <2>1 DEF DecideFollowup
    <3>2. i = k
      BY <3>1 DEF Followups
    <3>3. QED
      BY <3>1, <3>2 DEF OldestFollowup
  <2>2. ASSUME NEW u \in Ids, Start(u) \/ Hop(u) \/ (Decide(u) /\ ~DecideFollowup(u)) \/ Schedule(u) PROVE FALSE
    <3>1. CASE Start(u)
      BY <3>1 DEF Start, StartRefused, StartLog, StartRegister, Followups
    <3>2. CASE Hop(u)
      BY <3>2 DEF Hop, HopTop, HopCancelled, HopAgain, HopLast, HopVanished, ArmGoal, DrainMidTurn, Followups
    <3>3. CASE Decide(u) /\ ~DecideFollowup(u)
      BY <3>3 DEF Decide, DecideStale, DecideStopped, DecideContinue, DecideRound, DecideIdle, Followups
    <3>4. CASE Schedule(u)
      BY <3>4 DEF Schedule, ScheduleSpawn, ScheduleRelease, Followups
    <3>5. QED
      BY <2>2, <3>1, <3>2, <3>3, <3>4
  <2>3. CASE Request \/ Inject \/ ScheduleClaim
    <3>1. inbox' = inbox \/ pc' = pc \/ inbox \subseteq inbox'
      BY <2>3 DEF Request, SendQueued, SendStart, EditUserMessage, DispStart, SteerTurn, SteerQueued, RemoveQueued,
                  EditQueued, SteerPush, PromoteTake, Interrupt, GoalContinueBusy, GoalContinueIdle, DeleteSession,
                  Inject, ScheduleClaim, Push
    <3>2. QED
      BY <3>1 DEF Followups
  <2>4. QED
    BY <2>1, <2>2, <2>3 DEF Next
<1>2. QED
  BY <1>1, TypeCorrect, PTL DEF Spec, ClaimsInOrder
=============================================================================
