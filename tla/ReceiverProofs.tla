--------------------------- MODULE ReceiverProofs ---------------------------
(***************************************************************************)
(* Theorems about the receiving side, for every set of messages, however   *)
(* many runs overlap and faults happen.                                    *)
(***************************************************************************)
EXTENDS Receiver, TLAPS, WellFoundedInduction

\* What a run may rely on when it comes back from an await: the box and the
\* marks only grow, so what it knew of its message still holds.
KnowsItsMessage(r) ==
    /\ runs[r].pc \in {"save", "notify", "show"} => kind[Current(r)] = "chat"
    /\ runs[r].pc \in {"notify", "show"} => Current(r) \in box
    /\ runs[r].pc = "mark" =>
          kind[Current(r)] = "system" \/ (kind[Current(r)] = "chat" /\ Current(r) \in box)
    /\ runs[r].pc = "ack" => Handled(Current(r))

RunsKnow == \A r \in Run : KnowsItsMessage(r)

ReceiveInv == ReceiveTypeOK /\ RunsKnow /\ ProcessedIsSaved /\ AckedIsHandled

\* A set of messages has an oldest one.
LEMMA OldestExists ==
    ASSUME NEW S \in SUBSET Message, S # {}
    PROVE  \E m \in S : \A n \in S : m <= n
<1>1. S \subseteq Nat
    BY ReceiveAssumption
<1>2. PICK m \in S : \A n \in S : ~ (<<n, m>> \in OpToRel(<, Nat))
    BY <1>1, WFMin, NatLessThanWellFounded
<1>3. ASSUME NEW n \in S PROVE m <= n
    <2>1. m \in Nat /\ n \in Nat
        BY <1>1
    <2>2. ~ (n < m)
        BY <2>1, <1>2 DEF OpToRel
    <2> QED
        BY <2>1, <2>2
<1> QED
    BY <1>3

LEMMA CurrentIsOneOfThem ==
    ASSUME ProcessTypeOK, NEW r \in Run, runs[r].pc # "idle"
    PROVE  Current(r) \in runs[r].todo /\ Current(r) \in Message
<1>1. runs[r].todo \in SUBSET Message /\ runs[r].todo # {}
    BY DEF ProcessTypeOK
<1> QED
    BY <1>1, OldestExists DEF Current
-----------------------------------------------------------------------------
(***************************************************************************)
(* Type correctness.                                                       *)
(***************************************************************************)

LEMMA TypeInit == Init => ReceiveTypeOK
<1> SUFFICES ASSUME Init PROVE ReceiveTypeOK
    OBVIOUS
<1> USE DEF Init
<1>1. RelayTypeOK
    BY ReceiveAssumption DEF RelayTypeOK
<1>2. NetTypeOK /\ StoreTypeOK
    BY DEF NetTypeOK, StoreTypeOK
<1>3. ProcessTypeOK
    BY DEF ProcessTypeOK, IdleRun, NoPush, RunStep
<1>4. HistoryTypeOK
    BY ReceiveAssumption DEF HistoryTypeOK
<1> QED
    BY <1>1, <1>2, <1>3, <1>4 DEF ReceiveTypeOK

\* Store, StoreAgain, Emit and HandlerGivesUp write what the relay holds.
LEMMA RelayTypeKept == ASSUME ReceiveTypeOK, Next PROVE RelayTypeOK'
<1> USE DEF ReceiveTypeOK, RelayTypeOK, relayVars
<1>1. ASSUME NEW m \in Message, Store(m) \/ StoreAgain(m) \/ Emit(m) \/ WakeUp(m)
      PROVE  RelayTypeOK'
    BY <1>1 DEF Store, StoreAgain, Emit, WakeUp
<1>2. ASSUME NEW r \in Run, Acknowledge(r)
      PROVE  RelayTypeOK'
    BY <1>2 DEF Acknowledge
<1>3. CASE HandlerGivesUp
    BY <1>3 DEF HandlerGivesUp
<1>4. ASSUME UNCHANGED relayVars
      PROVE  RelayTypeOK'
    BY <1>4
<1>5. ASSUME NEW r \in Run, RunStepOf(r) \/ AcknowledgementLost(r)
      PROVE  Acknowledge(r) \/ UNCHANGED relayVars
    BY <1>5 DEF RunStepOf, Skip, ApplySystem, OpenChat, Save, FlagNotified, ShowNotification,
       MarkProcessed, AcknowledgementLost
<1>6. ASSUME NEW b \in wire, DeliverNothing(b) \/ \E r \in Run : Deliver(b, r)
      PROVE  UNCHANGED relayVars
    BY <1>6 DEF DeliverNothing, Deliver
<1>7. ASSUME NEW since \in fetches, Answer(since) \/ AnswerFails(since)
      PROVE  UNCHANGED relayVars
    BY <1>7 DEF Answer, AnswerFails
<1>8. ASSUME Connect \/ Resume \/ Disconnect \/ Kill \/ Start \/ HandlerDone
      PROVE  UNCHANGED relayVars
    BY <1>8 DEF Connect, Resume, Disconnect, Kill, Start, HandlerDone
<1> QED
    BY <1>1, <1>2, <1>3, <1>4, <1>5, <1>6, <1>7, <1>8 DEF Next, RelayStep, RelayFault, ClientStep

\* Emit, Answer, the deliveries and the changes of the connection.
LEMMA NetTypeKept == ASSUME ReceiveTypeOK, Next PROVE NetTypeOK'
<1> USE DEF ReceiveTypeOK, NetTypeOK, netVars
<1>1. CASE UNCHANGED netVars
    BY <1>1
<1>2. ASSUME NEW m \in Message, Store(m) \/ StoreAgain(m) \/ WakeUp(m)
      PROVE  UNCHANGED netVars
    BY <1>2 DEF Store, StoreAgain, WakeUp
<1>3. ASSUME NEW m \in Message, Emit(m)
      PROVE  NetTypeOK'
    <2>1. [msgs |-> {m}, fetched |-> FALSE] \in Batch
        BY DEF Batch
    <2> QED
        BY <1>3, <2>1 DEF Emit
<1>4. ASSUME NEW since \in fetches, Answer(since) \/ AnswerFails(since)
      PROVE  NetTypeOK'
    <2>1. InboxOf(since) \in SUBSET Message
        BY DEF InboxOf, Pending
    <2>2. /\ [msgs |-> InboxOf(since), fetched |-> TRUE] \in Batch
          /\ [msgs |-> {}, fetched |-> TRUE] \in Batch
        BY <2>1 DEF Batch
    <2> QED
        BY <1>4, <2>2 DEF Answer, AnswerFails
<1>5. ASSUME NEW b \in wire, DeliverNothing(b) \/ \E r \in Run : Deliver(b, r)
      PROVE  NetTypeOK'
    BY <1>5 DEF DeliverNothing, Deliver
<1>6. ASSUME NEW r \in Run, RunStepOf(r) \/ AcknowledgementLost(r)
      PROVE  UNCHANGED netVars
    BY <1>6 DEF RunStepOf, Skip, ApplySystem, OpenChat, Save, FlagNotified, ShowNotification,
       MarkProcessed, Acknowledge, AcknowledgementLost
<1>7. CASE Connect \/ Resume
    <2>1. lastSync \in Nat
        BY ReceiveAssumption DEF StoreTypeOK
    <2> QED
        BY <1>7, <2>1 DEF Connect, Resume
<1>8. CASE Disconnect \/ Kill \/ Start \/ HandlerDone \/ HandlerGivesUp
    BY <1>8 DEF Disconnect, Kill, Start, HandlerDone, HandlerGivesUp, Ends
<1> QED
    BY <1>1, <1>2, <1>3, <1>4, <1>5, <1>6, <1>7, <1>8 DEF Next, RelayStep, RelayFault, ClientStep

\* Only a run, and the push handler when it wakes up, write to Hive.
LEMMA StoreTypeKept == ASSUME ReceiveTypeOK, Next PROVE StoreTypeOK'
<1> USE DEF ReceiveTypeOK, StoreTypeOK, storeVars
<1>1. CASE UNCHANGED storeVars
    BY <1>1
<1>2. ASSUME NEW m \in Message, Store(m) \/ StoreAgain(m) \/ Emit(m)
      PROVE  UNCHANGED storeVars
    BY <1>2 DEF Store, StoreAgain, Emit
<1>3. ASSUME NEW m \in Message, WakeUp(m)
      PROVE  StoreTypeOK'
    BY <1>3 DEF WakeUp
<1>4. ASSUME NEW since \in fetches, Answer(since) \/ AnswerFails(since)
      PROVE  UNCHANGED storeVars
    BY <1>4 DEF Answer, AnswerFails
<1>5. ASSUME NEW b \in wire, DeliverNothing(b) \/ \E r \in Run : Deliver(b, r)
      PROVE  UNCHANGED storeVars
    BY <1>5 DEF DeliverNothing, Deliver
<1>6. ASSUME NEW r \in Run, RunStepOf(r) \/ AcknowledgementLost(r)
      PROVE  StoreTypeOK'
    <2>1. CASE Save(r) \/ FlagNotified(r) \/ MarkProcessed(r)
        <3>1. Current(r) \in Message
            BY <2>1, CurrentIsOneOfThem DEF Save, FlagNotified, MarkProcessed, At
        <3> QED
            BY <2>1, <3>1 DEF Save, FlagNotified, MarkProcessed
    <2>2. CASE ~ (Save(r) \/ FlagNotified(r) \/ MarkProcessed(r))
        BY <1>1, <1>6, <2>2 DEF RunStepOf, Skip, ApplySystem, OpenChat, ShowNotification,
           Acknowledge, AcknowledgementLost
    <2> QED
        BY <2>1, <2>2
<1>7. ASSUME Connect \/ Resume \/ Disconnect \/ Kill \/ Start \/ HandlerDone \/ HandlerGivesUp
      PROVE  UNCHANGED storeVars
    BY <1>7 DEF Connect, Resume, Disconnect, Kill, Start, HandlerDone, HandlerGivesUp
<1> QED
    BY <1>1, <1>2, <1>3, <1>4, <1>5, <1>6, <1>7 DEF Next, RelayStep, RelayFault, ClientStep

LEMMA RunsKept ==
    ASSUME ReceiveTypeOK, NEW r \in Run, RunStepOf(r) \/ AcknowledgementLost(r)
    PROVE  ProcessTypeOK'
<1> USE DEF ReceiveTypeOK, ProcessTypeOK, RunStep, At, Go
<1>1. runs[r].pc # "idle" /\ mode # "killed"
    <2>1. runs[r].pc # "idle"
        BY DEF RunStepOf, Skip, ApplySystem, OpenChat, Save, FlagNotified, ShowNotification,
           MarkProcessed, Acknowledge, AcknowledgementLost, More
    <2> QED
        BY <2>1 DEF IdleRun
<1>2. UNCHANGED <<mode, online>>
    BY DEF RunStepOf, Skip, ApplySystem, OpenChat, Save, FlagNotified, ShowNotification,
       MarkProcessed, Acknowledge, AcknowledgementLost, netVars
<1>3. CASE Acknowledge(r) \/ AcknowledgementLost(r)
    <2>1. NextEnvelope(r)
        BY <1>3 DEF Acknowledge, AcknowledgementLost
    <2>2. Current(r) \in runs[r].todo
        BY <1>3, CurrentIsOneOfThem DEF Acknowledge, AcknowledgementLost
    <2>3. CASE runs[r].todo # {Current(r)}
        BY <1>1, <1>2, <2>1, <2>2, <2>3 DEF NextEnvelope
    <2>4. CASE runs[r].todo = {Current(r)}
        <3>1. /\ runs' = [runs EXCEPT ![r] = IdleRun]
              /\ push' = [push EXCEPT !.synced = @ \/ (mode = "push" /\ runs[r].fetched)]
            BY <2>1, <2>4 DEF NextEnvelope
        <3>2. push' \in [msg : Message \cup {NoMessage}, synced : BOOLEAN]
              /\ push'.msg = push.msg
            BY <3>1
        <3> QED
            BY <1>1, <1>2, <3>1, <3>2 DEF IdleRun
    <2> QED
        BY <2>3, <2>4
<1>4. CASE Skip(r) \/ ApplySystem(r) \/ Save(r) \/ ShowNotification(r) \/ MarkProcessed(r)
    BY <1>1, <1>2, <1>4 DEF Skip, ApplySystem, Save, ShowNotification, MarkProcessed, More
<1>5. ASSUME NEW pc \in RunStep \ {"idle"}, NEW active \in BOOLEAN, push' = push,
             runs' = [runs EXCEPT ![r].pc = pc, ![r].active = active]
      PROVE  ProcessTypeOK'
    <2>1. PICK new : new = [runs[r] EXCEPT !.pc = pc, !.active = active]
        OBVIOUS
    <2>2. runs[r] \in [pc : RunStep, todo : SUBSET Message, fetched : BOOLEAN, active : BOOLEAN]
        OBVIOUS
    <2>3. /\ new \in [pc : RunStep, todo : SUBSET Message, fetched : BOOLEAN, active : BOOLEAN]
          /\ new.pc = pc /\ new.todo = runs[r].todo
        BY <2>1, <2>2
    <2>4. runs' = [runs EXCEPT ![r] = new]
        BY <1>5, <2>1
    <2>5. runs' \in [Run -> [pc : RunStep, todo : SUBSET Message, fetched : BOOLEAN,
                            active : BOOLEAN]]
        BY <2>3, <2>4
    <2>6. \A x \in Run : runs'[x].pc # "idle" => runs'[x].todo # {}
        BY <1>1, <2>3, <2>4
    <2> QED
        BY <1>1, <1>2, <1>5, <2>5, <2>6
<1>6. CASE OpenChat(r)
    <2>1. PICK active \in BOOLEAN :
              runs' = [runs EXCEPT ![r].pc = "save", ![r].active = active]
        BY <1>6 DEF OpenChat
    <2>2. push' = push
        BY <1>6 DEF OpenChat
    <2> QED
        BY <1>5, <2>1, <2>2
<1>7. CASE FlagNotified(r)
    <2>1. PICK pc \in {"show", "mark"} :
              runs' = [runs EXCEPT ![r].pc = pc, ![r].active = FALSE]
        BY <1>7 DEF FlagNotified
    <2>2. push' = push
        BY <1>7 DEF FlagNotified
    <2> QED
        BY <1>5, <2>1, <2>2
<1> QED
    BY <1>3, <1>4, <1>6, <1>7 DEF RunStepOf

LEMMA ProcessTypeKept == ASSUME ReceiveTypeOK, Next PROVE ProcessTypeOK'
<1> USE DEF ReceiveTypeOK, ProcessTypeOK
<1>1. CASE UNCHANGED <<mode, online, runs, push>>
    BY <1>1
<1>2. ASSUME NEW m \in Message, Store(m) \/ StoreAgain(m) \/ Emit(m)
      PROVE  UNCHANGED <<mode, online, runs, push>>
    BY <1>2 DEF Store, StoreAgain, Emit, netVars
<1>3. ASSUME NEW since \in fetches, Answer(since) \/ AnswerFails(since)
      PROVE  UNCHANGED <<mode, online, runs, push>>
    BY <1>3 DEF Answer, AnswerFails
<1>4. ASSUME NEW m \in Message, WakeUp(m)
      PROVE  ProcessTypeOK'
    BY <1>4, ReceiveAssumption DEF WakeUp, NoPush, netVars
<1>5. ASSUME NEW b \in wire, DeliverNothing(b)
      PROVE  ProcessTypeOK'
    BY <1>5 DEF DeliverNothing
<1>6. ASSUME NEW b \in wire, NEW r \in Run, Deliver(b, r)
      PROVE  ProcessTypeOK'
    <2>1. b.msgs \in SUBSET Message /\ b.fetched \in BOOLEAN /\ online
        BY DEF NetTypeOK, Batch
    <2>2. runs' = [runs EXCEPT ![r] = [pc |-> "next", todo |-> b.msgs,
                                      fetched |-> b.fetched, active |-> FALSE]]
        BY <1>6 DEF Deliver
    <2>3. b.msgs # {} /\ UNCHANGED <<mode, online, push>>
        BY <1>6 DEF Deliver
    <2> QED
        BY <2>1, <2>2, <2>3 DEF RunStep
<1>7. ASSUME NEW r \in Run, RunStepOf(r) \/ AcknowledgementLost(r)
      PROVE  ProcessTypeOK'
    BY <1>7, RunsKept
<1>8. CASE Connect \/ Resume \/ Disconnect
    BY <1>8 DEF Connect, Resume, Disconnect
<1>9. CASE Start
    BY <1>9 DEF Start, netVars
<1>10. CASE Kill \/ HandlerDone
    <2>1. Ends
        BY <1>10 DEF Kill, HandlerDone
    <2> QED
        BY <2>1 DEF Ends, IdleRun, NoPush, RunStep
<1>11. CASE HandlerGivesUp
    <2>1. push' \in [msg : Message \cup {NoMessage}, synced : BOOLEAN] /\ push'.msg = push.msg
        BY <1>11 DEF HandlerGivesUp
    <2> QED
        BY <1>11, <2>1 DEF HandlerGivesUp, netVars
<1> QED
    BY <1>1, <1>2, <1>3, <1>4, <1>5, <1>6, <1>7, <1>8, <1>9, <1>10, <1>11 DEF Next, RelayStep, RelayFault, ClientStep

LEMMA HistoryTypeKept == ASSUME ReceiveTypeOK, Next PROVE HistoryTypeOK'
<1> USE DEF ReceiveTypeOK, HistoryTypeOK, history
<1>1. ASSUME Fault \/ UNCHANGED faults
      PROVE  faults' \in 0 .. MaxFaults
    BY <1>1, ReceiveAssumption DEF Fault
<1>2. CASE (Fault \/ UNCHANGED faults) /\ UNCHANGED history
    BY <1>1, <1>2
<1>3. ASSUME NEW m \in Message, Store(m) \/ StoreAgain(m) \/ Emit(m)
      PROVE  (Fault \/ UNCHANGED faults) /\ UNCHANGED history
    BY <1>3 DEF Store, StoreAgain, Emit
<1>4. ASSUME NEW m \in Message, WakeUp(m)
      PROVE  HistoryTypeOK'
    BY <1>4 DEF WakeUp
<1>5. ASSUME NEW since \in fetches, Answer(since)
      PROVE  UNCHANGED <<faults, history>>
    BY <1>5 DEF Answer
<1>6. ASSUME NEW since \in fetches, AnswerFails(since)
      PROVE  HistoryTypeOK'
    BY <1>1, <1>6 DEF AnswerFails, Pending
<1>7. ASSUME NEW b \in wire, DeliverNothing(b) \/ \E r \in Run : Deliver(b, r)
      PROVE  UNCHANGED <<faults, history>>
    BY <1>7 DEF DeliverNothing, Deliver
<1>8. ASSUME NEW r \in Run, RunStepOf(r) \/ AcknowledgementLost(r)
      PROVE  HistoryTypeOK'
    <2>1. CASE OpenChat(r) \/ Save(r) \/ ShowNotification(r)
        <3>1. Current(r) \in Message
            BY <2>1, CurrentIsOneOfThem DEF OpenChat, Save, ShowNotification, More, At
        <3> QED
            BY <2>1, <3>1 DEF OpenChat, Save, ShowNotification
    <2>2. CASE Skip(r) \/ ApplySystem(r) \/ FlagNotified(r) \/ MarkProcessed(r)
               \/ Acknowledge(r) \/ AcknowledgementLost(r)
        BY <1>2, <2>2 DEF Skip, ApplySystem, FlagNotified, MarkProcessed, Acknowledge,
           AcknowledgementLost
    <2> QED
        BY <1>8, <2>1, <2>2 DEF RunStepOf
<1>9. CASE Connect \/ Resume
    BY <1>1, <1>9 DEF Connect, Resume
<1>10. ASSUME Disconnect \/ Kill \/ Start \/ HandlerDone
       PROVE  (Fault \/ UNCHANGED faults) /\ UNCHANGED history
    BY <1>10 DEF Disconnect, Kill, Start, HandlerDone
<1>11. CASE HandlerGivesUp
    <2>1. push.msg \in Message
        BY <1>11 DEF HandlerGivesUp, ProcessTypeOK
    <2> QED
        BY <1>1, <1>11, <2>1 DEF HandlerGivesUp
<1> QED
    BY <1>2, <1>3, <1>4, <1>5, <1>6, <1>7, <1>8, <1>9, <1>10, <1>11
       DEF Next, RelayStep, RelayFault, ClientStep

LEMMA TypeKept == ASSUME ReceiveTypeOK, [Next]_vars PROVE ReceiveTypeOK'
<1>1. CASE Next
    BY <1>1, RelayTypeKept, NetTypeKept, StoreTypeKept, ProcessTypeKept, HistoryTypeKept
       DEF ReceiveTypeOK
<1>2. CASE UNCHANGED vars
    BY <1>2 DEF vars, relayVars, netVars, storeVars, history, ReceiveTypeOK, RelayTypeOK,
       NetTypeOK, StoreTypeOK, ProcessTypeOK, HistoryTypeOK
<1> QED
    BY <1>1, <1>2

\* Every value keeps its shape, nothing is under way without a connection, and
\* nothing runs in a killed process (processEnvelopes, the push handler).
THEOREM ReceiveTypeCorrect == Spec => []ReceiveTypeOK
<1>1. ReceiveTypeOK /\ [Next]_vars => ReceiveTypeOK'
    BY TypeKept
<1> QED
    BY TypeInit, <1>1, PTL DEF Spec
-----------------------------------------------------------------------------
(***************************************************************************)
(* What is acknowledged is safe on the device.                             *)
(***************************************************************************)

\* The box and the marks only grow.
Grows == kind' = kind /\ box \subseteq box' /\ processed \subseteq processed'

LEMMA NextGrows == ASSUME [Next]_vars PROVE Grows
<1> USE DEF Grows, relayVars, storeVars
<1>1. ASSUME NEW m \in Message, Store(m) \/ StoreAgain(m) \/ Emit(m) \/ WakeUp(m)
      PROVE  Grows
    BY <1>1 DEF Store, StoreAgain, Emit, WakeUp
<1>2. ASSUME NEW since \in fetches, Answer(since) \/ AnswerFails(since)
      PROVE  Grows
    BY <1>2 DEF Answer, AnswerFails
<1>3. ASSUME NEW b \in wire, DeliverNothing(b) \/ \E r \in Run : Deliver(b, r)
      PROVE  Grows
    BY <1>3 DEF DeliverNothing, Deliver
<1>4. ASSUME NEW r \in Run, RunStepOf(r) \/ AcknowledgementLost(r)
      PROVE  Grows
    BY <1>4 DEF RunStepOf, Skip, ApplySystem, OpenChat, Save, FlagNotified, ShowNotification,
       MarkProcessed, Acknowledge, AcknowledgementLost
<1>5. ASSUME Connect \/ Resume \/ Disconnect \/ Kill \/ Start \/ HandlerDone \/ HandlerGivesUp
      PROVE  Grows
    BY <1>5 DEF Connect, Resume, Disconnect, Kill, Start, HandlerDone, HandlerGivesUp
<1>6. CASE UNCHANGED vars
    BY <1>6 DEF vars
<1> QED
    BY <1>1, <1>2, <1>3, <1>4, <1>5, <1>6 DEF Next, RelayStep, RelayFault, ClientStep

LEMMA HandledKept == ASSUME Grows, NEW m, Handled(m) PROVE Handled(m)'
BY DEF Grows, Handled

\* What a run knows stays true while others work.
LEMMA KnowledgeKept ==
    ASSUME Grows, NEW r, KnowsItsMessage(r), runs'[r] = runs[r]
    PROVE  KnowsItsMessage(r)'
<1>1. Current(r)' = Current(r)
    BY DEF Current
<1>2. Handled(Current(r)) => Handled(Current(r))'
    BY <1>1, HandledKept
<1> QED
    BY <1>1, <1>2 DEF KnowsItsMessage, Grows

LEMMA OnlyItself ==
    ASSUME ReceiveTypeOK, NEW r \in Run, NEW q \in Run \ {r},
           RunStepOf(r) \/ AcknowledgementLost(r)
    PROVE  runs'[q] = runs[q]
<1>1. runs \in [Run -> [pc : RunStep, todo : SUBSET Message, fetched : BOOLEAN,
                       active : BOOLEAN]]
    BY DEF ReceiveTypeOK, ProcessTypeOK
<1> QED
    BY <1>1 DEF RunStepOf, Skip, ApplySystem, OpenChat, Save, FlagNotified, ShowNotification,
       MarkProcessed, Acknowledge, AcknowledgementLost, NextEnvelope, Go

\* A message that has been processed needs no more than its acknowledgement.
LEMMA ProcessedIsHandled ==
    ASSUME ProcessedIsSaved, NEW m \in processed
    PROVE  Handled(m)
BY DEF ProcessedIsSaved, Handled

\* A run that moves on still holds the same message, and knows enough of it.
LEMMA StepKnows ==
    ASSUME ReceiveInv, NEW r \in Run, RunStepOf(r) \/ AcknowledgementLost(r)
    PROVE  KnowsItsMessage(r)'
<1> USE DEF At, Go, More, storeVars, relayVars
<1>1. /\ runs \in [Run -> [pc : RunStep, todo : SUBSET Message, fetched : BOOLEAN,
                          active : BOOLEAN]]
      /\ KnowsItsMessage(r) /\ ProcessedIsSaved
      /\ runs[r].pc # "idle" => Current(r) \in Message
    BY CurrentIsOneOfThem DEF ReceiveInv, ReceiveTypeOK, ProcessTypeOK, RunsKnow
<1>2. ASSUME runs'[r].todo = runs[r].todo
      PROVE  Current(r)' = Current(r)
    BY <1>2 DEF Current
<1>3. CASE Skip(r)
    <2>1. runs'[r].pc = "ack" /\ runs'[r].todo = runs[r].todo
        BY <1>1, <1>3 DEF Skip
    <2>2. Handled(Current(r))
        BY <1>1, <1>3, ProcessedIsHandled DEF Skip, Handled
    <2>3. Handled(Current(r))'
        BY <1>2, <1>3, <2>1, <2>2 DEF Skip, Handled
    <2> QED
        BY <2>1, <2>3 DEF KnowsItsMessage
<1>4. CASE ApplySystem(r)
    <2>1. runs'[r].pc = "mark" /\ runs'[r].todo = runs[r].todo /\ UNCHANGED kind
        BY <1>1, <1>4 DEF ApplySystem
    <2>2. kind[Current(r)] = "system"
        BY <1>4 DEF ApplySystem
    <2>3. Current(r)' = Current(r)
        BY <1>2, <2>1
    <2>4. kind'[Current(r)'] = "system"
        BY <2>1, <2>2, <2>3
    <2> QED
        BY <2>1, <2>4 DEF KnowsItsMessage
<1>5. CASE OpenChat(r)
    <2>1. runs'[r].pc = "save" /\ runs'[r].todo = runs[r].todo /\ UNCHANGED kind
        BY <1>1, <1>5 DEF OpenChat
    <2> QED
        BY <1>2, <1>5, <2>1 DEF OpenChat, KnowsItsMessage
<1>6. CASE Save(r)
    <2>1. runs'[r].pc = "notify" /\ runs'[r].todo = runs[r].todo /\ UNCHANGED kind
        BY <1>1, <1>6 DEF Save
    <2> QED
        BY <1>1, <1>2, <1>6, <2>1 DEF Save, KnowsItsMessage
<1>7. CASE FlagNotified(r) \/ ShowNotification(r)
    <2>1. /\ runs'[r].pc \in {"show", "mark"} /\ runs'[r].todo = runs[r].todo
          /\ UNCHANGED <<kind, box>>
        BY <1>1, <1>7 DEF FlagNotified, ShowNotification
    <2> QED
        BY <1>1, <1>2, <1>7, <2>1 DEF FlagNotified, ShowNotification, KnowsItsMessage
<1>8. CASE MarkProcessed(r)
    <2>1. runs'[r].pc = "ack" /\ runs'[r].todo = runs[r].todo
        BY <1>1, <1>8 DEF MarkProcessed
    <2>2. Current(r)' = Current(r)
        BY <1>2, <2>1
    <2>3. Handled(Current(r))'
        BY <1>1, <1>8, <2>2 DEF MarkProcessed, KnowsItsMessage, Handled
    <2> QED
        BY <2>1, <2>3 DEF KnowsItsMessage
<1>9. CASE Acknowledge(r) \/ AcknowledgementLost(r)
    <2>1. runs'[r].pc \in {"next", "idle"}
        BY <1>1, <1>9 DEF Acknowledge, AcknowledgementLost, NextEnvelope, IdleRun
    <2> QED
        BY <2>1 DEF KnowsItsMessage
<1> QED
    BY <1>3, <1>4, <1>5, <1>6, <1>7, <1>8, <1>9 DEF RunStepOf

LEMMA RunsKnowKept == ASSUME ReceiveInv, [Next]_vars PROVE RunsKnow'
<1> USE DEF RunsKnow
<1>1. Grows
    BY NextGrows
<1>2. RunsKnow /\ runs \in [Run -> [pc : RunStep, todo : SUBSET Message, fetched : BOOLEAN,
                                   active : BOOLEAN]]
    BY DEF ReceiveInv, ReceiveTypeOK, ProcessTypeOK
<1>3. CASE UNCHANGED runs
    BY <1>1, <1>2, <1>3, KnowledgeKept
<1>4. ASSUME NEW r \in Run, RunStepOf(r) \/ AcknowledgementLost(r)
      PROVE  RunsKnow'
    <2>1. KnowsItsMessage(r)'
        BY <1>4, StepKnows
    <2>2. ASSUME NEW q \in Run \ {r}
          PROVE  KnowsItsMessage(q)'
        <3>1. runs'[q] = runs[q]
            BY <1>4, OnlyItself DEF ReceiveInv
        <3> QED
            BY <1>1, <1>2, <3>1, KnowledgeKept
    <2> QED
        BY <2>1, <2>2
<1>5. ASSUME NEW b \in wire, NEW r \in Run, Deliver(b, r)
      PROVE  RunsKnow'
    <2>1. runs'[r].pc = "next"
        BY <1>2, <1>5 DEF Deliver
    <2>2. KnowsItsMessage(r)'
        BY <2>1 DEF KnowsItsMessage
    <2>3. ASSUME NEW q \in Run \ {r}
          PROVE  KnowsItsMessage(q)'
        <3>1. runs'[q] = runs[q]
            BY <1>2, <1>5 DEF Deliver
        <3> QED
            BY <1>1, <1>2, <3>1, KnowledgeKept
    <2> QED
        BY <2>2, <2>3
<1>6. CASE Kill \/ HandlerDone
    <2>1. \A r \in Run : runs'[r].pc = "idle"
        BY <1>6 DEF Kill, HandlerDone, Ends, IdleRun
    <2> QED
        BY <2>1 DEF KnowsItsMessage
<1>7. ASSUME NEW m \in Message, Store(m) \/ StoreAgain(m) \/ Emit(m) \/ WakeUp(m)
      PROVE  UNCHANGED runs
    BY <1>7 DEF Store, StoreAgain, Emit, WakeUp
<1>8. ASSUME NEW since \in fetches, Answer(since) \/ AnswerFails(since)
      PROVE  UNCHANGED runs
    BY <1>8 DEF Answer, AnswerFails
<1>9. ASSUME NEW b \in wire, DeliverNothing(b)
      PROVE  UNCHANGED runs
    BY <1>9 DEF DeliverNothing
<1>10. CASE Connect \/ Resume \/ Disconnect \/ Start \/ HandlerGivesUp
    BY <1>3, <1>10 DEF Connect, Resume, Disconnect, Start, HandlerGivesUp
<1>11. CASE UNCHANGED vars
    BY <1>3, <1>11 DEF vars
<1> QED
    BY <1>3, <1>4, <1>5, <1>6, <1>7, <1>8, <1>9, <1>10, <1>11 DEF Next, RelayStep, RelayFault, ClientStep

\* Only _markProcessed adds to the box of marks, and its run has saved the message.
LEMMA ProcessedIsSavedKept == ASSUME ReceiveInv, [Next]_vars PROVE ProcessedIsSaved'
<1> USE DEF ProcessedIsSaved
<1>1. Grows /\ ProcessedIsSaved
    BY NextGrows DEF ReceiveInv
<1>2. CASE UNCHANGED processed
    BY <1>1, <1>2 DEF Grows
<1>3. ASSUME NEW r \in Run, MarkProcessed(r)
      PROVE  ProcessedIsSaved'
    <2>1. processed' = processed \cup {Current(r)}
        BY <1>3 DEF MarkProcessed
    <2>2. kind[Current(r)] = "chat" => Current(r) \in box
        BY <1>3 DEF MarkProcessed, At, ReceiveInv, RunsKnow, KnowsItsMessage
    <2> QED
        BY <1>1, <2>1, <2>2 DEF Grows
<1>4. ASSUME NEW r \in Run, ~ MarkProcessed(r), RunStepOf(r) \/ AcknowledgementLost(r)
      PROVE  UNCHANGED processed
    BY <1>4 DEF RunStepOf, Skip, ApplySystem, OpenChat, Save, FlagNotified, ShowNotification,
       Acknowledge, AcknowledgementLost, storeVars
<1>5. ASSUME NEW m \in Message, Store(m) \/ StoreAgain(m) \/ Emit(m) \/ WakeUp(m)
      PROVE  UNCHANGED processed
    BY <1>5 DEF Store, StoreAgain, Emit, WakeUp, storeVars
<1>6. ASSUME NEW since \in fetches, Answer(since) \/ AnswerFails(since)
      PROVE  UNCHANGED processed
    BY <1>6 DEF Answer, AnswerFails, storeVars
<1>7. ASSUME NEW b \in wire, DeliverNothing(b) \/ \E r \in Run : Deliver(b, r)
      PROVE  UNCHANGED processed
    BY <1>7 DEF DeliverNothing, Deliver, storeVars
<1>8. ASSUME Connect \/ Resume \/ Disconnect \/ Kill \/ Start \/ HandlerDone \/ HandlerGivesUp
      PROVE  UNCHANGED processed
    BY <1>8 DEF Connect, Resume, Disconnect, Kill, Start, HandlerDone, HandlerGivesUp, storeVars
<1>9. CASE UNCHANGED vars
    BY <1>2, <1>9 DEF vars, storeVars
<1> QED
    BY <1>2, <1>3, <1>4, <1>5, <1>6, <1>7, <1>8, <1>9 DEF Next, RelayStep, RelayFault, ClientStep

LEMMA AckedIsHandledKept == ASSUME ReceiveInv, [Next]_vars PROVE AckedIsHandled'
<1> USE DEF relayVars, history
<1>1. Grows /\ AckedIsHandled /\ ProcessedIsSaved
    BY NextGrows DEF ReceiveInv
<1>2. row \in [Message -> {"none", "pending", "acknowledged"}]
    BY DEF ReceiveInv, ReceiveTypeOK, RelayTypeOK
<1>3. ASSUME blind \subseteq blind',
             \A m \in Message \ blind' :
                 row'[m] = "acknowledged" => row[m] = "acknowledged" \/ Handled(m)
      PROVE  AckedIsHandled'
    <2>1. \A m \in Message \ blind' : row'[m] = "acknowledged" => Handled(m)
        BY <1>1, <1>3 DEF AckedIsHandled
    <2>2. \A m \in Message : Handled(m) => Handled(m)'
        BY <1>1, HandledKept
    <2> QED
        BY <2>1, <2>2 DEF AckedIsHandled
<1>4. CASE UNCHANGED <<row, blind>>
    BY <1>3, <1>4
<1>5. ASSUME NEW m \in Message, Store(m) \/ StoreAgain(m) \/ Emit(m) \/ WakeUp(m)
      PROVE  AckedIsHandled'
    <2>1. CASE Store(m)
        BY <1>2, <1>3, <2>1 DEF Store
    <2>2. CASE StoreAgain(m) \/ Emit(m) \/ WakeUp(m)
        BY <1>4, <2>2 DEF StoreAgain, Emit, WakeUp
    <2> QED
        BY <1>5, <2>1, <2>2
<1>6. ASSUME NEW since \in fetches, Answer(since) \/ AnswerFails(since)
      PROVE  UNCHANGED <<row, blind>>
    BY <1>6 DEF Answer, AnswerFails
<1>7. ASSUME NEW b \in wire, DeliverNothing(b) \/ \E r \in Run : Deliver(b, r)
      PROVE  UNCHANGED <<row, blind>>
    BY <1>7 DEF DeliverNothing, Deliver
<1>8. ASSUME NEW r \in Run, Acknowledge(r)
      PROVE  AckedIsHandled'
    <2>1. row' \in {row, [row EXCEPT ![Current(r)] = "acknowledged"]} /\ blind' = blind
        BY <1>8 DEF Acknowledge
    <2>2. Handled(Current(r))
        BY <1>8 DEF Acknowledge, At, ReceiveInv, RunsKnow, KnowsItsMessage
    <2> QED
        BY <1>2, <1>3, <2>1, <2>2
<1>9. ASSUME NEW r \in Run, ~ Acknowledge(r), RunStepOf(r) \/ AcknowledgementLost(r)
      PROVE  UNCHANGED <<row, blind>>
    BY <1>9 DEF RunStepOf, Skip, ApplySystem, OpenChat, Save, FlagNotified, ShowNotification,
       MarkProcessed, AcknowledgementLost
<1>10. CASE HandlerGivesUp
    <2>1. CASE row' = [row EXCEPT ![push.msg] = "acknowledged"]
               /\ blind' = blind \cup ({push.msg} \ processed)
        <3>1. push.msg \in processed => Handled(push.msg)
            BY <1>1, ProcessedIsHandled
        <3> QED
            BY <1>2, <1>3, <2>1, <3>1
    <2> QED
        BY <1>4, <1>10, <2>1 DEF HandlerGivesUp
<1>11. ASSUME Connect \/ Resume \/ Disconnect \/ Kill \/ Start \/ HandlerDone
      PROVE  UNCHANGED <<row, blind>>
    BY <1>11 DEF Connect, Resume, Disconnect, Kill, Start, HandlerDone
<1>12. CASE UNCHANGED vars
    BY <1>4, <1>12 DEF vars
<1> QED
    BY <1>4, <1>5, <1>6, <1>7, <1>8, <1>9, <1>10, <1>11, <1>12 DEF Next, RelayStep, RelayFault, ClientStep

LEMMA ReceiveInvInit == Init => ReceiveInv
<1> SUFFICES ASSUME Init PROVE ReceiveInv
    OBVIOUS
<1>1. RunsKnow
    BY DEF Init, RunsKnow, KnowsItsMessage, IdleRun
<1>2. ProcessedIsSaved /\ AckedIsHandled
    BY DEF Init, ProcessedIsSaved, AckedIsHandled
<1> QED
    BY <1>1, <1>2, TypeInit DEF ReceiveInv

LEMMA ReceiveInvHolds == Spec => []ReceiveInv
<1>1. ReceiveInv /\ [Next]_vars => ReceiveInv'
    BY TypeKept, RunsKnowKept, ProcessedIsSavedKept, AckedIsHandledKept DEF ReceiveInv
<1> QED
    BY ReceiveInvInit, <1>1, PTL DEF Spec

\* However runs overlap and wherever the app is killed, the relay is told that a
\* message has arrived only when the device has it, except by the push handler
\* that waited five seconds in vain (processEnvelopes, sendDeliveryReceipt).
THEOREM AcknowledgedIsSafe == Spec => []AckedIsHandled
<1>1. ReceiveInv => AckedIsHandled
    BY DEF ReceiveInv
<1> QED
    BY ReceiveInvHolds, <1>1, PTL

\* A chat message marked as processed is in the box, so that skipping a second
\* delivery of it loses nothing (_markProcessed, the check before decryption).
THEOREM ProcessedIsInBox == Spec => []ProcessedIsSaved
<1>1. ReceiveInv => ProcessedIsSaved
    BY DEF ReceiveInv
<1> QED
    BY ReceiveInvHolds, <1>1, PTL
-----------------------------------------------------------------------------
(***************************************************************************)
(* One notification for each message.                                      *)
(***************************************************************************)

\* A run that is about to show a notification has set the flag for its message, the
\* message has not been shown yet, and no other run is about to show it as well; what
\* has been shown keeps its flag, in Hive, over every restart.
ShowsFirst(r) == At(r, "show") => Current(r) \in notified /\ Current(r) \notin shown

ShowsAlone ==
    \A r, q \in Run : At(r, "show") /\ At(q, "show") /\ Current(r) = Current(q) => r = q

ShownIsFlagged == shown \subseteq notified

NoteSound == ShownIsFlagged /\ ShowsAlone /\ \A r \in Run : ShowsFirst(r)

NoteInv == ReceiveTypeOK /\ NoteSound

\* A run that is not about to show something, and leaves the flags of the others.
LEMMA NoteKept ==
    ASSUME NoteInv, shown' = shown, notified \subseteq notified',
           \A r \in Run : At(r, "show")' => runs'[r] = runs[r]
    PROVE  NoteSound'
<1> USE DEF At
<1>1. \A r \in Run : runs'[r] = runs[r] => Current(r)' = Current(r)
    BY DEF Current
<1>2. ShownIsFlagged'
    BY DEF NoteInv, NoteSound, ShownIsFlagged
<1>3. ASSUME NEW r \in Run, runs'[r].pc = "show"
      PROVE  /\ runs[r].pc = "show" /\ Current(r)' = Current(r)
             /\ Current(r) \in notified' /\ Current(r) \notin shown'
    BY <1>1, <1>3 DEF NoteInv, NoteSound, ShowsFirst
<1>4. ShowsAlone'
    <2> SUFFICES ASSUME NEW r \in Run, NEW q \in Run, runs'[r].pc = "show",
                        runs'[q].pc = "show", Current(r)' = Current(q)'
                 PROVE  r = q
        BY DEF ShowsAlone
    <2>1. runs[r].pc = "show" /\ runs[q].pc = "show" /\ Current(r) = Current(q)
        BY <1>3
    <2> QED
        BY <2>1 DEF NoteInv, NoteSound, ShowsAlone
<1>5. ASSUME NEW r \in Run
      PROVE  ShowsFirst(r)'
    <2> SUFFICES ASSUME runs'[r].pc = "show"
                 PROVE  Current(r)' \in notified' /\ Current(r)' \notin shown'
        BY DEF ShowsFirst
    <2>1. Current(r)' = Current(r) /\ Current(r) \in notified' /\ Current(r) \notin shown'
        BY <1>3
    <2> QED
        BY <2>1
<1> QED
    BY <1>2, <1>4, <1>5 DEF NoteSound

\* The flag is not there yet, so that nobody is about to show the message.
LEMMA FlagNotes == ASSUME NoteInv, NEW r \in Run, FlagNotified(r) PROVE NoteSound'
<1> USE DEF At
<1> DEFINE M == Current(r)
<1>1. /\ runs \in [Run -> [pc : RunStep, todo : SUBSET Message, fetched : BOOLEAN,
                          active : BOOLEAN]]
      /\ ShownIsFlagged /\ ShowsAlone /\ \A q \in Run : ShowsFirst(q)
    BY DEF NoteInv, NoteSound, ReceiveTypeOK, ProcessTypeOK
<1>2. M \in Message
    BY CurrentIsOneOfThem DEF FlagNotified, NoteInv, ReceiveTypeOK
<1>3. shown' = shown
    BY DEF FlagNotified, history
<1>4. ASSUME NEW q \in Run \ {r}
      PROVE  runs'[q] = runs[q]
    BY <1>1 DEF FlagNotified
<1>5. CASE ~Wanted(r)
    <2>1. runs'[r].pc = "mark" /\ notified' = notified
        BY <1>1, <1>5 DEF FlagNotified
    <2>2. \A q \in Run : At(q, "show")' => runs'[q] = runs[q]
        BY <1>4, <2>1
    <2> QED
        BY <1>3, <2>1, <2>2, NoteKept
<1>6. CASE Wanted(r)
    <2>1. /\ runs'[r].pc = "show" /\ runs'[r].todo = runs[r].todo
          /\ notified' = notified \cup {M} /\ M \notin notified
        BY <1>1, <1>6 DEF FlagNotified, Wanted
    <2>2. Current(r)' = M
        BY <2>1 DEF Current
    <2>3. M \notin shown
        BY <1>1, <1>2, <2>1 DEF ShownIsFlagged
    <2>4. ASSUME NEW q \in Run \ {r}, runs'[q].pc = "show"
          PROVE  /\ runs[q].pc = "show" /\ Current(q)' = Current(q)
                 /\ Current(q) \in notified /\ Current(q) \notin shown /\ Current(q) # M
        <3>1. runs[q].pc = "show" /\ Current(q)' = Current(q)
            BY <1>4, <2>4 DEF Current
        <3> QED
            BY <1>1, <2>1, <3>1 DEF ShowsFirst
    <2>5. ShownIsFlagged'
        BY <1>1, <1>3, <2>1 DEF ShownIsFlagged
    <2>6. ShowsAlone'
        <3> SUFFICES ASSUME NEW p \in Run, NEW q \in Run, runs'[p].pc = "show",
                            runs'[q].pc = "show", Current(p)' = Current(q)'
                     PROVE  p = q
            BY DEF ShowsAlone
        <3>1. CASE p = r
            BY <2>2, <2>4, <3>1
        <3>2. CASE q = r
            BY <2>2, <2>4, <3>2
        <3>3. CASE p # r /\ q # r
            <4>1. runs[p].pc = "show" /\ runs[q].pc = "show" /\ Current(p) = Current(q)
                BY <2>4, <3>3
            <4> QED
                BY <1>1, <4>1 DEF ShowsAlone
        <3> QED
            BY <3>1, <3>2, <3>3
    <2>7. ASSUME NEW q \in Run
          PROVE  ShowsFirst(q)'
        <3> SUFFICES ASSUME runs'[q].pc = "show"
                     PROVE  Current(q)' \in notified' /\ Current(q)' \notin shown'
            BY DEF ShowsFirst
        <3>1. CASE q = r
            BY <1>3, <2>1, <2>2, <2>3, <3>1
        <3>2. CASE q # r
            BY <1>3, <2>1, <2>4, <3>2
        <3> QED
            BY <3>1, <3>2
    <2> QED
        BY <2>5, <2>6, <2>7 DEF NoteSound
<1> QED
    BY <1>5, <1>6

\* What is shown had not been shown, and nobody else is about to show it.
LEMMA ShowNotes == ASSUME NoteInv, NEW r \in Run, ShowNotification(r) PROVE NoteSound'
<1> USE DEF At
<1> DEFINE M == Current(r)
<1>1. /\ runs \in [Run -> [pc : RunStep, todo : SUBSET Message, fetched : BOOLEAN,
                          active : BOOLEAN]]
      /\ ShownIsFlagged /\ ShowsAlone /\ \A q \in Run : ShowsFirst(q)
    BY DEF NoteInv, NoteSound, ReceiveTypeOK, ProcessTypeOK
<1>2. M \in Message /\ runs[r].pc = "show"
    BY CurrentIsOneOfThem DEF ShowNotification, NoteInv, ReceiveTypeOK
<1>3. M \in notified /\ M \notin shown
    BY <1>1, <1>2 DEF ShowsFirst
<1>4. shown' = shown \cup {M} /\ notified' = notified
    BY <1>1, <1>2, <1>3 DEF ShowNotification, storeVars
<1>5. runs'[r].pc = "mark"
    BY <1>1 DEF ShowNotification, Go
<1>6. ASSUME NEW q \in Run, runs'[q].pc = "show"
      PROVE  /\ runs[q].pc = "show" /\ Current(q)' = Current(q)
             /\ Current(q) \in notified /\ Current(q) \notin shown'
    <2>1. q # r
        BY <1>5, <1>6
    <2>2. runs'[q] = runs[q]
        BY <1>1, <2>1 DEF ShowNotification, Go
    <2>3. runs[q].pc = "show" /\ Current(q)' = Current(q)
        BY <1>6, <2>2 DEF Current
    <2>4. Current(q) # M
        BY <1>1, <1>2, <2>1, <2>3 DEF ShowsAlone
    <2>5. Current(q) \in notified /\ Current(q) \notin shown
        BY <1>1, <2>3 DEF ShowsFirst
    <2>6. Current(q) \in Message
        BY <2>3, CurrentIsOneOfThem DEF NoteInv, ReceiveTypeOK
    <2> QED
        BY <1>1, <1>4, <2>3, <2>4, <2>5, <2>6
<1>7. ShownIsFlagged'
    BY <1>1, <1>3, <1>4 DEF ShownIsFlagged
<1>8. ShowsAlone'
    <2> SUFFICES ASSUME NEW p \in Run, NEW q \in Run, runs'[p].pc = "show",
                        runs'[q].pc = "show", Current(p)' = Current(q)'
                 PROVE  p = q
        BY DEF ShowsAlone
    <2>1. runs[p].pc = "show" /\ runs[q].pc = "show" /\ Current(p) = Current(q)
        BY <1>6
    <2> QED
        BY <1>1, <2>1 DEF ShowsAlone
<1>9. ASSUME NEW q \in Run
      PROVE  ShowsFirst(q)'
    <2> SUFFICES ASSUME runs'[q].pc = "show"
                 PROVE  Current(q)' \in notified' /\ Current(q)' \notin shown'
        BY DEF ShowsFirst
    <2>1. Current(q)' = Current(q) /\ Current(q) \in notified /\ Current(q) \notin shown'
        BY <1>6
    <2> QED
        BY <1>4, <2>1
<1> QED
    BY <1>7, <1>8, <1>9 DEF NoteSound

LEMMA NoteSoundKept == ASSUME NoteInv, [Next]_vars PROVE NoteSound'
<1> USE DEF storeVars, history
<1>1. /\ NoteSound
      /\ runs \in [Run -> [pc : RunStep, todo : SUBSET Message, fetched : BOOLEAN,
                          active : BOOLEAN]]
    BY DEF NoteInv, ReceiveTypeOK, ProcessTypeOK
<1>2. CASE shown' = shown /\ notified \subseteq notified' /\ runs' = runs
    BY <1>2, NoteKept
<1>3. ASSUME NEW m \in Message, Store(m) \/ StoreAgain(m) \/ Emit(m)
      PROVE  shown' = shown /\ notified \subseteq notified' /\ runs' = runs
    BY <1>3 DEF Store, StoreAgain, Emit
<1>4. ASSUME NEW m \in Message, WakeUp(m)
      PROVE  NoteSound'
    <2>1. \A r \in Run : runs'[r].pc = "idle"
        BY <1>4 DEF WakeUp, NoteInv, ReceiveTypeOK, ProcessTypeOK, IdleRun
    <2>2. ShownIsFlagged'
        BY <1>1, <1>4 DEF WakeUp, NoteSound, ShownIsFlagged
    <2> QED
        BY <2>1, <2>2 DEF NoteSound, ShowsAlone, ShowsFirst, At
<1>5. ASSUME NEW since \in fetches, Answer(since) \/ AnswerFails(since)
      PROVE  UNCHANGED <<shown, notified, runs>>
    BY <1>5 DEF Answer, AnswerFails
<1>6. ASSUME NEW b \in wire, DeliverNothing(b)
      PROVE  UNCHANGED <<shown, notified, runs>>
    BY <1>6 DEF DeliverNothing
<1>7. ASSUME NEW b \in wire, NEW r \in Run, Deliver(b, r)
      PROVE  NoteSound'
    <2>1. /\ runs'[r].pc = "next" /\ UNCHANGED <<shown, notified>>
          /\ \A q \in Run \ {r} : runs'[q] = runs[q]
        BY <1>1, <1>7 DEF Deliver
    <2> QED
        BY <2>1, NoteKept DEF At
<1>8. ASSUME NEW r \in Run, Skip(r) \/ ApplySystem(r) \/ OpenChat(r) \/ Save(r) \/ MarkProcessed(r)
      PROVE  NoteSound'
    <2>1. runs'[r].pc # "show" /\ UNCHANGED <<shown, notified>>
        <3>1. CASE Skip(r)
            BY <1>1, <3>1 DEF Skip, Go
        <3>2. CASE ApplySystem(r)
            BY <1>1, <3>2 DEF ApplySystem, Go
        <3>3. CASE OpenChat(r)
            BY <1>1, <3>3 DEF OpenChat, Go
        <3>4. CASE Save(r)
            BY <1>1, <3>4 DEF Save, Go
        <3>5. CASE MarkProcessed(r)
            BY <1>1, <3>5 DEF MarkProcessed, Go
        <3> QED
            BY <1>8, <3>1, <3>2, <3>3, <3>4, <3>5
    <2>2. \A q \in Run \ {r} : runs'[q] = runs[q]
        BY <1>8, OnlyItself DEF RunStepOf, NoteInv
    <2> QED
        BY <2>1, <2>2, NoteKept DEF At
<1>9. ASSUME NEW r \in Run, Acknowledge(r) \/ AcknowledgementLost(r)
      PROVE  NoteSound'
    <2>1. runs'[r].pc # "show" /\ UNCHANGED <<shown, notified>>
        BY <1>1, <1>9 DEF Acknowledge, AcknowledgementLost, NextEnvelope, IdleRun
    <2>2. \A q \in Run \ {r} : runs'[q] = runs[q]
        BY <1>9, OnlyItself DEF RunStepOf, NoteInv
    <2> QED
        BY <2>1, <2>2, NoteKept DEF At
<1>10. ASSUME NEW r \in Run, FlagNotified(r) \/ ShowNotification(r)
      PROVE  NoteSound'
    BY <1>10, FlagNotes, ShowNotes
<1>11. CASE Kill \/ HandlerDone
    <2>1. (\A r \in Run : runs'[r].pc = "idle") /\ UNCHANGED <<shown, notified>>
        BY <1>11 DEF Kill, HandlerDone, Ends, IdleRun
    <2> QED
        BY <2>1, NoteKept DEF At
<1>12. CASE Connect \/ Resume \/ Disconnect \/ Start \/ HandlerGivesUp
    BY <1>2, <1>12 DEF Connect, Resume, Disconnect, Start, HandlerGivesUp
<1>13. CASE UNCHANGED vars
    BY <1>2, <1>13 DEF vars
<1> QED
    BY <1>2, <1>3, <1>4, <1>5, <1>6, <1>7, <1>8, <1>9, <1>10, <1>11, <1>12, <1>13
       DEF Next, RelayStep, RelayFault, ClientStep, RunStepOf

\* However often a message arrives, over the socket or in an inbox, in however many
\* runs at once and over however many restarts, the app shows no notification for a
\* message it has shown one for, nor for one whose push has woken it (the flag
\* notified_<id>, read and written without an await).
THEOREM AppShowsOnce == Spec => []AppNotifiesOnce
<1>1. Init => NoteSound
    <2> SUFFICES ASSUME Init PROVE NoteSound
        OBVIOUS
    <2> QED
        BY DEF Init, NoteSound, ShownIsFlagged, ShowsAlone, ShowsFirst, At, IdleRun
<1>2. ReceiveTypeOK /\ NoteSound /\ [Next]_vars => NoteSound'
    BY NoteSoundKept DEF NoteInv
<1>3. NoteSound => AppNotifiesOnce
    BY DEF NoteSound, AppNotifiesOnce, ShowsFirst
<1> QED
    BY ReceiveTypeCorrect, <1>1, <1>2, <1>3, PTL DEF Spec
=============================================================================
