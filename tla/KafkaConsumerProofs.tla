------------------------- MODULE KafkaConsumerProofs -------------------------
(***************************************************************************)
(* Proofs about KafkaConsumer, for every group of members, every set of    *)
(* topics, and any number of failed sends, crashes and evictions.          *)
(***************************************************************************)
EXTENDS KafkaConsumer, TLAPS

-----------------------------------------------------------------------------
(* Type correctness.                                                       *)

(* A handler that completes keeps every variable it touches well typed. *)
LEMMA FinishTypes ==
  ASSUME ConsumerTypeOK, NEW m \in Members, stage[m] # "idle", Finish(m),
         background' \subseteq [member : Members, message : Messages],
         handled' \subseteq Messages, parked' \subseteq Messages
  PROVE  ConsumerTypeOK'
<1> PICK x \in Messages : x = message[m]
  BY DEF ConsumerTypeOK
<1>1. x.topic \in Topics /\ x.offset + 1 \in 0 .. Length
  BY ConsumerBounds DEF Messages
<1>2. position' \in [Members -> [Topics -> 0 .. Length]]
  BY <1>1 DEF ConsumerTypeOK, Finish
<1>3. stage' = [stage EXCEPT ![m] = "idle"] /\ message' = [message EXCEPT ![m] = NoMessage]
  BY DEF Finish, Rest, Enter
<1>4. /\ stage' \in [Members -> Stages]
      /\ message' \in [Members -> Messages \cup {NoMessage}]
      /\ \A n \in Members : stage'[n] # "idle" => message'[n] \in Messages
  BY <1>3 DEF ConsumerTypeOK, Stages
<1> QED
  BY <1>2, <1>4 DEF ConsumerTypeOK, Finish, count

(* So does a consumer that stops. *)
LEMMA StopTypes ==
  ASSUME ConsumerTypeOK, NEW m \in Members, Stop(m),
         background' \subseteq [member : Members, message : Messages],
         UNCHANGED outcome
  PROVE  ConsumerTypeOK'
<1>1. stage' = [stage EXCEPT ![m] = "idle"] /\ message' = [message EXCEPT ![m] = NoMessage]
  BY DEF Stop, Rest, Enter
<1>2. committed' \in [Topics -> 0 .. Length]
  BY DEF ConsumerTypeOK, Stop
<1>3. owner' \in [Topics -> Members \cup {Nobody}]
  BY DEF ConsumerTypeOK, Stop, Disown
<1> QED
  BY <1>1, <1>2, <1>3 DEF ConsumerTypeOK, Stop, Stages, count, outcome

(* Every step keeps every variable well typed. *)
LEMMA ConsumerTypeOKNext ==
  ASSUME ConsumerTypeOK, [ConsumerNext]_consumerVars
  PROVE  ConsumerTypeOK'
<1>1. ASSUME NEW m \in Members, NEW t \in Topics, Take(m, t)
      PROVE  ConsumerTypeOK'
  <2> PICK x : x = [topic |-> t, offset |-> position[m][t]]
    OBVIOUS
  <2>1. position[m][t] \in 0 .. Length /\ Sent[t] \in 0 .. Length
    BY ConsumerBounds DEF ConsumerTypeOK
  <2>2. x \in Messages
    BY <1>1, <2>1, ConsumerBounds DEF Messages, Take
  <2> QED
    BY <1>1, <2>2 DEF ConsumerTypeOK, Take, Enter, Stages, group, outcome, count
<1>2. ASSUME NEW m \in Members, Handle(m) PROVE ConsumerTypeOK'
  BY <1>2, FinishTypes DEF ConsumerTypeOK, Handle
<1>3. ASSUME NEW m \in Members, Reject(m) \/ Fail(m) \/ RejectFails(m)
      PROVE  ConsumerTypeOK'
  BY <1>3 DEF ConsumerTypeOK, Reject, Fail, RejectFails, Enter, Stages, group,
              outcome, count
<1>4. ASSUME NEW m \in Members, Park(m) PROVE ConsumerTypeOK'
  BY <1>4, FinishTypes DEF ConsumerTypeOK, Park
<1>5. ASSUME NEW m \in Members, ParkFails(m) PROVE ConsumerTypeOK'
  BY <1>5, StopTypes DEF ConsumerTypeOK, ParkFails
<1>6. ASSUME NEW b \in background, SettleLate(b) PROVE ConsumerTypeOK'
  BY <1>6 DEF ConsumerTypeOK, SettleLate, group, count
<1>7. ASSUME NEW m \in Members, NEW t \in Topics, Commit(m, t) \/ Assign(t, m)
      PROVE  ConsumerTypeOK'
  <2>1. CASE Commit(m, t)
    <3>1. position[m][t] \in 0 .. Length
      BY DEF ConsumerTypeOK
    <3> QED
      BY <2>1, <3>1 DEF ConsumerTypeOK, Commit, outcome, count
  <2>2. CASE Assign(t, m)
    <3>1. committed[t] \in 0 .. Length
      BY DEF ConsumerTypeOK
    <3>2. position' \in [Members -> [Topics -> 0 .. Length]]
      BY <2>2, <3>1 DEF ConsumerTypeOK, Assign
    <3> QED
      BY <2>2, <3>2 DEF ConsumerTypeOK, Assign, outcome, count
  <2> QED
    BY <1>7, <2>1, <2>2
<1>8. ASSUME NEW m \in Members, Evict(m) PROVE ConsumerTypeOK'
  BY <1>8, ConsumerBounds DEF ConsumerTypeOK, Evict, Disown, outcome
<1>9. ASSUME NEW m \in Members, Die(m) PROVE ConsumerTypeOK'
  BY <1>9, ConsumerBounds
  DEF ConsumerTypeOK, Die, Disown, Rest, Enter, Stages, outcome
<1>10. ASSUME NEW m \in Members, Restart(m) PROVE ConsumerTypeOK'
  BY <1>10 DEF ConsumerTypeOK, Restart, group, outcome, count
<1>11. CASE UNCHANGED consumerVars
  BY <1>11 DEF ConsumerTypeOK, consumerVars, group, outcome, count
<1> QED
  BY <1>1, <1>2, <1>3, <1>4, <1>5, <1>6, <1>7, <1>8, <1>9, <1>10, <1>11
  DEF ConsumerNext, Work

(* Every variable of the consumer group keeps its type. *)
THEOREM ConsumerTypeCorrectness == ConsumerSpec => []ConsumerTypeOK
<1>1. ConsumerInit => ConsumerTypeOK
  BY ConsumerBounds DEF ConsumerInit, ConsumerTypeOK, Stages
<1> QED
  BY <1>1, ConsumerTypeOKNext, PTL DEF ConsumerSpec

-----------------------------------------------------------------------------
(* The inductive invariant.                                                *)

(* What is settled stays settled. *)
LEMMA SettledGrows ==
  ASSUME [ConsumerNext]_consumerVars
  PROVE  /\ Settled \subseteq Settled'
         /\ \A t, n : SettledUpTo(t, n) => SettledUpTo(t, n)'
<1>1. handled \subseteq handled' /\ parked \subseteq parked'
  BY DEF ConsumerNext, Work, Take, Handle, Reject, Fail, Park, RejectFails,
         ParkFails, SettleLate, Commit, Assign, Evict, Die, Restart, outcome,
         consumerVars
<1> QED
  BY <1>1 DEF Settled, SettledUpTo

(* A step that neither moves an offset nor gives a topic to anybody keeps  *)
(* the invariant, when the members that are still busy go on with the same *)
(* message; a topic may lose its owner only in an eviction, or with its    *)
(* owner at rest.                                                          *)
LEMMA QuietStep ==
  ASSUME ConsumerTypeOK, ConsumerInv, [ConsumerNext]_consumerVars,
         committed' = committed, position' = position,
         \A t \in Topics : owner'[t] \in {owner[t], Nobody},
         \A n \in Members : stage'[n] # "idle" =>
           stage[n] # "idle" /\ message'[n] = message[n],
         evictions' = 0 =>
           /\ evictions = 0
           /\ \A n \in Members, t \in Topics :
                stage'[n] # "idle" /\ owner[t] = n => owner'[t] = n
  PROVE  ConsumerInv'
<1>1. \A t, n : SettledUpTo(t, n) => SettledUpTo(t, n)'
  BY SettledGrows
<1>2. CommittedIsSettled'
  BY <1>1 DEF ConsumerInv, CommittedIsSettled
<1>3. HandledInOrder'
  BY <1>1 DEF ConsumerInv, HandledInOrder
<1>4. ASSUME NEW m \in Members, NEW t \in Topics, owner'[t] = m
      PROVE  /\ committed'[t] <= position'[m][t]
             /\ SettledUpTo(t, position[m][t])'
             /\ stage'[m] # "idle" /\ message'[m].topic = t =>
                  message'[m].offset = position'[m][t]
  <2>1. owner[t] = m
    BY <1>4, ConsumerNulls
  <2> QED
    BY <2>1, <1>1 DEF ConsumerInv
<1>5. ASSUME evictions' = 0, NEW m \in Members, stage'[m] # "idle"
      PROVE  owner'[message'[m].topic] = m
  <2>1. message[m].topic \in Topics /\ owner[message[m].topic] = m
    BY <1>5 DEF ConsumerInv, ConsumerTypeOK, Messages
  <2> QED
    BY <1>5, <2>1
<1> QED
  BY <1>2, <1>3, <1>4, <1>5 DEF ConsumerInv

(* A member that takes a message takes the one its topic has come to. *)
LEMMA TakeInv ==
  ASSUME ConsumerTypeOK, ConsumerInv, [ConsumerNext]_consumerVars,
         NEW m \in Members, NEW t \in Topics, Take(m, t)
  PROVE  ConsumerInv'
<1> PICK x : x = [topic |-> t, offset |-> position[m][t]]
  OBVIOUS
<1>1. /\ stage' = [stage EXCEPT ![m] = "handling"]
      /\ message' = [message EXCEPT ![m] = x]
      /\ owner' = owner /\ committed' = committed /\ position' = position
      /\ evictions' = evictions
  BY DEF Take, Enter, group, count
<1>2. \A u, n : SettledUpTo(u, n) => SettledUpTo(u, n)'
  BY SettledGrows
<1>3. owner[t] = m /\ SettledUpTo(t, position[m][t])'
  BY <1>1, <1>2 DEF Take, ConsumerInv
<1>4. CommittedIsSettled'
  BY <1>1, <1>2 DEF ConsumerInv, CommittedIsSettled
<1>5. ASSUME NEW n \in Members
      PROVE  /\ stage'[n] = IF n = m THEN "handling" ELSE stage[n]
             /\ message'[n] = IF n = m THEN x ELSE message[n]
  BY <1>1 DEF ConsumerTypeOK
<1>6. HandledInOrder'
  BY <1>1, <1>2, <1>3, <1>5 DEF ConsumerInv, HandledInOrder
<1> QED
  BY <1>1, <1>2, <1>3, <1>4, <1>5, <1>6 DEF ConsumerInv

(* A handler that completes has settled its message, so that its topic may *)
(* advance by one.                                                         *)
LEMMA FinishInv ==
  ASSUME ConsumerTypeOK, ConsumerInv, [ConsumerNext]_consumerVars,
         NEW m \in Members, stage[m] # "idle", Finish(m),
         message[m] \in Settled'
  PROVE  ConsumerInv'
<1> PICK x \in Messages : x = message[m]
  BY DEF ConsumerTypeOK
<1>1. /\ stage' = [stage EXCEPT ![m] = "idle"]
      /\ message' = [message EXCEPT ![m] = NoMessage]
      /\ owner' = owner /\ committed' = committed /\ evictions' = evictions
  BY DEF Finish, Rest, Enter, count
<1>2. \A u, n : SettledUpTo(u, n) => SettledUpTo(u, n)'
  BY SettledGrows
<1>3. x.topic \in Topics /\ x.offset \in Nat
  BY ConsumerBounds DEF Messages
<1>4. SettledUpTo(x.topic, x.offset + 1)'
  <2> SUFFICES ASSUME NEW y \in Messages, y.topic = x.topic,
                      y.offset < x.offset + 1
               PROVE  y \in Settled'
    BY DEF SettledUpTo
  <2>1. CASE y.offset = x.offset
    <3>1. y = x
      BY <2>1 DEF Messages
    <3> QED
      BY <3>1
  <2>2. CASE y.offset < x.offset
    BY <2>2, <1>2 DEF ConsumerInv, HandledInOrder, SettledUpTo
  <2> QED
    BY <2>1, <2>2, <1>3, ConsumerBounds DEF Messages
<1>5. CommittedIsSettled'
  BY <1>1, <1>2 DEF ConsumerInv, CommittedIsSettled
<1>6. ASSUME NEW n \in Members, stage'[n] # "idle"
      PROVE  n # m /\ stage[n] # "idle" /\ message'[n] = message[n]
  BY <1>1, <1>6 DEF ConsumerTypeOK
<1>7. HandledInOrder'
  BY <1>2, <1>6 DEF ConsumerInv, HandledInOrder
<1>8. ASSUME NEW n \in Members, NEW t \in Topics, owner'[t] = n
      PROVE  /\ committed'[t] <= position'[n][t]
             /\ SettledUpTo(t, position[n][t])'
             /\ stage'[n] # "idle" /\ message'[n].topic = t =>
                  message'[n].offset = position'[n][t]
  <2>1. CASE n = m /\ t = x.topic
    <3>1. position'[n][t] = x.offset + 1
      BY <1>1, <1>8, <2>1 DEF Finish, ConsumerTypeOK
    <3>2. x.offset = position[m][t] /\ committed[t] <= position[m][t]
      BY <1>1, <1>8, <2>1 DEF ConsumerInv
    <3>3. committed[t] \in Nat
      BY ConsumerBounds DEF ConsumerTypeOK
    <3> QED
      BY <1>1, <1>3, <1>4, <1>6, <2>1, <3>1, <3>2, <3>3
  <2>2. CASE ~ (n = m /\ t = x.topic)
    <3>1. position'[n][t] = position[n][t]
      BY <1>3, <2>2 DEF Finish, ConsumerTypeOK
    <3> QED
      BY <1>1, <1>2, <1>6, <1>8, <3>1 DEF ConsumerInv
  <2> QED
    BY <2>1, <2>2
<1>9. ASSUME evictions' = 0, NEW n \in Members, stage'[n] # "idle"
      PROVE  owner'[message'[n].topic] = n
  BY <1>1, <1>6, <1>9 DEF ConsumerInv
<1> QED
  BY <1>5, <1>7, <1>8, <1>9 DEF ConsumerInv

(* A consumer that stops commits no more than it has finished. *)
LEMMA StopInv ==
  ASSUME ConsumerTypeOK, ConsumerInv, [ConsumerNext]_consumerVars,
         NEW m \in Members, Stop(m)
  PROVE  ConsumerInv'
<1>1. /\ stage' = [stage EXCEPT ![m] = "idle"]
      /\ message' = [message EXCEPT ![m] = NoMessage]
      /\ owner' = [t \in Topics |-> IF owner[t] = m THEN Nobody ELSE owner[t]]
      /\ committed' = [t \in Topics |-> IF owner[t] = m THEN position[m][t]
                                                        ELSE committed[t]]
      /\ position' = position /\ evictions' = evictions
  BY DEF Stop, Disown, Rest, Enter, count
<1>2. \A u, n : SettledUpTo(u, n) => SettledUpTo(u, n)'
  BY SettledGrows
<1>3. CommittedIsSettled'
  BY <1>1, <1>2 DEF ConsumerInv, CommittedIsSettled
<1>4. ASSUME NEW n \in Members, stage'[n] # "idle"
      PROVE  n # m /\ stage[n] # "idle" /\ message'[n] = message[n]
  BY <1>1, <1>4 DEF ConsumerTypeOK
<1>5. HandledInOrder'
  BY <1>2, <1>4 DEF ConsumerInv, HandledInOrder
<1>6. ASSUME NEW n \in Members, NEW t \in Topics, owner'[t] = n
      PROVE  /\ committed'[t] <= position'[n][t]
             /\ SettledUpTo(t, position[n][t])'
             /\ stage'[n] # "idle" /\ message'[n].topic = t =>
                  message'[n].offset = position'[n][t]
  <2>1. owner[t] = n /\ n # m
    BY <1>1, <1>6, ConsumerNulls
  <2> QED
    BY <1>1, <1>2, <1>4, <2>1 DEF ConsumerInv
<1>7. ASSUME evictions' = 0, NEW n \in Members, stage'[n] # "idle"
      PROVE  owner'[message'[n].topic] = n
  <2>1. /\ n # m /\ message'[n] = message[n] /\ message[n].topic \in Topics
        /\ owner[message[n].topic] = n
    BY <1>1, <1>4, <1>7 DEF ConsumerInv, ConsumerTypeOK, Messages
  <2> QED
    BY <1>1, <2>1
<1> QED
  BY <1>3, <1>5, <1>6, <1>7 DEF ConsumerInv

(* A commit, or an assignment, moves an offset to where all is settled. *)
LEMMA GroupInv ==
  ASSUME ConsumerTypeOK, ConsumerInv, [ConsumerNext]_consumerVars,
         NEW m \in Members, NEW t \in Topics, Commit(m, t) \/ Assign(t, m)
  PROVE  ConsumerInv'
<1>1. \A u, n : SettledUpTo(u, n) => SettledUpTo(u, n)'
  BY SettledGrows
<1>2. stage' = stage /\ message' = message /\ evictions' = evictions /\ stage[m] = "idle"
  BY DEF Commit, Assign, count
<1>3. HandledInOrder'
  BY <1>1, <1>2 DEF ConsumerInv, HandledInOrder
<1>4. CASE Commit(m, t)
  <2>1. /\ owner' = owner /\ position' = position /\ owner[t] = m
        /\ committed' = [committed EXCEPT ![t] = position[m][t]]
    BY <1>4 DEF Commit
  <2>2. CommittedIsSettled'
    BY <1>1, <2>1 DEF ConsumerInv, CommittedIsSettled, ConsumerTypeOK
  <2>3. position[m][t] <= position[m][t]
    BY ConsumerBounds DEF ConsumerTypeOK
  <2> QED
    BY <1>1, <1>2, <1>3, <2>1, <2>2, <2>3 DEF ConsumerInv, ConsumerTypeOK
<1>5. CASE Assign(t, m)
  <2>1. /\ owner' = [owner EXCEPT ![t] = m] /\ committed' = committed
        /\ position' = [position EXCEPT ![m][t] = committed[t]]
        /\ owner[t] = Nobody
    BY <1>5 DEF Assign
  <2>2. CommittedIsSettled'
    BY <1>1, <2>1 DEF ConsumerInv, CommittedIsSettled
  <2>3. committed[t] <= committed[t]
    BY ConsumerBounds DEF ConsumerTypeOK
  <2>4. ASSUME NEW n \in Members, NEW u \in Topics, owner'[u] = n
        PROVE  /\ committed'[u] <= position'[n][u]
               /\ SettledUpTo(u, position[n][u])'
               /\ stage'[n] # "idle" /\ message'[n].topic = u =>
                    message'[n].offset = position'[n][u]
    <3>1. CASE u = t
      <4>1. n = m /\ position'[n][u] = committed[t]
        BY <2>1, <2>4, <3>1 DEF ConsumerTypeOK
      <4>2. SettledUpTo(t, committed[t])'
        BY <1>1, <2>1 DEF ConsumerInv, CommittedIsSettled
      <4> QED
        BY <1>2, <2>1, <2>3, <3>1, <4>1, <4>2
    <3>2. CASE u # t
      <4>1. owner[u] = n /\ position'[n][u] = position[n][u]
        BY <2>1, <2>4, <3>2 DEF ConsumerTypeOK
      <4> QED
        BY <1>1, <1>2, <2>1, <4>1 DEF ConsumerInv
    <3> QED
      BY <3>1, <3>2
  <2>5. ASSUME evictions' = 0, NEW n \in Members, stage'[n] # "idle"
        PROVE  owner'[message'[n].topic] = n
    <3>1. message[n].topic \in Topics /\ owner[message[n].topic] = n
      BY <1>2, <2>5 DEF ConsumerInv, ConsumerTypeOK, Messages
    <3>2. message[n].topic # t
      BY <2>1, <3>1, ConsumerNulls
    <3> QED
      BY <1>2, <2>1, <3>1, <3>2 DEF ConsumerTypeOK
  <2> QED
    BY <1>3, <2>2, <2>4, <2>5 DEF ConsumerInv
<1> QED
  BY <1>4, <1>5

(* Every step preserves the invariant. *)
LEMMA ConsumerInvNext ==
  ASSUME ConsumerTypeOK, ConsumerInv, [ConsumerNext]_consumerVars
  PROVE  ConsumerInv'
<1>1. ASSUME NEW m \in Members, NEW t \in Topics, Take(m, t) PROVE ConsumerInv'
  BY <1>1, TakeInv
<1>2. ASSUME NEW m \in Members, Handle(m) \/ Park(m) PROVE ConsumerInv'
  <2>1. /\ stage[m] # "idle" /\ Finish(m) /\ message[m] \in Settled'
    BY <1>2 DEF Handle, Park, Settled
  <2> QED
    BY <2>1, FinishInv
<1>3. ASSUME NEW m \in Members, Reject(m) \/ Fail(m) \/ RejectFails(m)
      PROVE  ConsumerInv'
  BY <1>3, QuietStep
  DEF Reject, Fail, RejectFails, Enter, group, count, ConsumerTypeOK
<1>4. ASSUME NEW m \in Members, ParkFails(m) PROVE ConsumerInv'
  BY <1>4, StopInv DEF ParkFails
<1>5. ASSUME NEW b \in background, SettleLate(b) PROVE ConsumerInv'
  BY <1>5, QuietStep DEF SettleLate, group, count
<1>6. ASSUME NEW m \in Members, NEW t \in Topics, Commit(m, t) \/ Assign(t, m)
      PROVE  ConsumerInv'
  BY <1>6, GroupInv
<1>7. ASSUME NEW m \in Members, Evict(m) PROVE ConsumerInv'
  <2>1. evictions' # 0
    BY <1>7 DEF Evict, ConsumerTypeOK
  <2> QED
    BY <1>7, <2>1, QuietStep DEF Evict, Disown
<1>8. ASSUME NEW m \in Members, Die(m) PROVE ConsumerInv'
  BY <1>8, QuietStep DEF Die, Disown, Rest, Enter, ConsumerTypeOK
<1>9. ASSUME NEW m \in Members, Restart(m) PROVE ConsumerInv'
  BY <1>9, QuietStep DEF Restart, group, count
<1>10. CASE UNCHANGED consumerVars
  BY <1>10, QuietStep DEF consumerVars, group, count
<1> QED
  BY <1>1, <1>2, <1>3, <1>4, <1>5, <1>6, <1>7, <1>8, <1>9, <1>10
  DEF ConsumerNext, Work

(* The inductive invariant holds in every reachable state. *)
THEOREM ConsumerInvariant == ConsumerSpec => [](ConsumerTypeOK /\ ConsumerInv)
<1>1. ConsumerInit => ConsumerInv
  <2> SUFFICES ASSUME ConsumerInit PROVE ConsumerInv
    OBVIOUS
  <2>1. \A t \in Topics : committed[t] = 0 /\ owner[t] = Nobody /\ SettledUpTo(t, 0)
    BY ConsumerBounds DEF ConsumerInit, SettledUpTo, Messages
  <2>2. \A m \in Members : stage[m] = "idle"
    BY DEF ConsumerInit
  <2> QED
    BY <2>1, <2>2, ConsumerNulls DEF ConsumerInv, CommittedIsSettled, HandledInOrder
<1>2. ConsumerTypeOK /\ ConsumerInv /\ [ConsumerNext]_consumerVars =>
        ConsumerTypeOK' /\ ConsumerInv'
  BY ConsumerTypeOKNext, ConsumerInvNext
<1> QED
  BY <1>1, <1>2, ConsumerTypeCorrectness, PTL DEF ConsumerSpec

-----------------------------------------------------------------------------
(* The safety properties.                                                  *)

(* No message is lost: what the group will not read again is settled. *)
THEOREM MessagesAreNotLost == ConsumerSpec => []CommittedIsSettled
<1>1. ConsumerInv => CommittedIsSettled
  BY DEF ConsumerInv
<1> QED
  BY <1>1, ConsumerInvariant, PTL

(* No message overtakes another of its topic. *)
THEOREM MessagesAreHandledInOrder == ConsumerSpec => []HandledInOrder
<1>1. ConsumerInv => HandledInOrder
  BY DEF ConsumerInv
<1> QED
  BY <1>1, ConsumerInvariant, PTL

(* A committed offset never goes back. *)
THEOREM OffsetsNeverGoBack == ConsumerSpec => CommitsNeverGoBack
<1>1. ASSUME ConsumerTypeOK, ConsumerInv, [ConsumerNext]_consumerVars,
             NEW t \in Topics
      PROVE  committed'[t] >= committed[t]
  <2>1. committed[t] \in Nat
    BY <1>1, ConsumerBounds DEF ConsumerTypeOK
  <2>2. \/ committed' = committed
        \/ \E m \in Members : Stop(m)
        \/ \E m \in Members, u \in Topics : Commit(m, u)
    BY <1>1 DEF ConsumerNext, Work, Take, Handle, Reject, Fail, Park,
                RejectFails, ParkFails, Finish, SettleLate, Assign, Evict, Die,
                Restart, group, consumerVars
  <2>3. CASE committed' = committed
    BY <2>1, <2>3
  <2>4. ASSUME NEW m \in Members, Stop(m) PROVE committed'[t] >= committed[t]
    <3>1. committed'[t] = IF owner[t] = m THEN position[m][t] ELSE committed[t]
      BY <2>4 DEF Stop
    <3>2. position[m][t] \in Nat
      BY <1>1, ConsumerBounds DEF ConsumerTypeOK
    <3> QED
      BY <1>1, <2>1, <3>1, <3>2 DEF ConsumerInv
  <2>5. ASSUME NEW m \in Members, NEW u \in Topics, Commit(m, u)
        PROVE  committed'[t] >= committed[t]
    <3>1. /\ committed'[t] = IF u = t THEN position[m][t] ELSE committed[t]
          /\ owner[u] = m
      BY <1>1, <2>5 DEF Commit, ConsumerTypeOK
    <3>2. position[m][t] \in Nat
      BY <1>1, ConsumerBounds DEF ConsumerTypeOK
    <3> QED
      BY <1>1, <2>1, <3>1, <3>2 DEF ConsumerInv
  <2> QED
    BY <2>2, <2>3, <2>4, <2>5
<1>2. ConsumerTypeOK /\ ConsumerInv /\ [ConsumerNext]_consumerVars =>
        [\A t \in Topics : committed'[t] >= committed[t]]_committed
  BY <1>1
<1> QED
  BY <1>2, ConsumerInvariant, PTL DEF ConsumerSpec, CommitsNeverGoBack
=============================================================================
