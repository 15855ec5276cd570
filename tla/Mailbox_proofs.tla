---------------------------- MODULE Mailbox_proofs ----------------------------
(***************************************************************************)
(* No wakeup of an auxiliary worker is lost, and the UI is handed the      *)
(* results of its latest request only, each once and in order: for every   *)
(* size of the queue, every number of results and of requests.             *)
(***************************************************************************)
EXTENDS Mailbox, SequenceFacts, TLAPS

Marks ==
  /\ generation \in Nat /\ slot \in Nat /\ job \in Nat /\ asked \in Nat
  /\ slot <= generation /\ job <= generation /\ asked <= generation

Awake == {"take", "filter", "park", "retake", "refilter", "work", "publish", "lock",
          "recheck", "push", "full"}

\* a worker past receive()'s first line can be woken
Registered == worker \in Awake => registered = TRUE

\* a call that has advanced the generation leaves nothing current behind
Superseded ==
  ui \in {"request_clear", "request_slot", "cancel_slot", "cancel_clear"} =>
    closed = TRUE \/ (slot < generation /\ job < generation)

\* a request that arrives after the slot was emptied brings its token along
RequestsTold ==
  worker \in {"filter", "park"} /\ slot # 0 /\ token # TRUE => ui = "wake"

RoomTold ==
  worker = "full" /\ token # TRUE /\ closed # TRUE /\ generation = job /\ Len(results) < Limit =>
    ui = "wake"

Inv == Marks /\ Registered /\ Superseded /\ RequestsTold /\ RoomTold

Facts == closed \in BOOLEAN /\ token \in BOOLEAN /\ registered \in BOOLEAN

LEMMA Initially == Init => Inv /\ Facts
<1> SUFFICES ASSUME Init PROVE Inv /\ Facts
  OBVIOUS
<1> USE MailboxAssumption DEF Init
<1>1. Marks BY DEF Marks
<1>2. Registered BY DEF Registered, Awake
<1>3. Superseded BY DEF Superseded
<1>4. RequestsTold BY DEF RequestsTold
<1>5. RoomTold BY DEF RoomTold
<1>6. Facts BY DEF Facts
<1> QED BY <1>1, <1>2, <1>3, <1>4, <1>5, <1>6 DEF Inv

LEMMA FactsStep == Inv /\ Facts /\ [Next]_vars => Facts'
<1> SUFFICES ASSUME Inv, Facts, [Next]_vars PROVE Facts'
  OBVIOUS
<1> USE DEF Facts
<1>1. CASE Request \/ Cancel \/ Closing
  BY <1>1 DEF Request, Cancel, Closing, Advance, uiVars, workerVars
<1>2. CASE ClearResults \/ ReplaceSlot \/ CancelSlot \/ Close \/ Take \/ Wake
  BY <1>2 DEF ClearResults, ReplaceSlot, CancelSlot, Close, Take, Wake, workerVars
<1>3. CASE CloseTarget \/ StartFails
  BY <1>3 DEF CloseTarget, StartFails, mailbox, uiVars, workerVars
<1>4. CASE Start \/ Loop \/ Filter \/ ParkTimeout \/ Work \/ Panic \/ Publish
  BY <1>4 DEF Start, Loop, Filter, ParkTimeout, Work, Panic, Publish, mailbox, uiVars
<1>5. CASE Register \/ TakeSlot \/ Unpark \/ Lock \/ Recheck \/ Push
  BY <1>5 DEF Register, TakeSlot, Unpark, Lock, Recheck, Push, uiVars
<1>6. CASE UNCHANGED vars BY <1>6 DEF vars, mailbox, uiVars, workerVars
<1> QED BY <1>1, <1>2, <1>3, <1>4, <1>5, <1>6 DEF Next, UICall, WorkerStep, WorkerFails

LEMMA MarksStep == Inv /\ Facts /\ [Next]_vars => Marks'
<1> SUFFICES ASSUME Inv, Facts, [Next]_vars PROVE Marks'
  OBVIOUS
<1> USE DEF Inv, Marks
<1>1. CASE Request BY <1>1 DEF Request, Advance, workerVars
<1>2. CASE Cancel \/ Closing BY <1>2 DEF Cancel, Closing, Advance, uiVars, workerVars
<1>3. CASE ClearResults \/ Close \/ Take \/ Wake \/ CloseTarget
  BY <1>3 DEF ClearResults, Close, Take, Wake, CloseTarget, mailbox, uiVars, workerVars
<1>4. CASE ReplaceSlot \/ CancelSlot \/ TakeSlot
  BY <1>4 DEF ReplaceSlot, CancelSlot, TakeSlot, uiVars, workerVars
<1>5. CASE StartFails \/ Start \/ Loop \/ Filter \/ ParkTimeout
  BY <1>5 DEF StartFails, Start, Loop, Filter, ParkTimeout, mailbox, uiVars
<1>6. CASE Work \/ Panic \/ Publish BY <1>6 DEF Work, Panic, Publish, mailbox, uiVars
<1>7. CASE Register \/ Unpark \/ Lock \/ Recheck \/ Push
  BY <1>7 DEF Register, Unpark, Lock, Recheck, Push, uiVars
<1>8. CASE UNCHANGED vars BY <1>8 DEF vars, mailbox, uiVars, workerVars
<1> QED BY <1>1, <1>2, <1>3, <1>4, <1>5, <1>6, <1>7, <1>8 DEF Next, UICall, WorkerStep,
     WorkerFails

LEMMA RegisteredStep == Inv /\ Facts /\ [Next]_vars => Registered'
<1> SUFFICES ASSUME Inv, Facts, [Next]_vars PROVE Registered'
  OBVIOUS
<1> USE DEF Inv, Facts, Registered, Awake
<1>1. CASE Register BY <1>1 DEF Register, uiVars
<1>2. CASE Request \/ Cancel \/ ClearResults \/ ReplaceSlot \/ CancelSlot \/ Close \/ Take
     \/ Wake \/ CloseTarget
  BY <1>2 DEF Request, Cancel, ClearResults, ReplaceSlot, CancelSlot, Close, Take, Wake,
     CloseTarget, Advance, mailbox, uiVars, workerVars
<1>3. CASE Closing \/ StartFails \/ Start \/ Loop
  BY <1>3 DEF Closing, StartFails, Start, Loop, Advance, mailbox, uiVars
<1>4. CASE TakeSlot \/ Filter \/ Unpark \/ ParkTimeout
  BY <1>4 DEF TakeSlot, Filter, Unpark, ParkTimeout, mailbox, uiVars
<1>5. CASE Work \/ Panic \/ Publish BY <1>5 DEF Work, Panic, Publish, mailbox, uiVars
<1>6. CASE Lock \/ Recheck \/ Push BY <1>6 DEF Lock, Recheck, Push, uiVars
<1>7. CASE UNCHANGED vars BY <1>7 DEF vars, mailbox, uiVars, workerVars
<1> QED BY <1>1, <1>2, <1>3, <1>4, <1>5, <1>6, <1>7 DEF Next, UICall, WorkerStep,
     WorkerFails

LEMMA SupersededStep == Inv /\ Facts /\ [Next]_vars => Superseded'
<1> SUFFICES ASSUME Inv, Facts, [Next]_vars PROVE Superseded'
  OBVIOUS
<1> USE DEF Inv, Facts, Marks, Superseded
<1>1. CASE Request BY <1>1 DEF Request, Advance, workerVars
<1>2. CASE Cancel BY <1>2 DEF Cancel, Advance, workerVars
<1>3. CASE TakeSlot BY <1>3 DEF TakeSlot, uiVars
<1>4. CASE Closing BY <1>4 DEF Closing, Advance, uiVars
<1>5. CASE Loop BY <1>5 DEF Loop, mailbox, uiVars
<1>6. CASE ClearResults \/ ReplaceSlot \/ CancelSlot
  BY <1>6 DEF ClearResults, ReplaceSlot, CancelSlot, workerVars
<1>7. CASE Close \/ Take \/ Wake \/ CloseTarget
  BY <1>7 DEF Close, Take, Wake, CloseTarget, mailbox, uiVars, workerVars
<1>8. CASE StartFails \/ Start \/ Filter \/ ParkTimeout
  BY <1>8 DEF StartFails, Start, Filter, ParkTimeout, mailbox, uiVars
<1>9. CASE Work \/ Panic \/ Publish BY <1>9 DEF Work, Panic, Publish, mailbox, uiVars
<1>10. CASE Register \/ Unpark \/ Lock \/ Recheck \/ Push
  BY <1>10 DEF Register, Unpark, Lock, Recheck, Push, uiVars
<1>11. CASE UNCHANGED vars BY <1>11 DEF vars, mailbox, uiVars, workerVars
<1> QED BY <1>1, <1>2, <1>3, <1>4, <1>5, <1>6, <1>7, <1>8, <1>9, <1>10, <1>11 DEF Next,
     UICall, WorkerStep, WorkerFails

LEMMA RequestsToldStep == Inv /\ Facts /\ [Next]_vars => RequestsTold'
<1> SUFFICES ASSUME Inv, Facts, [Next]_vars PROVE RequestsTold'
  OBVIOUS
<1> USE DEF Inv, Facts, RequestsTold
<1>1. CASE Wake BY <1>1 DEF Wake, workerVars, Registered, Awake
<1>2. CASE ReplaceSlot BY <1>2 DEF ReplaceSlot, workerVars
<1>3. CASE TakeSlot BY <1>3 DEF TakeSlot, uiVars
<1>4. CASE Filter BY <1>4 DEF Filter, mailbox, uiVars
<1>5. CASE Request \/ Cancel \/ ClearResults \/ CancelSlot \/ Close \/ Take \/ CloseTarget
  BY <1>5 DEF Request, Cancel, ClearResults, CancelSlot, Close, Take, CloseTarget, Advance,
     mailbox, uiVars, workerVars
<1>6. CASE Closing \/ StartFails \/ Start \/ Loop
  BY <1>6 DEF Closing, StartFails, Start, Loop, Advance, mailbox, uiVars
<1>7. CASE Unpark \/ ParkTimeout \/ Register
  BY <1>7 DEF Unpark, ParkTimeout, Register, mailbox, uiVars
<1>8. CASE Work \/ Panic \/ Publish BY <1>8 DEF Work, Panic, Publish, mailbox, uiVars
<1>9. CASE Lock \/ Recheck \/ Push BY <1>9 DEF Lock, Recheck, Push, uiVars
<1>10. CASE UNCHANGED vars BY <1>10 DEF vars, mailbox, uiVars, workerVars
<1> QED BY <1>1, <1>2, <1>3, <1>4, <1>5, <1>6, <1>7, <1>8, <1>9, <1>10 DEF Next, UICall,
     WorkerStep, WorkerFails

LEMMA RoomToldStep == Inv /\ Facts /\ [Next]_vars => RoomTold'
<1> SUFFICES ASSUME Inv, Facts, [Next]_vars PROVE RoomTold'
  OBVIOUS
<1> USE DEF Inv, Facts, Marks
<1>1. CASE Request
  <2>1. closed' = TRUE \/ generation' # job'
    BY <1>1 DEF Request, Advance, workerVars
  <2> QED BY <2>1 DEF RoomTold
<1>2. CASE Cancel
  <2>1. closed' = TRUE \/ generation' # job'
    BY <1>2 DEF Cancel, Advance, workerVars
  <2> QED BY <2>1 DEF RoomTold
<1>3. CASE ClearResults
  <2>1. closed' = TRUE \/ generation' # job'
    BY <1>3 DEF ClearResults, Superseded, workerVars
  <2> QED BY <2>1 DEF RoomTold
<1>4. CASE Take BY <1>4 DEF RoomTold, Take, workerVars
<1>5. CASE Wake BY <1>5 DEF RoomTold, Wake, workerVars, Registered, Awake
<1>6. CASE Push BY <1>6 DEF RoomTold, Push, uiVars
<1>7. CASE ReplaceSlot \/ CancelSlot \/ Close \/ CloseTarget
  BY <1>7 DEF RoomTold, ReplaceSlot, CancelSlot, Close, CloseTarget, mailbox, uiVars, workerVars
<1>8. CASE Closing \/ StartFails \/ Start \/ Loop
  BY <1>8 DEF RoomTold, Closing, StartFails, Start, Loop, Advance, mailbox, uiVars
<1>9. CASE Register \/ TakeSlot BY <1>9 DEF RoomTold, Register, TakeSlot, uiVars
<1>10. CASE Filter \/ Unpark \/ ParkTimeout
  BY <1>10 DEF RoomTold, Filter, Unpark, ParkTimeout, mailbox, uiVars
<1>11. CASE Work \/ Panic \/ Publish BY <1>11 DEF RoomTold, Work, Panic, Publish, mailbox, uiVars
<1>12. CASE Lock \/ Recheck BY <1>12 DEF RoomTold, Lock, Recheck, uiVars
<1>13. CASE UNCHANGED vars BY <1>13 DEF RoomTold, vars, mailbox, uiVars, workerVars
<1> QED BY <1>1, <1>2, <1>3, <1>4, <1>5, <1>6, <1>7, <1>8, <1>9, <1>10, <1>11, <1>12, <1>13
     DEF Next, UICall, WorkerStep, WorkerFails

LEMMA InvStep == Inv /\ Facts /\ [Next]_vars => Inv'
BY MarksStep, RegisteredStep, SupersededStep, RequestsToldStep, RoomToldStep DEF Inv

LEMMA Invariance == Spec => [](Inv /\ Facts)
BY Initially, FactsStep, InvStep, PTL DEF Spec

\* A worker asleep in receive() has been told of the request in its slot, or is
\* about to be (worker.rs:85-100, 138-142).
THEOREM RequestWakesWorker == Spec => []NoSleepOnRequest
<1>1. Inv /\ Facts => NoSleepOnRequest
  BY DEF Inv, RequestsTold, Facts, NoSleepOnRequest
<1> QED BY Invariance, <1>1, PTL

\* A worker asleep in publish() has been told of the room the UI made, or is about
\* to be (worker.rs:102-122, 134).
THEOREM RoomWakesWorker == Spec => []NoSleepWithRoom
<1>1. Inv /\ Facts => NoSleepWithRoom
  BY DEF Inv, RoomTold, Facts, NoSleepWithRoom, Current
<1> QED BY Invariance, <1>1, PTL

\* No wakeup is lost, whichever of the two a worker sleeps for.
THEOREM WakeupsArrive == Spec => []NoLostWakeup
BY RequestWakesWorker, RoomWakesWorker, PTL DEF NoLostWakeup
-------------------------------------------------------------------------------
(* What the UI is handed: the queue holds results of one request only, and  *)
(* while that request is current they are those that follow what it has     *)
(* been handed already.                                                     *)

Entries == Nat \X Nat

Bounds ==
  /\ results \in Seq(Entries) /\ received \in Seq(Entries)
  /\ published \in 0..Results /\ generation \in 0..MaxGeneration

\* the request whose results wait, 0 when none do
Held == IF results = <<>> THEN 0 ELSE results[1][1]

Uniform ==
  /\ \A i \in 1..Len(results) : results[i][1] = Held
  /\ Held \in 0..generation /\ (results # <<>> => Held # 0)

Serving == {"work", "publish", "lock", "recheck", "push", "full"}

\* A worker that computes has a request to compute for; one that looks for a
\* request has computed nothing for it yet.
Serves ==
  /\ worker \in Serving => job # 0
  /\ worker \in {"receive", "take", "filter", "park", "retake", "refilter"} => published = 0
  /\ worker = "closing" => closed = TRUE

\* what the worker finds waiting once it has the lock is not older than its request
Ordered ==
  /\ worker = "recheck" /\ results # <<>> => Held >= job
  /\ worker = "push" /\ results # <<>> => Held = job

\* only the request the UI asked last is ever current
Asked ==
  closed # TRUE =>
    /\ slot # 0 /\ slot = generation => asked = generation
    /\ job # 0 /\ job = generation => asked = generation
    /\ Held # 0 /\ Held = generation => asked = generation
    /\ ui \in {"request_clear", "request_slot"} => asked = generation /\ asked # 0
    /\ ui \in {"cancel_slot", "cancel_clear"} => asked # generation

\* nothing has been done yet for a request that is still on its way
OnItsWay == ui \in {"request_clear", "request_slot"} \/ (slot # 0 /\ slot = generation)
Untouched ==
  closed # TRUE /\ OnItsWay => received = <<>> /\ Held < generation /\ job < generation

\* the results of the current request, handed over or waiting
Waiting == IF Held # 0 /\ Held = generation THEN Len(results) ELSE 0
Done == Len(received) + Waiting

Following ==
  closed # TRUE /\ Held # 0 /\ Held = generation =>
    \A i \in 1..Len(results) : results[i] = <<generation, Len(received) + i>>

Counted ==
  closed # TRUE /\ job # 0 /\ job = generation =>
    /\ worker \in {"filter", "refilter", "work"} => published = Done
    /\ worker \in {"publish", "lock", "recheck", "push", "full"} => published = Done + 1

Prefix == \A k \in 1..Len(received) : received[k] = <<asked, k>>
Bounded == Len(received) \in 0..Results /\ (closed # TRUE => Done <= Results)

Hand == Bounds /\ Uniform /\ Serves /\ Ordered /\ Asked /\ Untouched /\ Following /\ Counted
        /\ Prefix /\ Bounded
\* Of a queue that holds the results of one request, retain() and take() keep all
\* or nothing.
LEMMA FreshIsAllOrNothing ==
  ASSUME NEW S, results \in Seq(S), \A i \in 1..Len(results) : results[i][1] = Held
  PROVE  Fresh = IF Current(Held) THEN results ELSE <<>>
<1> DEFINE n == Len(results)
           kept[i \in 0..n] == IF i = 0 THEN <<>>
                               ELSE IF Current(results[i][1]) THEN Append(kept[i - 1], results[i])
                               ELSE kept[i - 1]
           whole == [i \in 0..n |-> SubSeq(results, 1, i)]
           none == [i \in 0..n |-> <<>>]
<1>1. Fresh = kept[n]
  BY DEF Fresh
<1>2. n \in Nat
  OBVIOUS
<1>3. \E f : f = [i \in 0..n |-> IF i = 0 THEN <<>>
                                 ELSE IF Current(results[i][1]) THEN Append(f[i - 1], results[i])
                                 ELSE f[i - 1]]
  <2>1. CASE Current(Held)
    <3>1. \A i \in 0..n : i # 0 => SubSeq(results, 1, i) = Append(SubSeq(results, 1, i - 1), results[i])
      BY <1>2
    <3>2. SubSeq(results, 1, 0) = <<>>
      OBVIOUS
    <3>3. whole = [i \in 0..n |-> IF i = 0 THEN <<>>
                                 ELSE IF Current(results[i][1]) THEN Append(whole[i - 1], results[i])
                                 ELSE whole[i - 1]]
      <4>1. ASSUME NEW i \in 0..n, i # 0 PROVE
              /\ Current(results[i][1]) /\ whole[i - 1] = SubSeq(results, 1, i - 1)
              /\ whole[i] = Append(whole[i - 1], results[i])
        <5>1. i \in 1..n /\ i - 1 \in 0..n
          BY <1>2, <4>1
        <5>2. Current(results[i][1])
          BY <2>1, <5>1
        <5>3. whole[i - 1] = SubSeq(results, 1, i - 1) /\ whole[i] = SubSeq(results, 1, i)
          BY <5>1
        <5> QED BY <3>1, <4>1, <5>2, <5>3
      <4> HIDE DEF n
      <4>2. whole[0] = <<>>
        BY <1>2, <3>2
      <4> QED BY <4>1, <4>2, Zenon
    <3> QED BY <3>3
  <2>2. CASE ~Current(Held)
    <3>1. none = [i \in 0..n |-> IF i = 0 THEN <<>>
                                 ELSE IF Current(results[i][1]) THEN Append(none[i - 1], results[i])
                                 ELSE none[i - 1]]
      BY <1>2, <2>2
    <3> QED BY <3>1
  <2> QED BY <2>1, <2>2
<1>4. kept = [i \in 0..n |-> IF i = 0 THEN <<>>
                             ELSE IF Current(results[i][1]) THEN Append(kept[i - 1], results[i])
                             ELSE kept[i - 1]]
  BY <1>3
<1> HIDE DEF kept
<1> DEFINE right(i) == IF Current(Held) THEN SubSeq(results, 1, i) ELSE <<>>
           bad == {i \in 0..n : kept[i] # right(i)}
<1>5. bad = {}
  <2> SUFFICES ASSUME bad # {} PROVE FALSE
    OBVIOUS
  <2>1. PICK i \in bad : \A j \in bad : i <= j
    <3>1. bad \in SUBSET Nat
      BY <1>2
    <3> HIDE DEF bad
    <3> QED BY <3>1, Least
  <2>2. CASE i = 0
    <3>1. SubSeq(results, 1, 0) = <<>>
      OBVIOUS
    <3> QED BY <1>2, <1>4, <2>1, <2>2, <3>1
  <2>3. CASE i # 0
    <3>1. i \in 1..n /\ i - 1 \in 0..n /\ ~(i <= i - 1)
      BY <1>2, <2>3
    <3>2. kept[i - 1] = right(i - 1)
      BY <2>1, <3>1
    <3>3. kept[i] = IF Current(results[i][1]) THEN Append(kept[i - 1], results[i]) ELSE kept[i - 1]
      BY <1>2, <1>4, <2>3, <3>1
    <3>4. SubSeq(results, 1, i) = Append(SubSeq(results, 1, i - 1), results[i])
      BY <1>2, <3>1
    <3>5. results[i][1] = Held
      BY <3>1
    <3>6. kept[i] = right(i)
      BY <3>2, <3>3, <3>4, <3>5
    <3> QED BY <2>1, <3>6
  <2> QED BY <2>2, <2>3
<1>6. kept[n] = right(n)
  BY <1>2, <1>5
<1>7. SubSeq(results, 1, n) = results
  OBVIOUS
<1> QED BY <1>1, <1>6, <1>7

LEMMA HandsNothingYet == Init => Hand
<1> SUFFICES ASSUME Init PROVE Hand
  OBVIOUS
<1> USE MailboxAssumption DEF Init
<1>1. Held = 0 /\ Len(results) = 0 /\ Len(received) = 0
  BY DEF Held
<1>2. Bounds BY DEF Bounds, Entries
<1>3. Uniform BY <1>1 DEF Uniform
<1>4. Serves BY DEF Serves, Serving
<1>5. Ordered BY DEF Ordered
<1>6. Asked BY <1>1 DEF Asked
<1>7. Untouched BY DEF Untouched, OnItsWay
<1>8. Following BY <1>1 DEF Following
<1>9. Counted BY DEF Counted
<1>10. Prefix BY <1>1 DEF Prefix
<1>11. Bounded
  <2>1. Waiting = 0 BY <1>1 DEF Waiting
  <2>2. Done = 0 BY <1>1, <2>1 DEF Done
  <2>3. Results \in Nat BY MailboxAssumption
  <2>4. 0 \in 0..Results /\ 0 <= Results BY <2>3
  <2> QED BY <1>1, <2>2, <2>4, Zenon DEF Bounded
<1> QED BY <1>2, <1>3, <1>4, <1>5, <1>6, <1>7, <1>8, <1>9, <1>10, <1>11 DEF Hand

\* What waits is left alone, dropped, or followed by a result of the worker's job.
Left == results' = results /\ Held' = Held
Dropped == results' = <<>> /\ Held' = 0

LEMMA QueueStep ==
  Inv /\ Facts /\ Hand /\ [Next]_vars =>
    \/ Left
    \/ Dropped /\ (ClearResults \/ Take \/ Closing \/ (Lock /\ ~Current(Held)))
    \/ Push /\ results' = Append(results, <<job, published>>) /\ Held' = job
<1> SUFFICES ASSUME Inv, Facts, Hand, [Next]_vars
    PROVE  \/ Left
           \/ Dropped /\ (ClearResults \/ Take \/ Closing \/ (Lock /\ ~Current(Held)))
           \/ Push /\ results' = Append(results, <<job, published>>) /\ Held' = job
  OBVIOUS
<1>1. results' = results => Left BY DEF Left, Held
<1>2. results' = <<>> => Dropped BY DEF Dropped, Held
<1>3. CASE Lock
  <2>1. results' = Fresh
    BY <1>3 DEF Lock
  <2>2. Fresh = IF Current(Held) THEN results ELSE <<>>
    BY FreshIsAllOrNothing DEF Hand, Bounds, Uniform
  <2> QED BY <1>1, <1>2, <1>3, <2>1, <2>2
<1>4. CASE Push
  <2>1. CASE Len(results) < Limit
    <3>1. results' = Append(results, <<job, published>>)
      BY <1>4, <2>1 DEF Push
    <3>2. results' # <<>> /\ results'[1] = IF results = <<>> THEN <<job, published>> ELSE results[1]
      BY <3>1 DEF Hand, Bounds
    <3>3. Held' = IF results = <<>> THEN job ELSE Held
      BY <3>2 DEF Held
    <3>4. Held' = job
      BY <1>4, <3>3 DEF Hand, Ordered, Push
    <3> QED BY <1>4, <3>1, <3>4
  <2>2. CASE ~(Len(results) < Limit)
    BY <1>1, <1>4, <2>2 DEF Push
  <2> QED BY <2>1, <2>2
<1>5. CASE ClearResults \/ Take \/ Closing
  BY <1>1, <1>2, <1>5 DEF ClearResults, Take, Closing
<1>6. CASE Request \/ Cancel
  BY <1>1, <1>6 DEF Request, Cancel
<1>7. CASE ReplaceSlot \/ CancelSlot \/ Close \/ Wake \/ CloseTarget
  BY <1>1, <1>7 DEF ReplaceSlot, CancelSlot, Close, Wake, CloseTarget, mailbox
<1>8. CASE StartFails \/ Start \/ Loop \/ Filter \/ ParkTimeout \/ Work \/ Panic \/ Publish
  BY <1>1, <1>8 DEF StartFails, Start, Loop, Filter, ParkTimeout, Work, Panic, Publish, mailbox
<1>9. CASE Register \/ TakeSlot \/ Unpark \/ Recheck
  BY <1>1, <1>9 DEF Register, TakeSlot, Unpark, Recheck
<1>10. CASE UNCHANGED vars BY <1>1, <1>10 DEF vars, mailbox
<1> QED BY <1>3, <1>4, <1>5, <1>6, <1>7, <1>8, <1>9, <1>10 DEF Next, UICall, WorkerStep,
     WorkerFails

\* What was handed over is forgotten by the next request, and take() adds to it what
\* is current of what waits.
LEMMA HandedStep ==
  Inv /\ Facts /\ Hand /\ [Next]_vars =>
    \/ Request /\ received' = <<>> /\ Left
    \/ UNCHANGED <<received, asked>>
    \/ Take /\ Dropped /\ Current(Held) /\ received' = received \o results
         /\ UNCHANGED <<generation, closed, asked>>
<1> SUFFICES ASSUME Inv, Facts, Hand, [Next]_vars
    PROVE  \/ Request /\ received' = <<>> /\ Left
           \/ UNCHANGED <<received, asked>>
           \/ Take /\ Dropped /\ Current(Held) /\ received' = received \o results
                /\ UNCHANGED <<generation, closed, asked>>
  OBVIOUS
<1>1. CASE Request BY <1>1 DEF Request, Left, Held
<1>2. CASE Take
  <2>1. /\ received' = received \o Fresh /\ results' = <<>>
        /\ UNCHANGED <<generation, closed, asked>>
    BY <1>2 DEF Take
  <2>2. Fresh = IF Current(Held) THEN results ELSE <<>>
    BY FreshIsAllOrNothing DEF Hand, Bounds, Uniform
  <2>3. received \o <<>> = received
    BY ConcatEmptySeq DEF Hand, Bounds
  <2>4. Dropped
    BY <2>1 DEF Dropped, Held
  <2> QED BY <1>2, <2>1, <2>2, <2>3, <2>4
<1>3. CASE ClearResults \/ ReplaceSlot \/ CancelSlot \/ Close \/ Wake \/ CloseTarget \/ Cancel
  BY <1>3 DEF ClearResults, ReplaceSlot, CancelSlot, Close, Wake, CloseTarget, Cancel, uiVars
<1>4. CASE StartFails \/ Start \/ Loop \/ Filter \/ ParkTimeout \/ Work \/ Panic \/ Publish
  BY <1>4 DEF StartFails, Start, Loop, Filter, ParkTimeout, Work, Panic, Publish, uiVars
<1>5. CASE Register \/ TakeSlot \/ Unpark \/ Recheck \/ Lock \/ Push \/ Closing
  BY <1>5 DEF Register, TakeSlot, Unpark, Recheck, Lock, Push, Closing, uiVars
<1>6. CASE UNCHANGED vars BY <1>6 DEF vars, uiVars
<1> QED BY <1>1, <1>2, <1>3, <1>4, <1>5, <1>6 DEF Next, UICall, WorkerStep, WorkerFails

\* generations only grow, and a mailbox once closed stays so
LEMMA ClockStep ==
  Inv /\ Facts /\ Hand /\ [Next]_vars =>
    /\ generation' \in generation..MaxGeneration /\ (closed = TRUE => closed' = TRUE)
    /\ generation' # generation => Request \/ Cancel \/ Closing
<1> SUFFICES ASSUME Inv, Facts, Hand, [Next]_vars
    PROVE  /\ generation' \in generation..MaxGeneration /\ (closed = TRUE => closed' = TRUE)
           /\ generation' # generation => Request \/ Cancel \/ Closing
  OBVIOUS
<1> USE MailboxAssumption DEF Hand, Bounds
<1>1. CASE Request \/ Cancel \/ Closing
  BY <1>1 DEF Request, Cancel, Closing, Advance
<1>2. CASE ClearResults \/ ReplaceSlot \/ CancelSlot \/ Close \/ Wake \/ CloseTarget \/ Take
  BY <1>2 DEF ClearResults, ReplaceSlot, CancelSlot, Close, Wake, CloseTarget, Take, mailbox
<1>3. CASE StartFails \/ Start \/ Loop \/ Filter \/ ParkTimeout \/ Work \/ Panic \/ Publish
  BY <1>3 DEF StartFails, Start, Loop, Filter, ParkTimeout, Work, Panic, Publish, mailbox
<1>4. CASE Register \/ TakeSlot \/ Unpark \/ Recheck \/ Lock \/ Push
  BY <1>4 DEF Register, TakeSlot, Unpark, Recheck, Lock, Push
<1>5. CASE UNCHANGED vars BY <1>5 DEF vars, mailbox
<1> QED BY <1>1, <1>2, <1>3, <1>4, <1>5 DEF Next, UICall, WorkerStep, WorkerFails

LEMMA BoundsStep == Inv /\ Facts /\ Hand /\ [Next]_vars => Bounds'
<1> SUFFICES ASSUME Inv, Facts, Hand, [Next]_vars PROVE Bounds'
  OBVIOUS
<1> USE MailboxAssumption
<1>1. generation' \in 0..MaxGeneration
  BY ClockStep DEF Hand, Bounds
<1>2. published' \in 0..Results
  <2> USE DEF Hand, Bounds
  <2>1. CASE Loop \/ Work BY <2>1 DEF Loop, Work
  <2>2. CASE Request \/ ClearResults \/ ReplaceSlot \/ Cancel \/ CancelSlot \/ Close \/ Take \/ Wake
             \/ CloseTarget
    BY <2>2 DEF Request, ClearResults, ReplaceSlot, Cancel, CancelSlot, Close, Take, Wake, CloseTarget,
       workerVars
  <2>3. CASE StartFails \/ Closing \/ Panic \/ Start \/ Register \/ TakeSlot \/ Filter \/ Unpark
    BY <2>3 DEF StartFails, Closing, Panic, Start, Register, TakeSlot, Filter, Unpark
  <2>4. CASE ParkTimeout \/ Publish \/ Lock \/ Recheck \/ Push
    BY <2>4 DEF ParkTimeout, Publish, Lock, Recheck, Push
  <2>5. CASE UNCHANGED vars BY <2>5 DEF vars, workerVars
  <2> QED BY <2>1, <2>2, <2>3, <2>4, <2>5 DEF Next, UICall, WorkerStep, WorkerFails
<1>3. results' \in Seq(Entries)
  <2>1. <<job, published>> \in Entries
    BY DEF Inv, Marks, Hand, Bounds, Entries
  <2>2. results \in Seq(Entries)
    BY DEF Hand, Bounds
  <2>3. Append(results, <<job, published>>) \in Seq(Entries)
    BY <2>1, <2>2, AppendProperties
  <2>4. <<>> \in Seq(Entries)
    OBVIOUS
  <2> QED BY <2>2, <2>3, <2>4, QueueStep DEF Left, Dropped
<1>4. received' \in Seq(Entries)
  <2>1. received \in Seq(Entries) /\ results \in Seq(Entries)
    BY DEF Hand, Bounds
  <2>2. received \o results \in Seq(Entries)
    BY <2>1, ConcatProperties
  <2>3. <<>> \in Seq(Entries)
    OBVIOUS
  <2> QED BY <2>1, <2>2, <2>3, HandedStep
<1> QED BY <1>1, <1>2, <1>3, <1>4 DEF Bounds

LEMMA UniformStep == Inv /\ Facts /\ Hand /\ [Next]_vars => Uniform'
<1> SUFFICES ASSUME Inv, Facts, Hand, [Next]_vars PROVE Uniform'
  OBVIOUS
<1>1. generation \in Nat /\ generation' \in Nat /\ generation <= generation'
  BY ClockStep, MailboxAssumption DEF Inv, Marks
<1>2. CASE Left
  BY <1>1, <1>2 DEF Left, Hand, Uniform
<1>3. CASE Dropped
  BY <1>1, <1>3 DEF Dropped, Uniform
<1>4. CASE Push /\ results' = Append(results, <<job, published>>) /\ Held' = job
  <2>1. worker = "push" /\ job # 0 /\ job \in 0..generation'
    BY <1>1, <1>4 DEF Push, Hand, Serves, Serving, Inv, Marks
  <2>2. ASSUME NEW i \in 1..Len(results') PROVE results'[i][1] = job
    <3>1. results \in Seq(Entries)
      BY DEF Hand, Bounds
    <3>2. Len(results') = Len(results) + 1 /\ Len(results) \in Nat
      BY <1>4, <3>1
    <3>3. CASE i = Len(results) + 1
      BY <1>4, <3>1, <3>3
    <3>4. CASE i \in 1..Len(results)
      <4>1. results'[i] = results[i]
        BY <1>4, <3>1, <3>4
      <4>2. results[i][1] = Held /\ results # <<>>
        BY <3>1, <3>4 DEF Hand, Uniform
      <4> QED BY <2>1, <4>1, <4>2 DEF Hand, Ordered
    <3> QED BY <3>2, <3>3, <3>4
  <2> QED BY <1>4, <2>1, <2>2 DEF Uniform
<1> QED BY <1>2, <1>3, <1>4, QueueStep

LEMMA ServesStep == Inv /\ Facts /\ Hand /\ [Next]_vars => Serves'
<1> SUFFICES ASSUME Inv, Facts, Hand, [Next]_vars PROVE Serves'
  OBVIOUS
<1> USE DEF Hand, Serves, Serving
<1>1. CASE Loop \/ Register \/ TakeSlot \/ Filter
  BY <1>1 DEF Loop, Register, TakeSlot, Filter, mailbox
<1>2. CASE StartFails \/ Closing \/ Start
  BY <1>2, ClockStep DEF StartFails, Closing, Start, mailbox
<1>3. CASE Unpark \/ ParkTimeout \/ Work
  BY <1>3 DEF Unpark, ParkTimeout, Work, mailbox
<1>4. CASE Panic \/ Publish \/ Lock \/ Recheck \/ Push
  BY <1>4 DEF Panic, Publish, Lock, Recheck, Push, mailbox
<1>5. CASE Request \/ ClearResults \/ ReplaceSlot \/ Cancel \/ CancelSlot
  BY <1>5, ClockStep DEF Request, ClearResults, ReplaceSlot, Cancel, CancelSlot, workerVars
<1>6. CASE Close \/ Take \/ Wake \/ CloseTarget
  BY <1>6, ClockStep DEF Close, Take, Wake, CloseTarget, workerVars, mailbox
<1>7. CASE UNCHANGED vars BY <1>7 DEF vars, mailbox, workerVars
<1> QED BY <1>1, <1>2, <1>3, <1>4, <1>5, <1>6, <1>7 DEF Next, UICall, WorkerStep, WorkerFails

LEMMA OrderedStep == Inv /\ Facts /\ Hand /\ [Next]_vars => Ordered'
<1> SUFFICES ASSUME Inv, Facts, Hand, [Next]_vars PROVE Ordered'
  OBVIOUS
<1>1. CASE Lock
  <2>1. results' = Fresh /\ worker' = "recheck" /\ job' = job
    BY <1>1 DEF Lock
  <2>2. Fresh = IF Current(Held) THEN results ELSE <<>>
    BY FreshIsAllOrNothing DEF Hand, Bounds, Uniform
  <2>3. job <= generation /\ job \in Nat /\ generation \in Nat
    BY DEF Inv, Marks
  <2>4. results' # <<>> => Held' = Held /\ Held = generation
    BY <2>1, <2>2 DEF Current, Held
  <2> QED BY <2>1, <2>3, <2>4 DEF Ordered
<1>2. CASE Recheck
  <2>1. Left /\ job' = job /\ (worker' = "push" => worker = "recheck" /\ job = generation)
    BY <1>2 DEF Recheck, Left, Held, Current
  <2>2. worker' # "recheck"
    BY <1>2 DEF Recheck
  <2>3. Held <= generation /\ Held \in Nat /\ generation \in Nat
    BY DEF Hand, Uniform, Inv, Marks
  <2> QED BY <2>1, <2>2, <2>3 DEF Ordered, Left, Hand
<1>3. CASE Start \/ Loop \/ Register \/ TakeSlot \/ Filter \/ Unpark \/ ParkTimeout
  BY <1>3 DEF Start, Loop, Register, TakeSlot, Filter, Unpark, ParkTimeout, Ordered
<1>4. CASE Work \/ Publish \/ Push \/ StartFails \/ Closing \/ Panic
  BY <1>4 DEF Work, Publish, Push, StartFails, Closing, Panic, Ordered
<1>5. ASSUME UNCHANGED <<worker, job>>, ~Push PROVE Ordered'
  BY <1>5, QueueStep DEF Ordered, Left, Dropped, Hand
<1>6. CASE Request \/ ClearResults \/ ReplaceSlot \/ Cancel \/ CancelSlot
  BY <1>4, <1>5, <1>6 DEF Request, ClearResults, ReplaceSlot, Cancel, CancelSlot, workerVars
<1>7. CASE Close \/ Take \/ Wake \/ CloseTarget
  BY <1>4, <1>5, <1>7 DEF Close, Take, Wake, CloseTarget, workerVars
<1>8. CASE UNCHANGED vars BY <1>4, <1>5, <1>8 DEF vars, workerVars
<1> QED BY <1>1, <1>2, <1>3, <1>4, <1>6, <1>7, <1>8 DEF Next, UICall, WorkerStep, WorkerFails

LEMMA AskedStep == Inv /\ Facts /\ Hand /\ [Next]_vars => Asked'
<1> SUFFICES ASSUME Inv, Facts, Hand, [Next]_vars, closed' # TRUE PROVE Asked'
  BY DEF Asked
<1>1. closed # TRUE /\ generation \in Nat /\ asked \in 0..generation /\ slot \in 0..generation /\ job \in 0..generation
      /\ Held \in 0..generation
  <2>1. closed # TRUE BY ClockStep
  <2>2. generation \in Nat /\ asked \in 0..generation /\ slot \in 0..generation /\ job \in 0..generation
    BY DEF Inv, Marks
  <2> QED BY <2>1, <2>2 DEF Hand, Uniform
<1>2. Held' \in {Held, 0, job}
  BY QueueStep DEF Left, Dropped
<1> USE <1>1 DEF Asked
<1>3. CASE Request
  <2>1. /\ generation' = generation + 1 /\ asked' = generation' /\ slot' = slot /\ job' = job
        /\ ui' = "request_clear"
    BY <1>3 DEF Request, Advance, workerVars
  <2> QED BY <1>2, <2>1
<1>4. CASE Cancel
  <2>1. /\ generation' = generation + 1 /\ slot' = slot /\ job' = job /\ asked' = asked
        /\ ui' = "cancel_slot"
    BY <1>4 DEF Cancel, Advance, workerVars
  <2> QED BY <1>2, <2>1
<1>5. CASE ReplaceSlot
  BY <1>2, <1>5 DEF ReplaceSlot, workerVars, Hand
<1>6. CASE TakeSlot
  BY <1>2, <1>6 DEF TakeSlot, uiVars, Hand
<1>7. CASE Closing \/ StartFails \/ Loop
  BY <1>2, <1>7 DEF Closing, StartFails, Loop, Hand, Serves, mailbox, uiVars
<1>8. CASE ClearResults \/ CancelSlot \/ Close \/ Take \/ Wake \/ CloseTarget
  BY <1>2, <1>8 DEF ClearResults, CancelSlot, Close, Take, Wake, CloseTarget, mailbox, uiVars, workerVars,
     Hand
<1>9. CASE Start \/ Register \/ Filter \/ Unpark \/ ParkTimeout \/ Work
  BY <1>2, <1>9 DEF Start, Register, Filter, Unpark, ParkTimeout, Work, mailbox, uiVars, Hand
<1>10. CASE Publish \/ Lock \/ Recheck \/ Push \/ Panic
  BY <1>2, <1>10 DEF Publish, Lock, Recheck, Push, Panic, mailbox, uiVars, Hand
<1>11. CASE UNCHANGED vars
  BY <1>2, <1>11 DEF vars, mailbox, uiVars, workerVars, Hand
<1> QED BY <1>3, <1>4, <1>5, <1>6, <1>7, <1>8, <1>9, <1>10, <1>11 DEF Next, UICall, WorkerStep,
     WorkerFails

LEMMA UntouchedStep == Inv /\ Facts /\ Hand /\ [Next]_vars => Untouched'
<1> SUFFICES ASSUME Inv, Facts, Hand, [Next]_vars, closed' # TRUE PROVE Untouched'
  BY DEF Untouched
<1>1. closed # TRUE
  BY ClockStep
<1>2. generation \in Nat /\ generation' \in Nat /\ generation <= generation'
  BY ClockStep, MailboxAssumption DEF Inv, Marks
<1>3. asked \in Nat /\ slot \in 0..generation /\ job \in 0..generation /\ Held \in 0..generation
  BY DEF Inv, Marks, Hand, Uniform
<1>4. CASE Request
  <2>1. generation' = generation + 1 /\ slot' = slot /\ job' = job /\ received' = <<>> /\ Held' = Held
    BY <1>1, <1>4 DEF Request, Advance, workerVars, Held
  <2> QED BY <1>2, <1>3, <2>1 DEF Untouched, OnItsWay
<1>5. CASE Cancel
  <2>1. generation' = generation + 1 /\ slot' = slot /\ ui' = "cancel_slot"
    BY <1>1, <1>5 DEF Cancel, Advance, workerVars
  <2> QED BY <1>2, <1>3, <2>1 DEF Untouched, OnItsWay
<1>6. CASE Closing
  BY <1>1, <1>6 DEF Closing, Hand, Serves
<1>7. CASE Take
  <2>1. UNCHANGED <<generation, slot, job>> /\ (OnItsWay' => OnItsWay)
    BY <1>7 DEF Take, OnItsWay, workerVars
  <2>2. Held' \in {Held, 0} /\ (Held < generation => received' = received)
    <3>1. ~Push
      BY <1>7 DEF Take, Push, workerVars
    <3>2. Held' \in {Held, 0}
      BY <3>1, QueueStep DEF Left, Dropped
    <3>3. Held < generation => ~Current(Held) /\ ~Request
      BY <1>2, <1>3, <1>7 DEF Current, Take, Request
    <3> QED BY <3>2, <3>3, HandedStep
  <2>3. SUFFICES ASSUME OnItsWay PROVE received' = <<>> /\ Held' < generation' /\ job' < generation'
    BY <2>1 DEF Untouched
  <2>4. received = <<>> /\ Held < generation /\ job < generation
    BY <1>1, <2>3 DEF Hand, Untouched
  <2>5. 0 < generation
    BY <1>2, <1>3, <2>4
  <2> QED BY <2>1, <2>2, <2>4, <2>5
<1>8. ASSUME UNCHANGED <<generation, received>>, Held' \in {Held, 0, job}, job' \in {job, 0},
             ui' = ui \/ ui' \notin {"request_clear", "request_slot"}
             \/ ui \in {"request_clear", "request_slot"},
             slot' \in {slot, 0}
      PROVE  Untouched'
  <2>1. OnItsWay' => OnItsWay
    BY <1>8 DEF OnItsWay
  <2>2. SUFFICES ASSUME OnItsWay PROVE received' = <<>> /\ Held' < generation' /\ job' < generation'
    BY <2>1 DEF Untouched
  <2>3. received = <<>> /\ Held < generation /\ job < generation
    BY <1>1, <2>2 DEF Hand, Untouched
  <2>4. 0 < generation
    BY <1>2, <1>3, <2>3
  <2> QED BY <1>8, <2>3, <2>4
<1>9. Held' \in {Held, 0, job}
  BY QueueStep DEF Left, Dropped
<1>10. CASE ReplaceSlot
  <2>1. UNCHANGED <<generation, received, job, results>> /\ OnItsWay
    BY <1>10 DEF ReplaceSlot, workerVars, OnItsWay
  <2>2. received = <<>> /\ Held < generation /\ job < generation /\ Held' = Held
    BY <1>1, <2>1 DEF Hand, Untouched, Held
  <2> QED BY <2>1, <2>2 DEF Untouched
<1>11. CASE TakeSlot
  <2>1. UNCHANGED <<generation, received, results, ui>> /\ job' = slot /\ slot' = 0
    BY <1>11 DEF TakeSlot, uiVars
  <2>2. SUFFICES ASSUME ui \in {"request_clear", "request_slot"}
                 PROVE  received' = <<>> /\ Held' < generation' /\ job' < generation'
    BY <2>1 DEF Untouched, OnItsWay
  <2>3. received = <<>> /\ Held < generation /\ Held' = Held
    BY <1>1, <2>1, <2>2 DEF Hand, Untouched, OnItsWay, Held
  <2>4. slot < generation
    BY <1>1, <2>2 DEF Inv, Superseded
  <2> QED BY <2>1, <2>3, <2>4
<1>12. CASE ClearResults \/ CancelSlot
  BY <1>8, <1>9, <1>12 DEF ClearResults, CancelSlot, workerVars
<1>13. CASE Close \/ Wake \/ CloseTarget
  BY <1>8, <1>9, <1>13 DEF Close, Wake, CloseTarget, mailbox, uiVars, workerVars
<1>14. CASE StartFails \/ Start \/ Loop \/ Filter \/ ParkTimeout \/ Work \/ Panic \/ Publish
  BY <1>8, <1>9, <1>14 DEF StartFails, Start, Loop, Filter, ParkTimeout, Work, Panic, Publish, mailbox, uiVars
<1>15. CASE Register \/ Unpark \/ Lock \/ Recheck \/ Push
  BY <1>8, <1>9, <1>15 DEF Register, Unpark, Lock, Recheck, Push, uiVars
<1>16. CASE UNCHANGED vars
  BY <1>8, <1>9, <1>16 DEF vars, mailbox, uiVars, workerVars
<1> QED BY <1>4, <1>5, <1>6, <1>7, <1>10, <1>11, <1>12, <1>13, <1>14, <1>15, <1>16 DEF Next, UICall,
     WorkerStep, WorkerFails

\* the numbers the next proofs count with
LEMMA Numbers ==
  Inv /\ Hand =>
    /\ generation \in Nat /\ asked \in 0..generation /\ slot \in 0..generation /\ job \in 0..generation
    /\ Held \in 0..generation /\ published \in 0..Results /\ Results \in Nat
    /\ Len(results) \in Nat /\ Len(received) \in Nat /\ Waiting \in Nat /\ Done \in Nat
    /\ (results = <<>> => Len(results) = 0) /\ (results = <<>> <=> Held = 0)
<1> SUFFICES ASSUME Inv, Hand
    PROVE  /\ generation \in Nat /\ asked \in 0..generation /\ slot \in 0..generation
           /\ job \in 0..generation
           /\ Held \in 0..generation /\ published \in 0..Results /\ Results \in Nat
           /\ Len(results) \in Nat /\ Len(received) \in Nat /\ Waiting \in Nat /\ Done \in Nat
           /\ (results = <<>> => Len(results) = 0) /\ (results = <<>> <=> Held = 0)
  OBVIOUS
<1>1. generation \in Nat /\ asked \in 0..generation /\ slot \in 0..generation /\ job \in 0..generation
  BY DEF Inv, Marks
<1>2. Held \in 0..generation /\ (results = <<>> <=> Held = 0)
  BY DEF Hand, Uniform, Held
<1>3. published \in 0..Results /\ Results \in Nat
  BY MailboxAssumption DEF Hand, Bounds
<1>4. Len(results) \in Nat /\ Len(received) \in Nat /\ (results = <<>> => Len(results) = 0)
  BY DEF Hand, Bounds
<1>5. Waiting \in Nat BY <1>4 DEF Waiting
<1>6. Done \in Nat BY <1>4, <1>5 DEF Done
<1> QED BY <1>1, <1>2, <1>3, <1>4, <1>5, <1>6

\* A result is pushed behind those of its own request, when that one is current.
LEMMA Pushing ==
  ASSUME Inv, Facts, Hand, Push, results' = Append(results, <<job, published>>), Held' = job,
         closed # TRUE, job = generation
  PROVE  /\ Len(results') = Len(results) + 1 /\ Waiting = Len(results)
         /\ Waiting' = Waiting + 1 /\ Done' = Done + 1 /\ published = Done + 1
         /\ \A i \in 1..Len(results) : results'[i] = results[i]
         /\ results'[Len(results) + 1] = <<generation, published>>
<1>1. worker = "push" /\ job # 0 /\ UNCHANGED <<generation, received>>
  BY DEF Push, Hand, Serves, Serving, uiVars
<1>2. /\ Len(results') = Len(results) + 1 /\ Len(results) \in Nat
      /\ \A i \in 1..Len(results) : results'[i] = results[i]
      /\ results'[Len(results) + 1] = <<generation, published>>
  <2>1. results \in Seq(Entries)
    BY DEF Hand, Bounds
  <2> QED BY <2>1, AppendProperties
<1>3. Waiting = Len(results)
  BY <1>1, Numbers DEF Hand, Ordered, Waiting
<1>4. Waiting' = Len(results')
  BY <1>1 DEF Waiting
<1>5. published = Done + 1
  BY <1>1 DEF Hand, Counted
<1>6. Done' = Done + 1
  BY <1>1, <1>2, <1>3, <1>4, Numbers DEF Done
<1> QED BY <1>2, <1>3, <1>4, <1>5, <1>6

LEMMA FollowingStep == Inv /\ Facts /\ Hand /\ [Next]_vars => Following'
<1> SUFFICES ASSUME Inv, Facts, Hand, [Next]_vars, closed' # TRUE, Held' # 0, Held' = generation'
    PROVE  \A i \in 1..Len(results') : results'[i] = <<generation', Len(received') + i>>
  BY DEF Following
<1>1. closed # TRUE
  BY ClockStep
<1>2. generation \in Nat /\ generation' \in Nat /\ generation <= generation' /\ Held <= generation
      /\ job <= generation /\ Held \in Nat /\ job \in Nat
  BY ClockStep, Numbers, MailboxAssumption
<1>3. CASE Left
  <2>1. Held = generation /\ generation' = generation /\ Held # 0 /\ results' = results
    BY <1>2, <1>3 DEF Left
  <2>2. ~Request
    <3> SUFFICES ASSUME Request PROVE FALSE
      OBVIOUS
    <3>1. Advance
      BY DEF Request
    <3>2. generation < MaxGeneration => generation' = generation + 1
      BY <3>1 DEF Advance
    <3>3. ~(generation < MaxGeneration) => closed' = TRUE
      BY <3>1, Zenon DEF Advance
    <3>4. ~(generation < MaxGeneration)
      BY <1>2, <2>1, <3>2
    <3> QED BY <3>3, <3>4, Zenon
  <2>3. results # <<>>
    BY <2>1 DEF Held
  <2>4. received' = received
    BY <2>1, <2>2, <2>3, HandedStep DEF Dropped
  <2> QED BY <1>1, <2>1, <2>4 DEF Hand, Following
<1>4. CASE Dropped BY <1>4 DEF Dropped
<1>5. CASE Push /\ results' = Append(results, <<job, published>>) /\ Held' = job
  <2>1. UNCHANGED <<generation, received>> /\ job = generation
    BY <1>5 DEF Push, uiVars
  <2>2. /\ Len(results') = Len(results) + 1 /\ Waiting = Len(results) /\ published = Done + 1
        /\ \A i \in 1..Len(results) : results'[i] = results[i]
        /\ results'[Len(results) + 1] = <<generation, published>>
    BY <1>1, <1>5, <2>1, Pushing
  <2>3. Len(results) \in Nat /\ Len(received) \in Nat
    BY Numbers
  <2>4. published = Len(received) + (Len(results) + 1)
    BY <2>2, <2>3 DEF Done
  <2>5. ASSUME NEW i \in 1..Len(results) PROVE results[i] = <<generation, Len(received) + i>>
    <3>1. Held # 0 /\ Held = generation
      BY <1>5, <2>1, <2>3, Numbers DEF Hand, Ordered, Push
    <3> QED BY <1>1, <3>1 DEF Hand, Following
  <2>6. SUFFICES ASSUME NEW i \in 1..Len(results')
                 PROVE  results'[i] = <<generation', Len(received') + i>>
    OBVIOUS
  <2>7. i \in 1..Len(results) \/ i = Len(results) + 1
    BY <2>2, <2>3
  <2>8. CASE i \in 1..Len(results) BY <2>1, <2>2, <2>5, <2>8
  <2>9. CASE i = Len(results) + 1 BY <2>1, <2>2, <2>4, <2>9
  <2> QED BY <2>7, <2>8, <2>9
<1> QED BY <1>3, <1>4, <1>5, QueueStep

\* Nothing of the current request is counted twice or lost.
LEMMA DoneStep ==
  ASSUME Inv, Facts, Hand, [Next]_vars, closed' # TRUE
  PROVE  \/ Done' = Done /\ generation' = generation
         \/ Push /\ job = generation /\ Done' = Done + 1 /\ published = Done + 1 /\ generation' = generation
            /\ Len(results) < Limit
         \/ generation' > generation /\ Done' = Len(received') /\ (Request \/ Cancel)
<1>1. closed # TRUE
  BY ClockStep
<1>2. /\ generation \in Nat /\ Held \in 0..generation /\ job \in 0..generation /\ Len(results) \in Nat
      /\ Len(received) \in Nat /\ (results = <<>> => Len(results) = 0) /\ (results = <<>> <=> Held = 0)
      /\ generation' \in Nat /\ generation <= generation'
  BY ClockStep, Numbers, MailboxAssumption
<1>3. CASE generation' # generation
  <2>1. Request \/ Cancel
    BY <1>1, <1>3, ClockStep DEF Closing, Hand, Serves
  <2>2. Held' = Held
    BY <2>1 DEF Request, Cancel, Held
  <2>3. Waiting' = 0 /\ Len(received') \in Nat
    <3>1. Waiting' = 0
      BY <1>2, <1>3, <2>2 DEF Waiting
    <3>2. received' \in Seq(Entries)
      BY BoundsStep DEF Bounds
    <3> QED BY <3>1, <3>2
  <2> QED BY <1>2, <1>3, <2>1, <2>3 DEF Done
<1>4. CASE generation' = generation
  <2>1. ~Request
    <3> SUFFICES ASSUME Request PROVE FALSE
      OBVIOUS
    <3>1. Advance
      BY DEF Request
    <3>2. generation < MaxGeneration => generation' = generation + 1
      BY <3>1 DEF Advance
    <3>3. ~(generation < MaxGeneration) => closed' = TRUE
      BY <3>1, Zenon DEF Advance
    <3>4. ~(generation < MaxGeneration)
      BY <1>2, <1>4, <3>2
    <3> QED BY <3>3, <3>4, Zenon
  <2>2. CASE Left
    <3>1. received' = received
      BY <1>2, <2>1, <2>2, HandedStep, ConcatEmptySeq DEF Left, Dropped, Hand, Bounds
    <3> QED BY <1>4, <2>2, <3>1 DEF Left, Done, Waiting
  <2>3. CASE Dropped /\ Take
    <3>1. results' = <<>> /\ Held' = 0 /\ Waiting' = 0
      BY <2>3 DEF Dropped, Waiting
    <3>2. CASE Current(Held)
      <4>1. received' = received \o results
        <5>1. Take => received' = received \o Fresh
          BY DEF Take
        <5>2. Fresh = results
          BY <3>2, FreshIsAllOrNothing DEF Hand, Bounds, Uniform
        <5> QED BY <2>3, <5>1, <5>2
      <4>2. Len(received') = Len(received) + Len(results)
        BY <4>1 DEF Hand, Bounds
      <4>3. Waiting = Len(results)
        BY <1>2, <3>2 DEF Waiting, Current
      <4> QED BY <1>2, <1>4, <3>1, <4>2, <4>3 DEF Done
    <3>3. CASE ~Current(Held)
      <4>1. received' = received
        BY <2>1, <3>3, HandedStep
      <4>2. Waiting = 0
        BY <1>1, <3>3 DEF Waiting, Current
      <4> QED BY <1>4, <3>1, <4>1, <4>2 DEF Done
    <3> QED BY <3>2, <3>3
  <2>4. CASE Dropped /\ ~Take
    <3>1. received' = received
      BY <2>1, <2>4, HandedStep
    <3>2. Waiting = 0
      <4>1. CASE Lock /\ ~Current(Held)
        BY <1>1, <4>1 DEF Waiting, Current
      <4>2. CASE ClearResults
        <5>1. CASE ui = "request_clear"
          <6>1. Held < generation
            BY <1>1, <5>1 DEF Hand, Untouched, OnItsWay
          <6> QED BY <1>2, <6>1 DEF Waiting
        <5>2. CASE ui = "cancel_clear"
          BY <1>1, <5>2 DEF Waiting, Hand, Asked
        <5> QED BY <4>2, <5>1, <5>2 DEF ClearResults
      <4>3. ~Closing
        BY <1>1 DEF Closing, Hand, Serves
      <4>4. CASE Left
        BY <1>2, <2>4, <4>4 DEF Left, Dropped, Waiting
      <4>5. ~(Push /\ Held' = job)
        BY <2>4 DEF Push, Dropped, Hand, Serves, Serving
      <4> QED BY <2>4, <4>1, <4>2, <4>3, <4>4, <4>5, QueueStep
    <3>3. Waiting' = 0
      BY <2>4 DEF Dropped, Waiting
    <3> QED BY <1>4, <3>1, <3>2, <3>3 DEF Done
  <2>5. CASE Push /\ results' = Append(results, <<job, published>>) /\ Held' = job
    <3>1. UNCHANGED received
      BY <2>5 DEF Push, uiVars
    <3>2. CASE job = generation
      <4>1. Done' = Done + 1 /\ published = Done + 1 /\ Len(results') = Len(results) + 1
        BY <1>1, <2>5, <3>2, Pushing
      <4>2. Len(results) < Limit
        BY <1>2, <2>5, <4>1 DEF Push
      <4> QED BY <1>4, <2>5, <3>2, <4>1, <4>2
    <3>3. CASE job # generation
      <4>1. Waiting' = 0
        BY <1>4, <2>5, <3>3 DEF Waiting
      <4>2. Waiting = 0
        BY <1>2, <2>5, <3>3 DEF Waiting, Hand, Ordered, Push
      <4> QED BY <1>4, <3>1, <4>1, <4>2 DEF Done
    <3> QED BY <3>2, <3>3
  <2> QED BY <2>2, <2>3, <2>4, <2>5, QueueStep
<1> QED BY <1>3, <1>4

LEMMA CountedStep == Inv /\ Facts /\ Hand /\ [Next]_vars => Counted'
<1> SUFFICES ASSUME Inv, Facts, Hand, [Next]_vars, closed' # TRUE, job' # 0, job' = generation'
    PROVE  /\ worker' \in {"filter", "refilter", "work"} => published' = Done'
           /\ worker' \in {"publish", "lock", "recheck", "push", "full"} => published' = Done' + 1
  BY DEF Counted
<1>1. closed # TRUE
  BY ClockStep
<1>2. /\ generation \in Nat /\ slot \in 0..generation /\ job \in 0..generation /\ Done \in Nat
      /\ Len(received) \in Nat /\ Held \in 0..generation
  BY Numbers
<1>3. generation' = generation
  <2>1. job' \in {job, slot, 0}
    <3>1. CASE Loop \/ TakeSlot BY <3>1 DEF Loop, TakeSlot
    <3>2. CASE Request \/ ClearResults \/ ReplaceSlot \/ Cancel \/ CancelSlot \/ Close \/ Take \/ Wake
               \/ CloseTarget
      BY <3>2 DEF Request, ClearResults, ReplaceSlot, Cancel, CancelSlot, Close, Take, Wake, CloseTarget,
         workerVars
    <3>3. CASE StartFails \/ Closing \/ Panic \/ Start \/ Register \/ Filter \/ Unpark \/ Work
      BY <3>3 DEF StartFails, Closing, Panic, Start, Register, Filter, Unpark, Work
    <3>4. CASE ParkTimeout \/ Publish \/ Lock \/ Recheck \/ Push
      BY <3>4 DEF ParkTimeout, Publish, Lock, Recheck, Push
    <3>5. CASE UNCHANGED vars BY <3>5 DEF vars, workerVars
    <3> QED BY <3>1, <3>2, <3>3, <3>4, <3>5 DEF Next, UICall, WorkerStep, WorkerFails
  <2>2. generation' \in Nat /\ generation <= generation'
    BY <1>2, ClockStep, MailboxAssumption
  <2> QED BY <1>2, <2>1, <2>2
<1>4. Done' = Done \/ (Push /\ Done' = Done + 1 /\ published = Done + 1 /\ Len(results) < Limit)
  BY <1>2, <1>3, DoneStep
<1>5. job # 0 /\ job = generation =>
        /\ worker \in {"filter", "refilter", "work"} => published = Done
        /\ worker \in {"publish", "lock", "recheck", "push", "full"} => published = Done + 1
  BY <1>1 DEF Hand, Counted
<1>6. CASE TakeSlot
  <2>1. slot = generation /\ slot # 0 /\ Done' = Done /\ published = 0 /\ published' = 0
        /\ worker' \in {"filter", "refilter"}
    BY <1>3, <1>4, <1>6 DEF TakeSlot, Hand, Serves, Push
  <2>2. received = <<>> /\ Held < generation
    BY <1>1, <2>1 DEF Hand, Untouched, OnItsWay
  <2>3. Done = 0
    <3>1. Len(received) = 0 BY <2>2
    <3>2. Waiting = 0 BY <1>2, <2>2 DEF Waiting
    <3> QED BY <3>1, <3>2 DEF Done
  <2> QED BY <2>1, <2>3
<1>7. CASE Push
  <2>1. job' = job /\ published' = published /\ worker = "push"
        /\ worker' = IF Len(results) < Limit THEN "work" ELSE "full"
    BY <1>7 DEF Push
  <2>2. published = Done + 1
    BY <1>3, <1>5, <2>1
  <2>3. CASE Len(results) < Limit
    <3>1. Push /\ results' = Append(results, <<job, published>>)
      BY <1>7, <2>3 DEF Push
    <3>2. ~Left
      <4>1. results \in Seq(Entries) BY DEF Hand, Bounds
      <4>2. Len(results') = Len(results) + 1 BY <3>1, <4>1
      <4> QED BY <4>1, <4>2 DEF Left
    <3>3. results' # <<>>
      <4>1. results \in Seq(Entries) BY DEF Hand, Bounds
      <4> QED BY <3>1, <4>1
    <3>4. Held' = job
      BY <3>2, <3>3, QueueStep DEF Dropped
    <3>5. Done' = Done + 1
      BY <1>1, <1>3, <2>1, <3>1, <3>4, Pushing
    <3> QED BY <2>1, <2>2, <2>3, <3>5
  <2>4. CASE ~(Len(results) < Limit)
    BY <1>4, <2>1, <2>2, <2>4
  <2> QED BY <2>3, <2>4
<1>8. ASSUME ~Push, job' = job,
             \/ worker' = worker /\ published' = published
             \/ worker' \notin {"filter", "refilter"} \cup Serving
             \/ worker \in {"filter", "refilter"} /\ worker' = "work" /\ published' = published
             \/ worker = "work" /\ worker' = "publish" /\ published' = published + 1
             \/ /\ worker \in {"publish", "lock", "recheck", "full"} /\ published' = published
                /\ worker' \in {"publish", "lock", "recheck", "push", "full"}
      PROVE  /\ worker' \in {"filter", "refilter", "work"} => published' = Done'
             /\ worker' \in {"publish", "lock", "recheck", "push", "full"} => published' = Done' + 1
  BY <1>3, <1>4, <1>5, <1>8 DEF Serving
<1>9. CASE Request \/ ClearResults \/ ReplaceSlot \/ Cancel \/ CancelSlot \/ Close \/ Take \/ Wake
           \/ CloseTarget
  <2>1. UNCHANGED workerVars
    BY <1>9 DEF Request, ClearResults, ReplaceSlot, Cancel, CancelSlot, Close, Take, Wake, CloseTarget
  <2> QED BY <1>7, <1>8, <2>1 DEF workerVars
<1>10. CASE StartFails \/ Closing \/ Panic \/ Start \/ Register \/ Loop
  BY <1>7, <1>8, <1>10 DEF StartFails, Closing, Panic, Start, Register, Loop, Serving
<1>11. CASE Filter \/ Unpark \/ ParkTimeout
  BY <1>7, <1>8, <1>11 DEF Filter, Unpark, ParkTimeout, Serving
<1>12. CASE Work \/ Publish \/ Lock \/ Recheck
  BY <1>7, <1>8, <1>12 DEF Work, Publish, Lock, Recheck, Serving
<1>13. CASE UNCHANGED vars BY <1>7, <1>8, <1>13 DEF vars, workerVars
<1> QED BY <1>6, <1>7, <1>9, <1>10, <1>11, <1>12, <1>13 DEF Next, UICall, WorkerStep, WorkerFails

LEMMA PrefixStep == Inv /\ Facts /\ Hand /\ [Next]_vars => Prefix'
<1> SUFFICES ASSUME Inv, Facts, Hand, [Next]_vars, NEW k \in 1..Len(received')
             PROVE  received'[k] = <<asked', k>>
  BY DEF Prefix
<1>1. CASE received' = <<>>
  BY <1>1
<1>2. CASE UNCHANGED <<received, asked>>
  BY <1>2 DEF Hand, Prefix
<1>3. CASE Take /\ Current(Held) /\ received' = received \o results /\ UNCHANGED asked
  <2>1. received \in Seq(Entries) /\ results \in Seq(Entries)
    BY DEF Hand, Bounds
  <2>2. CASE k \in 1..Len(received)
    BY <1>3, <2>1, <2>2 DEF Hand, Prefix
  <2>3. CASE k \notin 1..Len(received)
    <3>1. k - Len(received) \in 1..Len(results) /\ received'[k] = results[k - Len(received)]
      BY <1>3, <2>1, <2>3
    <3>2. closed # TRUE /\ generation = Held /\ Held # 0
      <4>1. results # <<>> BY <2>1, <3>1
      <4> QED BY <1>3, <4>1 DEF Current, Hand, Uniform
    <3>3. asked = generation
      BY <3>2 DEF Hand, Asked
    <3>4. results[k - Len(received)] = <<generation, Len(received) + (k - Len(received))>>
      BY <3>1, <3>2 DEF Hand, Following
    <3>5. Len(received) + (k - Len(received)) = k
      BY <2>1
    <3> QED BY <1>3, <3>1, <3>3, <3>4, <3>5
  <2> QED BY <2>2, <2>3
<1> QED BY <1>1, <1>2, <1>3, HandedStep

LEMMA BoundedStep == Inv /\ Facts /\ Hand /\ [Next]_vars => Bounded'
<1> SUFFICES ASSUME Inv, Facts, Hand, [Next]_vars PROVE Bounded'
  OBVIOUS
<1>1. Len(received) \in 0..Results /\ Results \in Nat /\ Len(results) \in Nat /\ Done \in Nat
      /\ published \in 0..Results
  BY Numbers DEF Hand, Bounded
<1>2. Len(received') \in 0..Results
  <2>1. CASE received' = <<>> \/ received' = received
    BY <1>1, <2>1
  <2>2. CASE Current(Held) /\ received' = received \o results
    <3>1. Len(received') = Len(received) + Len(results)
      BY <2>2 DEF Hand, Bounds
    <3>2. closed # TRUE /\ generation = Held
      BY <2>2 DEF Current
    <3>3. Len(results) = Waiting
      BY <3>2, Numbers DEF Waiting
    <3>4. Done <= Results
      BY <3>2 DEF Hand, Bounded
    <3> QED BY <1>1, <3>1, <3>3, <3>4 DEF Done
  <2> QED BY <2>1, <2>2, HandedStep
<1>3. ASSUME closed' # TRUE PROVE Done' <= Results
  <2>1. Done <= Results
    BY <1>3, ClockStep DEF Hand, Bounded
  <2>2. Done' = Done \/ Done' = published \/ Done' = Len(received')
    BY <1>1, <1>3, DoneStep
  <2> QED BY <1>1, <1>2, <2>1, <2>2
<1> QED BY <1>2, <1>3 DEF Bounded

LEMMA HandStep == Inv /\ Facts /\ Hand /\ [Next]_vars => Hand'
BY BoundsStep, UniformStep, ServesStep, OrderedStep, AskedStep, UntouchedStep, FollowingStep,
   CountedStep, PrefixStep, BoundedStep DEF Hand

LEMMA HandAlways == Spec => [](Inv /\ Facts /\ Hand)
BY Initially, FactsStep, InvStep, HandsNothingYet, HandStep, PTL DEF Spec

\* Every step of the mailbox is a step of the contract or leaves what it speaks of
\* alone.
LEMMA ContractStep == Inv /\ Facts /\ Hand /\ [Next]_vars => [Contract!Next]_<<Wanted, received>>
<1> SUFFICES ASSUME Inv, Facts, Hand, [Next]_vars PROVE [Contract!Next]_<<Wanted, received>>
  OBVIOUS
<1>1. generation \in Nat /\ asked \in 0..generation /\ Wanted \in 0..generation
      /\ generation' \in generation..MaxGeneration /\ MaxGeneration \in Nat
  BY Numbers, ClockStep, MailboxAssumption DEF Wanted
<1>2. ASSUME Wanted' = 0, received' \in {received, <<>>} PROVE Contract!Next
  BY <1>2 DEF Contract!Next, Contract!GiveUp
<1>3. CASE Request
  <2>1. received' = <<>> /\ Advance /\ asked' = IF generation < MaxGeneration THEN generation' ELSE 0
    BY <1>3 DEF Request
  <2>2. CASE ~(generation < MaxGeneration) \/ closed'
    <3>1. Wanted' = 0
      BY <2>1, <2>2 DEF Wanted, Current
    <3> QED BY <1>2, <2>1, <3>1
  <2>3. CASE generation < MaxGeneration /\ ~closed'
    <3>1. generation' = generation + 1 /\ asked' = generation'
      BY <2>1, <2>3 DEF Advance
    <3>2. Wanted' = generation + 1
      BY <1>1, <2>3, <3>1 DEF Wanted, Current
    <3>3. generation + 1 \in 1..MaxGeneration /\ generation + 1 > Wanted
      BY <1>1, <2>3
    <3> QED BY <2>1, <3>2, <3>3 DEF Contract!Next, Contract!Ask
  <2> QED BY <2>2, <2>3
<1>4. CASE Take /\ Dropped /\ Current(Held) /\ received' = received \o results
             /\ UNCHANGED <<generation, closed, asked>>
  <2>1. CASE results = <<>>
    <3>1. received' = received
      BY <1>4, <2>1, ConcatEmptySeq DEF Hand, Bounds
    <3>2. Wanted' = Wanted
      BY <1>4 DEF Wanted, Current
    <3> QED BY <3>1, <3>2
  <2>2. CASE results # <<>>
    <3>1. closed # TRUE /\ generation = Held /\ Held # 0 /\ asked = generation /\ ~closed
      <4>1. generation = Held /\ ~closed BY <1>4 DEF Current
      <4>2. Held # 0 BY <2>2 DEF Hand, Uniform
      <4> QED BY <4>1, <4>2 DEF Hand, Asked
    <3>2. Wanted = asked /\ Wanted' = Wanted /\ Wanted # 0
      BY <1>4, <3>1 DEF Wanted, Current
    <3> DEFINE n == Len(received')
    <3>3. received \in Seq(Entries) /\ results \in Seq(Entries) /\ Len(results) # 0
      BY <2>2, EmptySeq DEF Hand, Bounds
    <3>4. n \in Len(received) + 1 .. Results
      <4>1. n = Len(received) + Len(results) BY <1>4, <3>3
      <4>2. n \in 0..Results BY BoundedStep DEF Bounded
      <4> QED BY <3>3, <4>1, <4>2
    <3>5. received' = SubSeq(Contract!Answer(Wanted), 1, n)
      <4>1. received' \in Seq(Entries) BY BoundsStep DEF Bounds
      <4>2. \A k \in 1..n : received'[k] = <<asked, k>>
        BY <1>4, PrefixStep DEF Prefix
      <4>3. received' = [k \in 1..n |-> <<asked, k>>]
        <5>1. received' = [k \in 1..n |-> received'[k]]
          BY <4>1
        <5> HIDE DEF n
        <5> QED BY <4>2, <5>1
      <4>4. n \in 0..Results /\ Results \in Nat
        BY BoundedStep, MailboxAssumption DEF Bounded
      <4>5. Contract!Answer(Wanted) = [k \in 1..Results |-> <<asked, k>>]
        BY <3>2 DEF Contract!Answer, Contract!Result
      <4> HIDE DEF n
      <4>6. SubSeq([k \in 1..Results |-> <<asked, k>>], 1, n) = [k \in 1..n |-> <<asked, k>>]
        BY <4>4
      <4> QED BY <4>3, <4>5, <4>6
    <3> QED BY <3>2, <3>4, <3>5 DEF Contract!Next, Contract!Deliver
  <2> QED BY <2>1, <2>2
<1>5. CASE UNCHANGED <<received, asked>>
  <2>1. CASE UNCHANGED <<generation, closed>>
    BY <1>5, <2>1 DEF Wanted, Current
  <2>2. CASE closed' = TRUE
    <3>1. Wanted' = 0 BY <2>2 DEF Wanted, Current
    <3> QED BY <1>2, <1>5, <3>1
  <2>3. CASE closed' # TRUE /\ generation' # generation
    <3>1. Wanted' = 0 BY <1>1, <1>5, <2>3 DEF Wanted, Current
    <3> QED BY <1>2, <1>5, <3>1
  <2>4. closed' = TRUE \/ closed' = closed
    BY ClockStep, FactsStep DEF Facts
  <2> QED BY <2>1, <2>2, <2>3, <2>4
<1> QED BY <1>3, <1>4, <1>5, HandedStep

\* The mailbox implements the contract of LatestResults: whatever order the two
\* threads take their steps in, the UI is handed the results of its latest request
\* only, each once, in order, and nothing after a cancel (worker.rs:39-49, 68-75,
\* 102-136).
THEOREM HandsOverTheLatest == Spec => DeliversLatest
<1>1. Init => Contract!Init
  BY DEF Init, Contract!Init, Wanted
<1> QED BY <1>1, HandAlways, ContractStep, PTL DEF Spec, DeliversLatest, Contract!Spec
====
