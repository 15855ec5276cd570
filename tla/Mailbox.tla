-------------------------------- MODULE Mailbox --------------------------------
(***************************************************************************)
(* The latest-request mailbox between the UI thread and one auxiliary      *)
(* worker (src/worker.rs, src/worker/request.rs), with the loop every      *)
(* worker runs (the snapshot, icon, search and settings workers).  The UI  *)
(* never waits: it uses try_lock on the results and wakes the worker by    *)
(* unpark, which leaves a token when the worker is not parked yet.  Each   *)
(* access to an atomic, the slot or the mutex is a step of its own.        *)
(***************************************************************************)
EXTENDS Naturals, Sequences

CONSTANTS
  Limit,            \* result_limit: 1 for most workers, 16 for icons
  Results,          \* results a worker publishes for one request
  MaxGeneration     \* stands for u64::MAX

ASSUME MailboxAssumption ==
  /\ Limit \in Nat \ {0} /\ Results \in Nat \ {0} /\ MaxGeneration \in Nat \ {0}

VARIABLES
  generation,  \* Mailbox.generation
  closed,      \* Mailbox.closed
  slot,        \* Mailbox.request: the generation of the request in it, 0 when empty
  results,     \* Mailbox.results
  locked,      \* the worker holds the results
  registered,  \* Mailbox.waiter is set
  token,       \* the unpark token of the worker thread
  live,        \* WindowTarget.live
  ui,          \* control point of the UI thread
  asked,       \* the generation the last request() returned, 0 when it failed
  received,    \* what take() has returned since then
  worker,      \* control point of the worker thread
  job,         \* the generation the worker holds, 0 when none
  published    \* how many results of job are computed

mailbox == <<generation, closed, slot, results, locked, registered, token>>
uiVars == <<ui, asked, received>>
workerVars == <<worker, job, published>>
vars == <<mailbox, live, uiVars, workerVars>>

Current(g) == ~closed /\ generation = g

\* The results of the request that is current, in the order they wait: what
\* retain() keeps of them and what take() drains (as a recursive function and not
\* by SelectSeq, which the proof system does not expand).
Fresh ==
  LET kept[n \in 0..Len(results)] ==
        IF n = 0 THEN <<>>
        ELSE IF Current(results[n][1]) THEN Append(kept[n - 1], results[n])
        ELSE kept[n - 1]
  IN  kept[Len(results)]

\* advance(): checked_add, and the exhausted counter closes the mailbox.
Advance ==
  IF generation < MaxGeneration
    THEN generation' = generation + 1 /\ closed' = closed
    ELSE generation' = generation /\ closed' = TRUE

Init ==
  /\ generation = 0 /\ closed = FALSE /\ slot = 0 /\ results = <<>>
  /\ locked = FALSE /\ registered = FALSE /\ token = FALSE /\ live = TRUE
  /\ ui = "idle" /\ asked = 0 /\ received = <<>>
  /\ worker = "start" /\ job = 0 /\ published = 0

-------------------------------------------------------------------------------
(* The UI thread.                                                           *)

Request ==
  /\ ui = "idle" /\ ui' = "request_clear"
  /\ Advance
  /\ asked' = IF generation < MaxGeneration THEN generation' ELSE 0
  /\ received' = <<>>
  /\ UNCHANGED <<slot, results, locked, registered, token, live, workerVars>>

\* request() and cancel() empty the results, unless the worker holds them.
ClearResults ==
  /\ \/ ui = "request_clear" /\ ui' = "request_slot"
     \/ ui = "cancel_clear" /\ ui' = "wake"
  /\ results' = IF locked THEN results ELSE <<>>
  /\ UNCHANGED <<generation, closed, slot, locked, registered, token, live,
                 asked, received, workerVars>>

ReplaceSlot ==
  /\ ui = "request_slot" /\ ui' = "wake"
  /\ slot' = IF closed THEN slot ELSE asked
  /\ UNCHANGED <<generation, closed, results, locked, registered, token, live,
                 asked, received, workerVars>>

Cancel ==
  /\ ui \in {"idle", "cancel"} /\ ui' = "cancel_slot"
  /\ Advance
  /\ UNCHANGED <<slot, results, locked, registered, token, live, asked, received, workerVars>>

CancelSlot ==
  /\ ui = "cancel_slot" /\ ui' = "cancel_clear"
  /\ slot' = 0
  /\ UNCHANGED <<generation, closed, results, locked, registered, token, live,
                 asked, received, workerVars>>

Close ==
  /\ ui = "idle" /\ ui' = "cancel"
  /\ closed' = TRUE
  /\ UNCHANGED <<generation, slot, results, locked, registered, token, live,
                 asked, received, workerVars>>

\* Mutants: stale results handed over; a worker waiting for room is not woken.
TakeUnfiltered ==
  /\ ui = "idle" /\ ui' = "wake"
  /\ ~locked
  /\ received' = received \o results
  /\ results' = <<>>
  /\ UNCHANGED <<generation, closed, slot, locked, registered, token, live, asked, workerVars>>

TakeWithoutWake ==
  /\ ui = "idle"
  /\ ~locked
  /\ received' = received \o Fresh
  /\ results' = <<>>
  /\ UNCHANGED <<generation, closed, slot, locked, registered, token, live, ui, asked, workerVars>>

\* take(): nothing, not even the wake, when the worker holds the results.
Take ==
  /\ ui = "idle" /\ ui' = "wake"
  /\ ~locked
  /\ received' = received \o Fresh
  /\ results' = <<>>
  /\ UNCHANGED <<generation, closed, slot, locked, registered, token, live, asked, workerVars>>

\* The mutant notifies like a condition variable: it reaches a sleeper only.
WakeSleeperOnly ==
  /\ ui = "wake" /\ ui' = "idle"
  /\ token' = (token \/ (registered /\ worker \in {"park", "full"}))
  /\ UNCHANGED <<generation, closed, slot, results, locked, registered, live,
                 asked, received, workerVars>>

Wake ==
  /\ ui = "wake" /\ ui' = "idle"
  /\ token' = (token \/ registered)
  /\ UNCHANGED <<generation, closed, slot, results, locked, registered, live,
                 asked, received, workerVars>>

CloseTarget ==
  /\ live /\ live' = FALSE
  /\ UNCHANGED <<mailbox, uiVars, workerVars>>

UICall == ClearResults \/ ReplaceSlot \/ CancelSlot \/ (ui = "cancel" /\ Cancel) \/ Wake

-------------------------------------------------------------------------------
(* The worker thread.                                                       *)

Start ==
  /\ worker = "start" /\ worker' = "loop"
  /\ UNCHANGED <<mailbox, live, uiVars, job, published>>

\* COM cannot be initialised: the worker itself closes the mailbox and ends.
StartFails ==
  /\ worker = "start" /\ worker' = "closing"
  /\ closed' = TRUE
  /\ UNCHANGED <<generation, slot, results, locked, registered, token, live, uiVars,
                 job, published>>

Closing ==
  /\ worker = "closing" /\ worker' = "ended"
  /\ Advance /\ slot' = 0 /\ results' = <<>>
  /\ UNCHANGED <<locked, registered, token, live, uiVars, job, published>>

Loop ==
  /\ worker = "loop"
  /\ worker' = IF closed \/ ~live THEN "ended" ELSE "receive"
  /\ job' = 0 /\ published' = 0
  /\ UNCHANGED <<mailbox, live, uiVars>>

Register ==
  /\ worker = "receive" /\ worker' = "take"
  /\ registered' = TRUE
  /\ UNCHANGED <<generation, closed, slot, results, locked, token, live, uiVars, job, published>>

\* the slot is emptied, before and after parking
TakeSlot ==
  /\ \/ worker = "take" /\ worker' = "filter"
     \/ worker = "retake" /\ worker' = "refilter"
  /\ job' = slot /\ slot' = 0
  /\ UNCHANGED <<generation, closed, results, locked, registered, token, live, uiVars, published>>

Filter ==
  /\ worker \in {"filter", "refilter"}
  /\ \/ job # 0 /\ Current(job) /\ worker' = "work"
     \/ /\ ~(job # 0 /\ Current(job))
        /\ worker' = IF worker = "filter" /\ ~closed THEN "park" ELSE "loop"
  /\ UNCHANGED <<mailbox, live, uiVars, job, published>>

\* park_timeout returns on a token, on its timeout, or for no reason.
Unpark ==
  /\ worker \in {"park", "full"} /\ token
  /\ worker' = IF worker = "park" THEN "retake" ELSE "publish"
  /\ token' = FALSE
  /\ UNCHANGED <<generation, closed, slot, results, locked, registered, live, uiVars,
                 job, published>>

ParkTimeout ==
  /\ worker \in {"park", "full"}
  /\ worker' = IF worker = "park" THEN "retake" ELSE "publish"
  /\ UNCHANGED <<mailbox, live, uiVars, job, published>>

\* The next result is computed, or the request is answered or given up.
Work ==
  /\ worker = "work"
  /\ \/ /\ published < Results
        /\ published' = published + 1 /\ worker' = "publish"
     \/ /\ published = Results \/ ~Current(job) \/ ~live
        /\ published' = published /\ worker' = "loop"
  /\ UNCHANGED <<mailbox, live, uiVars, job>>

\* the operation panics and takes the thread with it
Panic ==
  /\ worker = "work" /\ published < Results
  /\ worker' = "ended"
  /\ UNCHANGED <<mailbox, live, uiVars, job, published>>

\* publish(): give up, wait for room, or append; the recheck under the lock may
\* still be overtaken by the UI before the append.
Publish ==
  /\ worker = "publish"
  /\ worker' = IF Current(job) THEN "lock" ELSE "loop"
  /\ UNCHANGED <<mailbox, live, uiVars, job, published>>

Lock ==
  /\ worker = "lock" /\ worker' = "recheck"
  /\ locked' = TRUE
  /\ results' = Fresh
  /\ UNCHANGED <<generation, closed, slot, registered, token, live, uiVars, job, published>>

Recheck ==
  /\ worker = "recheck"
  /\ IF Current(job) THEN worker' = "push" /\ locked' = TRUE
                     ELSE worker' = "loop" /\ locked' = FALSE
  /\ UNCHANGED <<generation, closed, slot, results, registered, token, live, uiVars,
                 job, published>>

\* The mutant drops a result when there is no room.
PushDropsWhenFull ==
  /\ worker = "push"
  /\ results' = IF Len(results) < Limit THEN Append(results, <<job, published>>) ELSE results
  /\ worker' = "work"
  /\ locked' = FALSE
  /\ UNCHANGED <<generation, closed, slot, registered, token, live, uiVars, job, published>>

Push ==
  /\ worker = "push"
  /\ IF Len(results) < Limit
       THEN results' = Append(results, <<job, published>>) /\ worker' = "work"
       ELSE results' = results /\ worker' = "full"
  /\ locked' = FALSE
  /\ UNCHANGED <<generation, closed, slot, registered, token, live, uiVars, job, published>>

WorkerStep ==
  \/ Start \/ Loop \/ Register \/ TakeSlot \/ Filter \/ Unpark \/ ParkTimeout
  \/ Work \/ Publish \/ Lock \/ Recheck \/ Push

WorkerFails == StartFails \/ Closing \/ Panic

-------------------------------------------------------------------------------
Next ==
  \/ Request \/ Cancel \/ Close \/ Take \/ UICall \/ CloseTarget
  \/ WorkerStep \/ WorkerFails

Spec == Init /\ [][Next]_vars

\* UI calls return; the 50 ms timer polls take() again and again, and the worker
\* holds the mutex too briefly to make every try_lock fail; the worker is
\* scheduled and its operations return.
Fairness == WF_vars(UICall) /\ SF_vars(Take) /\ WF_vars(WorkerStep \/ Closing)

FairSpec == Spec /\ Fairness
-------------------------------------------------------------------------------
(* Properties.                                                              *)

\* The UI is handed the results of its latest request only, each once, in order,
\* and nothing after a cancel: the mailbox implements LatestResults
\* (worker.rs:39-49, 68-75, 102-136).
Wanted == IF asked # 0 /\ Current(asked) THEN asked ELSE 0
Contract == INSTANCE LatestResults WITH wanted <- Wanted
DeliversLatest == Contract!Spec

\* A worker that sleeps in receive() has been told of every request: with the
\* slot filled it has its token, or the UI is about to give it one
\* (worker.rs:85-100, 138-142).
NoSleepOnRequest ==
  worker = "park" /\ ~token /\ slot # 0 /\ Current(slot) => ui = "wake"

\* A worker that sleeps in publish() for want of room has been told of the room
\* the UI made (worker.rs:102-122, 134).
NoSleepWithRoom ==
  worker = "full" /\ ~token /\ Current(job) /\ Len(results) < Limit => ui = "wake"

\* No wakeup is lost on the way to a worker that sleeps: neither that of a
\* request nor that of room for a result (worker.rs:85-142).
NoLostWakeup == NoSleepOnRequest /\ NoSleepWithRoom

\* A request that stays the latest is answered in full, although results wait for
\* room and try_lock may fail; unless the worker, the mailbox or the application
\* ends (worker.rs:102-136).
EveryRequestAnswered ==
  <>[](asked # 0 /\ Current(asked) /\ live /\ worker # "ended")
    => <>[](Len(received) = Results)
===============================================================================
