------------------------------- MODULE Webhook -------------------------------
(* Messages to a Discord webhook (server/network/webhook/webhook.cpp).       *)
(*                                                                           *)
(* The dispatcher queues messages. Once a second it detaches a job that      *)
(* sends the oldest one; the job holds the lock of the queue for the whole   *)
(* HTTP request, so that the dispatcher, and further jobs, wait for Discord. *)
(* The jobs share the thread pool with everything else.                      *)
EXTENDS Naturals, Sequences

CONSTANTS
  Workers,      \* threads of the pool other than the dispatcher's
  NoWorker,     \* taskLock is free
  MaxMessages,  \* bound: messages queued
  MaxJobs       \* bound: jobs that wait for a thread of the pool

ASSUME WebhookAssumption ==
  NoWorker \notin Workers /\ MaxMessages \in Nat /\ MaxJobs \in Nat \ {0}

VARIABLES
  queue,     \* webhooks: numbers of the messages not yet sent
  posted,     \* messages sendPayload has queued so far
  caller,    \* the dispatcher is "free", or in sendPayload and "wants" the lock
  lock,      \* taskLock: the job that holds it while it waits for Discord
  worker,    \* what each thread does: "idle", "wants" the lock, "requests"
  jobs,      \* jobs that wait for a thread, "send" or "other"
  other,     \* a job of something else: "none" yet, "waits", "done"
  bad,       \* messages Discord will not accept, say for a quote in the text
  received   \* history: the newest message Discord has

webhookVars == <<queue, posted, caller, lock, worker, jobs, other, bad, received>>

WebhookInit ==
  /\ queue = <<>> /\ posted = 0 /\ received = 0
  /\ caller = "free" /\ lock = NoWorker
  /\ worker = [w \in Workers |-> "idle"]
  /\ jobs = <<>> /\ other = "none"
  /\ bad \in SUBSET (1..MaxMessages)

----------------------------------------------------------------------------
(* The dispatcher.                                                           *)

\* sendMessage, called by a script, a raid, or the start of the server.
SendMessage ==
  /\ caller = "free" /\ posted < MaxMessages
  /\ caller' = "wants"
  /\ UNCHANGED <<queue, posted, lock, worker, jobs, other, bad, received>>

SendPayload ==
  /\ caller = "wants" /\ lock = NoWorker
  /\ queue' = Append(queue, posted + 1)
  /\ posted' = posted + 1
  /\ caller' = "free"
  /\ UNCHANGED <<lock, worker, jobs, other, bad, received>>

\* run, a task that schedules itself again.
Run ==
  /\ caller = "free" /\ Len(jobs) < MaxJobs
  /\ jobs' = Append(jobs, "send")
  /\ UNCHANGED <<queue, posted, caller, lock, worker, other, bad, received>>

\* A save, a query, or whatever else is left to the pool.
DetachOther ==
  /\ caller = "free" /\ Len(jobs) < MaxJobs
  /\ other = "none" /\ other' = "waits"
  /\ jobs' = Append(jobs, "other")
  /\ UNCHANGED <<queue, posted, caller, lock, worker, bad, received>>

----------------------------------------------------------------------------
(* The pool: sendWebhook.                                                    *)

TakeNext(w) ==
  /\ worker[w] = "idle" /\ jobs # <<>>
  /\ IF Head(jobs) = "send"
     THEN worker' = [worker EXCEPT ![w] = "wants"] /\ UNCHANGED other
     ELSE other' = "done" /\ UNCHANGED worker
  /\ jobs' = Tail(jobs)
  /\ UNCHANGED <<queue, posted, caller, lock, bad, received>>

\* Mutant: the lock is not held during the request.
BeginUnlocked(w) ==
  /\ worker[w] = "wants" /\ lock = NoWorker
  /\ worker' = [worker EXCEPT ![w] = IF queue = <<>> THEN "idle" ELSE "requests"]
  /\ UNCHANGED <<queue, posted, caller, lock, jobs, other, bad, received>>

\* The lock is taken; without a message the job ends.
Begin(w) ==
  /\ worker[w] = "wants" /\ lock = NoWorker
  /\ IF queue = <<>>
     THEN worker' = [worker EXCEPT ![w] = "idle"] /\ UNCHANGED lock
     ELSE worker' = [worker EXCEPT ![w] = "requests"] /\ lock' = w
  /\ UNCHANGED <<queue, posted, caller, jobs, other, bad, received>>

End(w) ==
  /\ worker[w] = "requests"
  /\ worker' = [worker EXCEPT ![w] = "idle"] /\ lock' = NoWorker
  /\ UNCHANGED <<posted, caller, jobs, other, bad>>

\* Mutant: a message that was sent stays in the queue.
SucceedsKeeps(w) ==
  /\ End(w)
  /\ Head(queue) \notin bad
  /\ received' = Head(queue)
  /\ UNCHANGED queue

Succeeds(w) ==
  /\ End(w)
  /\ Head(queue) \notin bad
  /\ received' = Head(queue)
  /\ queue' = Tail(queue)

\* Discord has the message, but its answer is lost, or is a timeout (504).
AnswerIsLost(w) ==
  /\ End(w)
  /\ Head(queue) \notin bad
  /\ received' = Head(queue)
  /\ UNCHANGED queue

\* Mutant: a message that fails is dropped.
FailsForGood(w) ==
  /\ End(w)
  /\ queue' = Tail(queue)
  /\ UNCHANGED received

\* Mutant: the lock is not released.
FailsLocked(w) ==
  /\ worker[w] = "requests"
  /\ worker' = [worker EXCEPT ![w] = "idle"]
  /\ UNCHANGED <<queue, posted, caller, lock, jobs, other, bad, received>>

\* No connection, too many requests (429), or a status from 300 on: the
\* message stays at the head of the queue.
Fails(w) ==
  /\ End(w)
  /\ UNCHANGED <<queue, received>>

----------------------------------------------------------------------------

Answered(w) == Succeeds(w) \/ AnswerIsLost(w) \/ Fails(w)

WebhookNext ==
  \/ SendMessage \/ SendPayload \/ Run \/ DetachOther
  \/ \E w \in Workers : TakeNext(w) \/ Begin(w) \/ Answered(w)

WebhookSpec == WebhookInit /\ [][WebhookNext]_webhookVars

(* run is scheduled again and again; threads go on; a request ends, which    *)
(* curl alone does not guarantee (no CURLOPT_TIMEOUT); the dispatcher gets   *)
(* the lock in the end, and while jobs wait for it one of them does; and     *)
(* Discord does not fail for ever to take what it can take.                  *)
WebhookFairness ==
  /\ WF_webhookVars(Run)
  /\ SF_webhookVars(SendPayload)
  /\ WF_webhookVars(\E w \in Workers : TakeNext(w))
  /\ SF_webhookVars(\E w \in Workers : Begin(w))
  /\ WF_webhookVars(\E w \in Workers : Answered(w))
  /\ SF_webhookVars(\E w \in Workers : Succeeds(w))

WebhookFairSpec == WebhookSpec /\ WebhookFairness

----------------------------------------------------------------------------
(* Properties.                                                               *)

\* The type invariant: what is queued is the newest messages, in order, and
\* only the holder of the lock talks to Discord.
WebhookTypeOK ==
  /\ posted \in 0..MaxMessages /\ received \in 0..posted
  /\ queue \in Seq(1..MaxMessages) /\ Len(queue) <= posted
  /\ \A i \in 1..Len(queue) : queue[i] = posted - Len(queue) + i
  /\ caller \in {"free", "wants"}
  /\ lock \in Workers \union {NoWorker}
  /\ worker \in [Workers -> {"idle", "wants", "requests"}]
  /\ \A w \in Workers : worker[w] = "requests" <=> lock = w
  /\ lock # NoWorker => queue # <<>>
  /\ jobs \in Seq({"send", "other"})
  /\ other \in {"none", "waits", "done"}
  /\ bad \subseteq 1..MaxMessages

\* Messages reach Discord in the order they were sent in and none is left
\* out; the newest one may arrive again, when its answer is lost.
NoMessageSkipped == [][received' \in {received, received + 1}]_webhookVars

\* A message is delivered unless it, or one before it, is one that Discord
\* does not accept: such a message stays at the head of the queue for ever.
Delivered ==
  \A n \in 1..MaxMessages :
    (posted >= n /\ \A b \in bad : b > n) ~> received >= n

\* The dispatcher does not wait for Discord for ever ...
DispatcherGetsAway == caller = "wants" ~> caller = "free"

\* ... and neither does the other work of the pool, although jobs that wait
\* for the lock fill its threads.
OtherWorkIsDone == other = "waits" ~> other = "done"

\* Discord holds up nobody for ever.
NobodyWaitsForDiscord == DispatcherGetsAway /\ OtherWorkIsDone
=============================================================================
