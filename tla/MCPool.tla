------------------------------- MODULE MCPool -------------------------------
(* What has to happen in the end on the threads of the pool: in the          *)
(* dispatcher, and with the messages to a webhook. `part' says which of the  *)
(* two this behaviour is about; the other stands still.                      *)
EXTENDS MCDispatcher, Webhook

VARIABLE part

poolVars == <<part, vars, webhookVars>>

PoolInit ==
  /\ part \in {"dispatcher", "webhook"}
  /\ Init /\ WebhookInit
  /\ part # "webhook" => bad = {}

Dispatching == part = "dispatcher" /\ part' = part /\ UNCHANGED webhookVars
Posting == part = "webhook" /\ part' = part /\ UNCHANGED vars

PoolNext ==
  \/ Dispatching /\ Next
  \/ Posting /\ WebhookNext

\* As in Dispatcher and in Webhook.
PoolFairness ==
  /\ WF_poolVars(Dispatching /\ DispatcherStep)
  /\ \A t \in Thread : WF_poolVars(Dispatching /\ Notify(t))
  /\ WF_poolVars(Dispatching /\ Tick)
  /\ WF_poolVars(Posting /\ Run)
  /\ SF_poolVars(Posting /\ SendPayload)
  /\ WF_poolVars(Posting /\ \E w \in Workers : TakeNext(w))
  /\ SF_poolVars(Posting /\ \E w \in Workers : Begin(w))
  /\ WF_poolVars(Posting /\ \E w \in Workers : Answered(w))
  /\ SF_poolVars(Posting /\ \E w \in Workers : Succeeds(w))

PoolSpec == PoolInit /\ [][PoolNext]_poolVars /\ PoolFairness

\* EventuallyRuns, CycleKeepsRunning and StopEndsLoop of Dispatcher: see there.
LoopGoesOnAndEnds ==
  part = "dispatcher" => EventuallyRuns /\ CycleKeepsRunning /\ StopEndsLoop

\* The type invariants of the components.
PoolTypeOK == TypeOK /\ WebhookTypeOK
=============================================================================
