---------------------------- MODULE MCCrossServer ----------------------------
(***************************************************************************)
(* What leaves this server and what it keeps of others: the outbox, one    *)
(* remote answer and one workspace's webhooks. They share no row, so each  *)
(* behaviour follows one of them, named by part, from its own Init.        *)
(***************************************************************************)
EXTENDS GrantDeliveries, RemoteGrants, Webhooks

VARIABLE part

serverVars == <<part, vars, remoteVars, webhookVars>>

CrossServerInit == part \in {"outbox", "remote", "webhooks"} /\ Init /\ RemoteInit /\ WebhooksInit

OutboxPart == part = "outbox" /\ UNCHANGED <<part, remoteVars, webhookVars>>
RemotePart == part = "remote" /\ UNCHANGED <<part, vars, webhookVars>>
WebhookPart == part = "webhooks" /\ UNCHANGED <<part, vars, remoteVars>>

CrossServerNext == \/ OutboxPart /\ Next
                   \/ RemotePart /\ RemoteNext
                   \/ WebhookPart /\ WebhooksNext

CrossServerSafety == CrossServerInit /\ [][CrossServerNext]_serverVars

\* The fairness of each component, in the behaviours that follow it.
OutboxFairness ==
  /\ WF_vars(OutboxPart /\ DeliverDue) /\ WF_vars(OutboxPart /\ Beat)
  /\ WF_vars(OutboxPart /\ TakeKick) /\ SF_vars(OutboxPart /\ TakeTick)
  /\ WF_vars(OutboxPart /\ Tick)

AnswerFairness ==
  /\ WF_remoteVars(RemotePart /\ AnnounceRemote) /\ WF_remoteVars(RemotePart /\ RemoteTick)
  /\ WF_remoteVars(RemotePart /\ Settling) /\ WF_remoteVars(RemotePart /\ Accepting)
  /\ SF_remoteVars(RemotePart /\ DeliverLast)
  /\ \A h \in Handlers : WF_remoteVars(RemotePart /\ Apply(h))
  /\ \A q \in Readers : /\ WF_remoteVars(RemotePart /\ Ask(q))
                        /\ WF_remoteVars(RemotePart /\ WriteBack(q))
                        /\ SF_remoteVars(RemotePart /\ Answer(q))
                        /\ SF_remoteVars(RemotePart /\ Receive(q))

HookFairness ==
  /\ WF_webhookVars(WebhookPart /\ RunWebhookDeliveries)
  /\ WF_webhookVars(WebhookPart /\ WebhookTick)
  /\ \A r \in Rows : WF_webhookVars(WebhookPart /\ AttemptWebhook(<<"worker", r>>))

CrossServerSpec == CrossServerSafety /\ OutboxFairness /\ AnswerFairness /\ HookFairness

\* The variables of the three components stay in their types.
CrossServerTypeOK == part \in {"outbox", "remote", "webhooks"} /\ TypeOK /\ RemoteTypeOK /\ WebhooksTypeOK

\* Nothing is given up before its attempts are used, unless it was refused for good or
\* switched off: a callback or mail (deliverDue) and a webhook (AttemptWebhookDelivery);
\* with all variables in their types.
GivenUpForCause == CrossServerTypeOK /\ GivenUpRightly /\ GivenUpAfterAll
=============================================================================
