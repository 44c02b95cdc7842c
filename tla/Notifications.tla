---------------------------- MODULE Notifications ----------------------------
(***************************************************************************)
(* The notifications service: every mail of the system is sent by a handler *)
(* of the consumer in RmqConsumer, wired with retry and dead-letter queues. *)
(* A handler hands its mail to the SMTP host and waits for the answer; the   *)
(* host may have accepted the mail although the answer is lost, and the      *)
(* process may die, or its connection, before the event is acked.           *)
(***************************************************************************)
EXTENDS RmqConsumer

CONSTANT MaxDoubts \* bound: accepted mails that are reported as failed

ASSUME DoubtAssumption == MaxDoubts \in Nat

VARIABLES
  mails,    \* mails[m]: mails for event m that the SMTP host accepted
  accepted, \* handlers whose mail was accepted and that wait for the answer
  doubts    \* answers lost so far

mail == <<mails, accepted, doubts>>
vars == <<rmqVars, mail>>

TypeOK ==
  /\ RmqTypeOK
  /\ mails \in [Msg -> Nat]
  /\ accepted \subseteq {k \in Slot : At(k, "running")}
  /\ doubts \in 0..MaxDoubts

Init ==
  /\ RmqInit
  /\ mails = [m \in Msg |-> 0]
  /\ accepted = {}
  /\ doubts = 0

Waits(k) == At(k, "running") /\ k \notin accepted
Answered(k) == accepted' = accepted \ {k}
-----------------------------------------------------------------------------
\* sendMail: the host takes the mail.
Accept(k) ==
  /\ Waits(k)
  /\ mails' = [mails EXCEPT ![run[k].msg] = @ + 1]
  /\ accepted' = accepted \cup {k}
  /\ UNCHANGED <<rmqVars, doubts>>

\* The answer arrives and the handler is done.
Sent(k) ==
  /\ k \in accepted
  /\ HandlerReturns(k)
  /\ Answered(k)
  /\ UNCHANGED <<mails, doubts>>

\* Mutant of SendFails: the failure is logged and swallowed.
SendFailsQuietly(k) ==
  /\ Waits(k)
  /\ HandlerReturns(k)
  /\ UNCHANGED mail

\* The host refuses the mail or cannot be reached: logged and rethrown.
SendFails(k) ==
  /\ Waits(k)
  /\ HandlerThrows(k)
  /\ UNCHANGED mail

\* The mail is out, but the call is reported as failed.
SendInDoubt(k) ==
  /\ k \in accepted
  /\ doubts < MaxDoubts
  /\ doubts' = doubts + 1
  /\ HandlerThrows(k)
  /\ Answered(k)
  /\ UNCHANGED mails

Die(k) ==
  /\ Crash(k)
  /\ Answered(k)
  /\ UNCHANGED <<mails, doubts>>
-----------------------------------------------------------------------------
\* welcomeEmail and forgotPasswordEmail differ in the text only.
SendMail(k) == Accept(k) \/ Sent(k) \/ SendFails(k) \/ SendInDoubt(k)

Around(k) == (Settle(k) \/ LoseConnection(k)) /\ UNCHANGED mail

Next == \/ Transport /\ UNCHANGED mail
        \/ \E k \in Slot : SendMail(k) \/ Around(k) \/ Die(k)

Spec == Init /\ [][Next]_vars

FairSpec ==
  /\ Spec
  /\ \A k \in Slot :
       /\ WF_vars((\E m \in Msg, n \in Count : Deliver(k, m, n)) /\ UNCHANGED mail)
       /\ WF_vars(SendMail(k))
       /\ WF_vars(Settle(k) /\ UNCHANGED mail)
  /\ WF_vars((\E m \in Msg, n \in Count : RetryExpires(m, n)) /\ UNCHANGED mail)
-----------------------------------------------------------------------------
\* "at-least-once [...] for never silently dropping one" (notifications
\* .controller.ts:15-17): an event without mail is still in the broker or in
\* the DLQ, however often its handlers fail, die or lose their connection.
NeverSilentlyDropped ==
  \A m \in Msg : published[m] > 0 /\ mails[m] = 0 => InFlight(m) \/ dlq[m] > 0

\* "a redelivery can send the same email twice" (notifications.controller.ts:
\* 16), and nothing else can: the mails sent for an event and those that its
\* copies and handlers are still to send never exceed the copies published, one
\* more for each crash or lost connection and for each lost answer.
Coming(m) ==
  Queued(m) + Cardinality({k \in Slot : Waits(k) /\ run[k].msg = m})
            + Cardinality({k \in Slot : /\ At(k, "failed") /\ Live(k)
                                        /\ run[k].msg = m})
MailsExplained ==
  \A m \in Msg : mails[m] + Coming(m) <= published[m] + faults + doubts

\* "retries with backoff and then dead-letters, so a failed email is visible
\* and replayable instead of gone" (notifications.service.ts:39-41): every
\* event ends as a mail or in the DLQ, even if every attempt fails.
MailedOrParked ==
  \A m \in Msg : published[m] > 0 ~> (mails[m] > 0 \/ dlq[m] > 0)
=============================================================================
