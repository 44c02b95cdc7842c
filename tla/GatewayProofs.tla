----------------------------- MODULE GatewayProofs -----------------------------
(***************************************************************************)
(* For any requests, tokens, replicas and faults: every route is served, a   *)
(* request goes on only as the user of its own token, a 401 has its cause,   *)
(* a service's status is the status of the response, and no request is left  *)
(* waiting for what nobody will send.                                       *)
(*                                                                         *)
(* The invariant follows a verdict on its way: it is true of the token when  *)
(* the handler ends, stays true while it is a reply, and is still true when   *)
(* the gateway acts on it, because tokens only expire and a request only     *)
(* gains outcomes.                                                           *)
(***************************************************************************)
EXTENDS Gateway, RmqConsumerProofs

USE DEF broker, history, rmqVars, web, auth, hurt

-----------------------------------------------------------------------------
\* The inductive invariant.

\* A reason to refuse the token of q.
Doubt(q) == TokenOf(q) \notin Genuine \/ TokenOf(q) \in expired \/ q \in detached

\* What auth's handler k has found out.
Knows(k) ==
  /\ ~IsIdle(k) => /\ run[k].pc # "rerouted"
                   /\ ~Live(k) => Asker(k) \in detached
  /\ k \in past => /\ Handles(k, "verify")
                   /\ TokenOf(Asker(k)) \in Genuine
  /\ At(k, "succeeded") \/ At(k, "failed") =>
       IF run[k].msg[2] = "serve" THEN outcome[k] \in outcomes[Asker(k)]
       ELSE \/ outcome[k] = Ok /\ TokenOf(Asker(k)) \in Genuine
            \/ outcome[k] = Unauthorized /\ Doubt(Asker(k))

\* A status that a handler of q gave, or the late one's.
Explained(q, status) == \/ \E e \in outcomes[q] : status = RpcStatus(e)
                        \/ status = 500 /\ q \in detached

Truthful(r) ==
  /\ r.req \in Req /\ r.stage \in Stage
  /\ r.stage = "serve" => Explained(r.req, r.status)
  /\ r.stage = "verify" /\ r.status = 200 =>
       TokenOf(r.req) \in Genuine /\ r.user = Bearer[TokenOf(r.req)]
  /\ r.stage = "verify" /\ r.status # 200 => Doubt(r.req)

\* What the gateway has done with q.
Treated(q) ==
  /\ phase[q] \in {"admitted", "serving"} /\ HasGuard(q, "AuthGuard") =>
       TokenOf(q) \in Genuine /\ user[q] = Bearer[TokenOf(q)]
  /\ phase[q] = "serving" => HasRole(q)
  /\ answer[q] = [by |-> "gateway", status |-> 401] => Doubt(q)
  /\ answer[q].by = "service" => Explained(q, answer[q].status)

IInv == /\ TypeOK /\ DOMAIN answer = Req
        /\ \A k \in Slot : Knows(k)
        /\ \A r \in replies : Truthful(r)
        /\ \A q \in Req : Treated(q)
-----------------------------------------------------------------------------
\* Of messages and outcomes.

LEMMA AskerType ==
  ASSUME TypeOK, NEW k \in Slot, ~IsIdle(k)
  PROVE  /\ Asker(k) \in Req /\ run[k].msg[2] \in Stage
         /\ run[k].msg \in Rpc
         /\ http[Asker(k)] \in HttpRequest
<1>1. run[k].msg \in Req \X Stage /\ run[k].msg \in Rpc
  BY BusyRun, GatewayAssumption DEF TypeOK
<1>2. QED BY <1>1 DEF Asker, TypeOK

LEMMA Statuses ==
  ASSUME NEW e \in Outcome
  PROVE  /\ e # Ok => RpcStatus(e) # 200
         /\ RpcStatus(e) = IF e.kind = "HttpException" THEN e.status
                           ELSE IF e = Ok THEN 200 ELSE 500
  BY DEF Outcome, Exception, HttpException, Ok, Unauthorized, RpcStatus

LEMMA OutcomeTypes ==
  /\ Ok \in Outcome /\ Unauthorized \in Outcome /\ Unauthorized # Ok
  /\ Exception \subseteq Outcome /\ RpcStatus(Ok) = 200
  BY DEF Outcome, Exception, HttpException, Ok, Unauthorized, RpcStatus
-----------------------------------------------------------------------------
\* What is once true of a request stays true.

Grown == /\ http' = http /\ expired \subseteq expired' /\ detached \subseteq detached'
         /\ \A q \in Req : outcomes[q] \subseteq outcomes'[q]

LEMMA GrownFacts ==
  ASSUME Grown, NEW q \in Req
  PROVE  /\ TokenOf(q)' = TokenOf(q) /\ (Doubt(q) => Doubt(q)')
         /\ \A g : HasGuard(q, g)' = HasGuard(q, g)
         /\ \A status : Explained(q, status) => Explained(q, status)'
  BY DEF Grown, Doubt, Explained, TokenOf, HasGuard

LEMMA StillTruthful ==
  ASSUME Grown, NEW r, Truthful(r)
  PROVE  Truthful(r)'
<1>1. r.req \in Req /\ r.stage \in Stage
  BY DEF Truthful
<1>2. TokenOf(r.req)' = TokenOf(r.req) /\ (Doubt(r.req) => Doubt(r.req)')
  BY <1>1 DEF Grown, Doubt, TokenOf
<1>3. Explained(r.req, r.status) => Explained(r.req, r.status)'
  BY <1>1 DEF Grown, Explained
<1>4. QED BY <1>1, <1>2, <1>3 DEF Truthful

LEMMA StillKnows ==
  ASSUME IInv, Grown, NEW j \in Slot, run'[j] = run[j], outcome'[j] = outcome[j],
         j \in past' => j \in past
  PROVE  Knows(j)'
<1>1. CASE IsIdle(j)
  <2>1. j \notin past
    BY <1>1 DEF IInv, Knows, Handles, At
  <2>2. QED BY <1>1, <2>1 DEF Knows, IsIdle, At
<1>2. CASE ~IsIdle(j)
  <2>1. PICK q : q = Asker(j)
    OBVIOUS
  <2>2. q \in Req /\ run[j].msg[1] = q
    BY <1>2, <2>1, AskerType DEF IInv, Asker
  <2>3. TokenOf(q)' = TokenOf(q) /\ (Doubt(q) => Doubt(q)')
    BY <2>2 DEF Grown, Doubt, TokenOf
  <2>4. outcomes[q] \subseteq outcomes'[q] /\ detached \subseteq detached'
    BY <2>2 DEF Grown
  <2>5. Asker(j)' = q /\ IsIdle(j)' = IsIdle(j) /\ Live(j)' = Live(j)
    BY <2>1 DEF Asker, IsIdle, Live
  <2>6. TokenOf(Asker(j))' = TokenOf(q)' /\ Doubt(Asker(j))' = Doubt(q)'
    BY <2>5 DEF TokenOf, Doubt
  <2>7. Knows(j)
    BY DEF IInv
  <2>8. QED BY <1>2, <2>1, <2>3, <2>4, <2>5, <2>6, <2>7 DEF Knows, Handles, At, IsIdle
<1>3. QED BY <1>1, <1>2

LEMMA StillTreated ==
  ASSUME IInv, Grown, NEW q \in Req, answer'[q] = answer[q], user'[q] = user[q],
         phase'[q] \in {phase[q], "gone", "answered"}
  PROVE  Treated(q)'
<1>1. Treated(q)
  BY DEF IInv
<1>2. /\ TokenOf(q)' = TokenOf(q) /\ (Doubt(q) => Doubt(q)')
      /\ HasGuard(q, "AuthGuard")' = HasGuard(q, "AuthGuard")
      /\ HasGuard(q, "RolesGuard")' = HasGuard(q, "RolesGuard")
      /\ Explained(q, answer[q].status) => Explained(q, answer[q].status)'
  BY GrownFacts
<1>3. QED BY <1>1, <1>2 DEF Treated, HasRole, Explained
-----------------------------------------------------------------------------
\* The gateway's steps.

Phases == {"new", "verifying", "admitted", "serving", "answered", "gone"}

\* What the gateway's step for q leaves alone, and what it makes of q.
WebOnly(q) ==
  /\ UNCHANGED <<http, run, expired, auth, hurt>>
  /\ replies' \subseteq replies
  /\ phase' \in [Req -> Phases] /\ user' \in [Req -> User \cup {NoUser}]
  /\ DOMAIN answer' = Req
  /\ \A p \in Req : p # q =>
       phase'[p] = phase[p] /\ user'[p] = user[p] /\ answer'[p] = answer[p]
  /\ (phase'[q] = "answered") <=> (answer'[q] # Unanswered)

LEMMA RespondFacts ==
  ASSUME IInv, NEW q \in Req, NEW by \in {"gateway", "service"}, NEW status,
         Respond(q, by, status), UNCHANGED <<run, expired, auth, hurt>>
  PROVE  /\ WebOnly(q) /\ phase'[q] = "answered"
         /\ answer'[q] = [by |-> by, status |-> status]
<1>1. /\ phase' = [phase EXCEPT ![q] = "answered"]
      /\ answer' = [answer EXCEPT ![q] = [by |-> by, status |-> status]]
      /\ replies' \subseteq replies /\ UNCHANGED <<http, user>>
  BY DEF Respond, GoTo
<1>2. [by |-> by, status |-> status] # Unanswered
  BY DEF Unanswered
<1>3. QED BY <1>1, <1>2 DEF WebOnly, Phases, IInv, TypeOK

\* Without an answer, q only changes its phase, and perhaps gets its user.
LEMMA MoveFacts ==
  ASSUME IInv, NEW q \in Req, NEW p \in Phases \ {"answered"}, GoTo(q, p),
         phase[q] # "answered",
         UNCHANGED <<http, answer, run, replies, expired, auth, hurt>>,
         \/ UNCHANGED user
         \/ \E u \in User : user' = [user EXCEPT ![q] = u]
  PROVE  WebOnly(q) /\ phase'[q] = p
  BY DEF GoTo, WebOnly, Phases, IInv, TypeOK

LEMMA WebGrown == ASSUME NEW q, WebOnly(q) PROVE Grown
  BY DEF WebOnly, Grown

\* What a refusal or a service's answer says.
LEMMA AnswerTreated ==
  ASSUME NEW q \in Req, WebOnly(q), phase'[q] = "answered",
         NEW by \in {"gateway", "service"}, NEW status,
         answer'[q] = [by |-> by, status |-> status],
         by = "gateway" /\ status = 401 => Doubt(q),
         by = "service" => Explained(q, status)
  PROVE  Treated(q)'
<1>1. Doubt(q) => Doubt(q)'
  BY WebGrown, GrownFacts
<1>2. Explained(q, status) => Explained(q, status)'
  BY WebGrown, GrownFacts
<1>3. answer'[q].by = by /\ answer'[q].status = status
  OBVIOUS
<1>4. answer'[q] = [by |-> "gateway", status |-> 401] => by = "gateway" /\ status = 401
  BY <1>3
<1>5. Explained(q, answer[q].status)' <=> Explained(q, status)'
  BY <1>3 DEF Explained
<1>6. QED BY <1>1, <1>2, <1>3, <1>4, <1>5 DEF Treated

LEMMA WebStep ==
  ASSUME IInv, NEW q \in Req, HandleHttp(q)
  PROVE  WebOnly(q) /\ Treated(q)'
<1>0. Treated(q)
  BY DEF IInv
<1>1. CASE Throttle(q)
  <2>1. WebOnly(q) /\ phase'[q] = "answered" /\ answer'[q] = [by |-> "gateway", status |-> 429]
    BY <1>1, RespondFacts DEF Throttle, Elsewhere
  <2>2. QED BY <2>1, AnswerTreated
<1>2. CASE EnterOpen(q)
  <2>1. WebOnly(q) /\ phase'[q] = "admitted"
    BY <1>2, MoveFacts DEF EnterOpen, Elsewhere, InPhase, Phases
  <2>2. ~HasGuard(q, "AuthGuard") /\ answer'[q] = answer[q]
    BY <1>2 DEF EnterOpen
  <2>3. HasGuard(q, "AuthGuard")' = HasGuard(q, "AuthGuard") /\ (Doubt(q) => Doubt(q)')
        /\ (Explained(q, answer[q].status) => Explained(q, answer[q].status)')
    <3>1. Grown
      BY <2>1, WebGrown
    <3>2. QED BY <2>2, <3>1, GrownFacts
  <2>4. QED BY <1>0, <2>1, <2>2, <2>3 DEF Treated, Explained
<1>3. CASE NoBearer(q)
  <2>1. WebOnly(q) /\ phase'[q] = "answered" /\ answer'[q] = [by |-> "gateway", status |-> 401]
    BY <1>3, RespondFacts DEF NoBearer, Elsewhere
  <2>2. Doubt(q)
    BY <1>3, GatewayAssumption DEF NoBearer, Doubt
  <2>3. QED BY <2>1, <2>2, AnswerTreated
<1>4. CASE AskAuth(q)
  <2>1. WebOnly(q) /\ phase'[q] = "verifying"
    BY <1>4, MoveFacts DEF AskAuth, Publish, InPhase, Phases
  <2>2. Grown /\ answer'[q] = answer[q]
    BY <1>4, <2>1, WebGrown DEF AskAuth
  <2>3. (Doubt(q) => Doubt(q)')
        /\ (Explained(q, answer[q].status) => Explained(q, answer[q].status)')
    BY <2>2, GrownFacts
  <2>4. QED BY <1>0, <2>1, <2>2, <2>3 DEF Treated, Explained
<1>5. CASE Admit(q)
  <2>1. PICK r \in ReplyTo(q, "verify") : r.status = 200 /\ user' = [user EXCEPT ![q] = r.user]
    BY <1>5 DEF Admit
  <2>2. r \in replies /\ r.req = q /\ r.stage = "verify" /\ Truthful(r)
    BY <2>1 DEF ReplyTo, IInv
  <2>3. TokenOf(q) \in Genuine /\ r.user = Bearer[TokenOf(q)]
    BY <2>1, <2>2 DEF Truthful
  <2>4. r.user \in User
    BY <2>3 DEF User
  <2>5. WebOnly(q) /\ phase'[q] = "admitted"
    <3>1. PICK u \in User : user' = [user EXCEPT ![q] = u]
      <4>1. PICK u : u = r.user
        OBVIOUS
      <4>2. u \in User /\ user' = [user EXCEPT ![q] = u]
        BY <2>1, <2>4, <4>1
      <4>3. QED BY <4>2
    <3>2. /\ UNCHANGED <<http, answer, run, replies, expired, auth, hurt>>
          /\ GoTo(q, "admitted") /\ phase[q] # "answered"
      BY <1>5 DEF Admit, Elsewhere, InPhase
    <3>3. QED BY <3>1, <3>2, MoveFacts DEF Phases
  <2>6. user'[q] = Bearer[TokenOf(q)] /\ answer'[q] = answer[q]
    BY <1>5, <2>1, <2>3 DEF Admit, IInv, TypeOK
  <2>7. TokenOf(q)' = TokenOf(q) /\ (Doubt(q) => Doubt(q)')
        /\ (Explained(q, answer[q].status) => Explained(q, answer[q].status)')
    <3>1. Grown
      BY <2>5, WebGrown
    <3>2. QED BY <2>6, <3>1, GrownFacts
  <2>8. QED BY <1>0, <2>3, <2>5, <2>6, <2>7 DEF Treated, Explained
<1>6. CASE Deny(q)
  <2>1. PICK r \in ReplyTo(q, "verify") : r.status # 200 \/ ~ExpAhead(TokenOf(q))
    BY <1>6 DEF Deny
  <2>2. WebOnly(q) /\ phase'[q] = "answered" /\ answer'[q] = [by |-> "gateway", status |-> 401]
    BY <1>6, RespondFacts DEF Deny, Elsewhere
  <2>3. Doubt(q)
    BY <2>1 DEF ReplyTo, IInv, Truthful, ExpAhead, Doubt
  <2>4. QED BY <2>2, <2>3, AnswerTreated
<1>7. CASE Forbid(q)
  <2>1. WebOnly(q) /\ phase'[q] = "answered" /\ answer'[q] = [by |-> "gateway", status |-> 403]
    BY <1>7, RespondFacts DEF Forbid, Elsewhere
  <2>2. QED BY <2>1, AnswerTreated
<1>8. CASE Invalid(q)
  <2>1. WebOnly(q) /\ phase'[q] = "answered" /\ answer'[q] = [by |-> "gateway", status |-> 400]
    BY <1>8, RespondFacts DEF Invalid, Elsewhere
  <2>2. QED BY <2>1, AnswerTreated
<1>9. CASE Forward(q)
  <2>1. UNCHANGED run
    BY <1>9 DEF Forward, Publish
  <2>2. WebOnly(q) /\ phase'[q] = "serving"
    BY <1>9, <2>1, MoveFacts DEF Forward, InPhase, Phases
  <2>3. /\ phase[q] = "admitted" /\ HasRole(q) /\ UNCHANGED <<http, user>>
        /\ answer'[q] = answer[q] /\ user'[q] = user[q]
    BY <1>9 DEF Forward, InPhase
  <2>4. /\ TokenOf(q)' = TokenOf(q) /\ (Doubt(q) => Doubt(q)')
        /\ HasGuard(q, "AuthGuard")' = HasGuard(q, "AuthGuard")
        /\ (Explained(q, answer[q].status) => Explained(q, answer[q].status)')
    <3>1. Grown
      BY <2>2, WebGrown
    <3>2. QED BY <2>3, <3>1, GrownFacts
  <2>5. HasRole(q)'
    BY <2>3 DEF HasRole, HasGuard
  <2>6. QED BY <1>0, <2>2, <2>3, <2>4, <2>5 DEF Treated, Explained
<1>10. CASE Finish(q)
  <2>1. PICK r \in ReplyTo(q, "serve") : Respond(q, "service", r.status)
    BY <1>10 DEF Finish
  <2>2. WebOnly(q) /\ phase'[q] = "answered" /\ answer'[q] = [by |-> "service", status |-> r.status]
    BY <1>10, <2>1, RespondFacts DEF Finish, Elsewhere
  <2>3. Explained(q, r.status)
    BY <2>1 DEF ReplyTo, IInv, Truthful
  <2>4. PICK status : status = r.status
    OBVIOUS
  <2>5. QED BY <2>2, <2>3, <2>4, AnswerTreated
<1>11. QED BY <1>1, <1>2, <1>3, <1>4, <1>5, <1>6, <1>7, <1>8, <1>9, <1>10 DEF HandleHttp
-----------------------------------------------------------------------------
\* auth's steps.

AuthTypes == /\ past \subseteq Slot
             /\ outcome \in [Slot -> Outcome]
             /\ outcomes \in [Req -> SUBSET Outcome]

LEMMA OthersKnow ==
  ASSUME IInv, Grown, NEW k \in Slot, \A j \in Slot : j # k => run'[j] = run[j],
         \A j \in Slot : j # k => outcome'[j] = outcome[j],
         \A j \in Slot : j # k /\ j \in past' => j \in past,
         Knows(k)'
  PROVE  \A j \in Slot : Knows(j)'
  BY StillKnows

\* An idle handler knows nothing, and needs not.
LEMMA IdleKnows == ASSUME NEW k \in Slot, IsIdle(k)', k \notin past' PROVE Knows(k)'
  BY DEF Knows, At, IsIdle

\* Only a handler that runs is past its guard.
LEMMA PastRuns ==
  ASSUME IInv, NEW k \in Slot, k \in past
  PROVE  At(k, "running") /\ run[k].msg[2] = "verify" /\ TokenOf(Asker(k)) \in Genuine
  BY DEF IInv, Knows, Handles

LEMMA EndsFacts ==
  ASSUME IInv, NEW k \in Slot, ~IsIdle(k), NEW e \in Outcome, Ends(k, e)
  PROVE  /\ outcome'[k] = e /\ \A j \in Slot : j # k => outcome'[j] = outcome[j]
         /\ AuthTypes' /\ past' = past \ {k}
         /\ \A q \in Req : outcomes[q] \subseteq outcomes'[q]
         /\ run[k].msg[2] = "serve" => e \in outcomes'[Asker(k)]
<1>1. Asker(k) \in Req
  BY AskerType DEF IInv
<1>2. PICK o : o = IF run[k].msg[2] = "serve" THEN outcomes[Asker(k)] \cup {e}
                   ELSE outcomes[Asker(k)]
  OBVIOUS
<1>3. outcomes' = [outcomes EXCEPT ![Asker(k)] = o]
  BY <1>2 DEF Ends
<1>4. QED BY <1>1, <1>2, <1>3 DEF Ends, AuthTypes, IInv, TypeOK

\* The handler of k ends with e, which it may: what it has found out is true.
LEMMA EndKnows ==
  ASSUME IInv, NEW k \in Slot, At(k, "running"), NEW e \in Outcome,
         HandlerReturns(k) \/ HandlerThrows(k), Ends(k, e), UNCHANGED <<web, expired, replies, hurt>>,
         run[k].msg[2] = "verify" => \/ e = Ok /\ TokenOf(Asker(k)) \in Genuine
                                     \/ e = Unauthorized /\ Doubt(Asker(k))
  PROVE  /\ Grown /\ AuthTypes' /\ \A j \in Slot : Knows(j)'
         /\ \A r \in replies' : Truthful(r)'
<1>1. ~IsIdle(k)
  BY DEF At
<1>2. /\ ~IsIdle(k)' /\ run'[k].pc \in {"succeeded", "failed"} /\ run'[k].msg = run[k].msg
      /\ run'[k].live = run[k].live /\ \A j \in Slot : j # k => run'[j] = run[j]
  BY <1>1, GotoFacts DEF HandlerReturns, HandlerThrows, IInv, TypeOK
<1>3. /\ outcome'[k] = e /\ \A j \in Slot : j # k => outcome'[j] = outcome[j]
      /\ AuthTypes' /\ past' = past \ {k}
      /\ \A q \in Req : outcomes[q] \subseteq outcomes'[q]
      /\ run[k].msg[2] = "serve" => e \in outcomes'[Asker(k)]
  BY <1>1, EndsFacts
<1>4. Grown
  BY <1>3 DEF Grown
<1>5. PICK q : q = Asker(k)
  OBVIOUS
<1>6. q \in Req /\ run[k].msg[2] \in Stage
  BY <1>1, <1>5, AskerType DEF IInv
<1>7. Asker(k)' = q /\ TokenOf(q)' = TokenOf(q) /\ (Doubt(q) => Doubt(q)')
  BY <1>2, <1>4, <1>5, <1>6, GrownFacts DEF Asker
<1>8. Doubt(Asker(k))' = Doubt(q)' /\ TokenOf(Asker(k))' = TokenOf(q)'
  BY <1>7 DEF Doubt, TokenOf
<1>9. ~Live(k)' => q \in detached'
  BY <1>1, <1>2, <1>5 DEF Live, IInv, Knows
<1>10. Knows(k)'
  BY <1>2, <1>3, <1>5, <1>6, <1>7, <1>8, <1>9 DEF Knows, At, Stage
<1>11. \A j \in Slot : Knows(j)'
  BY <1>2, <1>3, <1>4, <1>10, OthersKnow
<1>12. \A r \in replies' : Truthful(r)'
  BY <1>4, StillTruthful DEF IInv
<1>13. QED BY <1>3, <1>4, <1>11, <1>12

\* A true reply is sent, or none.
LEMMA SendTruthful ==
  ASSUME IInv, Grown, NEW r, Truthful(r), replies' \subseteq replies \cup {r}
  PROVE  \A s \in replies' : Truthful(s)'
<1>1. \A s \in replies' : Truthful(s)
  BY DEF IInv
<1>2. QED BY <1>1, StillTruthful

LEMMA ReplyFacts ==
  ASSUME NEW m, NEW status, NEW u
  PROVE  /\ Reply(m, status, u).req = m[1] /\ Reply(m, status, u).stage = m[2]
         /\ Reply(m, status, u).status = status /\ Reply(m, status, u).user = u
  BY DEF Reply

LEMMA HandlerStep ==
  ASSUME IInv, NEW k \in Slot, HandleMessage(k)
  PROVE  /\ Grown /\ AuthTypes' /\ \A j \in Slot : Knows(j)'
         /\ \A r \in replies' : Truthful(r)'
         /\ UNCHANGED <<web, expired, hurt>>
<1>0. UNCHANGED <<web, expired, hurt>> /\ AuthTypes
  BY DEF HandleMessage, RejectJwt, PassJwt, VerifyJwt, Serve, AckAndReply, LateReply,
         AuthTypes, IInv, TypeOK
<1>1. ~IsIdle(k) /\ RmqTypeOK /\ Knows(k)
  BY DEF HandleMessage, RejectJwt, PassJwt, VerifyJwt, Serve, AckAndReply, LateReply,
         Handles, Ack, StaleEnds, At, IInv, TypeOK
<1>2. PICK q : q = Asker(k)
  OBVIOUS
<1>3. q \in Req /\ run[k].msg[1] = q /\ run[k].msg[2] \in Stage /\ run[k].msg \in Rpc
  BY <1>1, <1>2, AskerType DEF IInv, Asker
<1>4. ASSUME UNCHANGED auth PROVE Grown /\ AuthTypes'
  BY <1>0, <1>4 DEF Grown, AuthTypes
<1>5. CASE RejectJwt(k)
  <2>1. /\ run[k].msg[2] = "verify" /\ k \notin past /\ ~Valid(TokenOf(q)) /\ Goto(k, "rejected")
        /\ UNCHANGED auth /\ replies' \subseteq replies \cup {Reply(run[k].msg, 401, NoUser)}
    BY <1>2, <1>5 DEF RejectJwt, Handles, GuardRejects, Send
  <2>2. /\ ~IsIdle(k)' /\ run'[k].pc = "rejected" /\ run'[k].msg = run[k].msg
        /\ run'[k].live = run[k].live /\ \A j \in Slot : j # k => run'[j] = run[j]
    BY <1>1, <2>1, GotoFacts
  <2>3. ~Live(k)' => Asker(k)' \in detached'
    BY <1>0, <1>1, <2>2 DEF Live, Asker, Knows
  <2>4. Knows(k)'
    BY <2>1, <2>2, <2>3 DEF Knows, At
  <2>5. \A j \in Slot : Knows(j)'
    BY <1>4, <2>1, <2>2, <2>4, OthersKnow
  <2>6. Doubt(q)
    BY <2>1 DEF Valid, Doubt
  <2>7. PICK r : r = Reply(run[k].msg, 401, NoUser)
    OBVIOUS
  <2>8. Truthful(r)
    BY <1>3, <2>1, <2>6, <2>7, ReplyFacts DEF Truthful
  <2>9. QED BY <1>0, <1>4, <2>1, <2>5, <2>7, <2>8, SendTruthful
<1>6. CASE PassJwt(k)
  <2>1. /\ At(k, "running") /\ run[k].msg[2] = "verify" /\ TokenOf(q) \in Genuine
        /\ past' = past \cup {k} /\ UNCHANGED <<run, web, expired, outcome, outcomes, replies, hurt>>
    BY <1>2, <1>6 DEF PassJwt, Handles, Valid
  <2>2. Grown /\ AuthTypes'
    BY <1>0, <2>1 DEF Grown, AuthTypes
  <2>3. TokenOf(Asker(k))' = TokenOf(Asker(k)) /\ Asker(k)' = q
    BY <1>2, <2>1 DEF TokenOf, Asker
  <2>4. Knows(k)'
    BY <1>1, <1>2, <2>1, <2>3 DEF Knows, Handles, At, IsIdle, Live
  <2>5. \A j \in Slot : Knows(j)'
    BY <2>1, <2>2, <2>4, OthersKnow
  <2>6. \A r \in replies' : Truthful(r)'
    BY <2>1, <2>2, StillTruthful DEF IInv
  <2>7. QED BY <1>0, <2>2, <2>5, <2>6
<1>7. CASE VerifyJwt(k)
  <2>1. PICK e \in {Ok, Unauthorized} :
          /\ HandlerReturns(k) \/ HandlerThrows(k)
          /\ Ends(k, e)
          /\ e = Ok => TokenOf(q) \in Genuine
          /\ e = Unauthorized => Doubt(q)
    BY <1>2, <1>7, OutcomeTypes DEF VerifyJwt, Valid, Doubt
  <2>2. At(k, "running") /\ UNCHANGED <<web, expired, replies, hurt>>
    BY <1>7 DEF VerifyJwt, Handles
  <2>3. QED BY <1>0, <1>2, <2>1, <2>2, OutcomeTypes, EndKnows
<1>8. CASE Serve(k)
  <2>1. PICK e \in Exception \cup {Ok} : (HandlerReturns(k) \/ HandlerThrows(k)) /\ Ends(k, e)
    BY <1>8 DEF Serve
  <2>2. At(k, "running") /\ run[k].msg[2] = "serve" /\ UNCHANGED <<web, expired, replies, hurt>>
    BY <1>8 DEF Serve, Handles
  <2>3. QED BY <1>0, <2>1, <2>2, OutcomeTypes, EndKnows
<1>9. CASE AckAndReply(k)
  <2>1. /\ At(k, "succeeded") \/ At(k, "failed") \/ At(k, "rerouted")
        /\ Free(k) /\ UNCHANGED auth
    BY <1>9 DEF AckAndReply, Ack
  <2>2. At(k, "succeeded") \/ At(k, "failed")
    BY <1>1, <2>1 DEF Knows, At
  <2>3. k \notin past
    BY <2>2, PastRuns DEF At
  <2>4. \A j \in Slot : Knows(j)'
    BY <1>1, <1>4, <2>1, <2>3, FreeFacts, IdleKnows, OthersKnow
  <2>5. PICK u, status :
          /\ u = IF run[k].msg[2] = "verify" /\ outcome[k] = Ok
                 THEN Bearer[TokenOf(Asker(k))] ELSE NoUser
          /\ status = RpcStatus(outcome[k])
    OBVIOUS
  <2>6. PICK r : r = Reply(run[k].msg, status, u)
    OBVIOUS
  <2>7. r.req = q /\ r.stage = run[k].msg[2] /\ r.status = status /\ r.user = u
    BY <1>3, <2>6, ReplyFacts
  <2>8. outcome[k] \in Outcome
    BY DEF IInv, TypeOK
  <2>9. ASSUME run[k].msg[2] = "serve" PROVE Explained(q, status)
    BY <1>1, <1>2, <2>2, <2>5, <2>9 DEF Knows, Explained
  <2>10. ASSUME run[k].msg[2] = "verify"
         PROVE  /\ status = 200 => TokenOf(q) \in Genuine /\ u = Bearer[TokenOf(q)]
                /\ status # 200 => Doubt(q)
    <3>1. \/ outcome[k] = Ok /\ TokenOf(q) \in Genuine
          \/ outcome[k] = Unauthorized /\ Doubt(q)
      BY <1>1, <1>2, <2>2, <2>10 DEF Knows
    <3>2. QED BY <1>2, <2>5, <2>8, <2>10, <3>1, Statuses, OutcomeTypes
  <2>11. Truthful(r)
    BY <1>3, <2>7, <2>9, <2>10 DEF Truthful
  <2>12. replies' \subseteq replies \cup {r}
    BY <1>9, <2>5, <2>6 DEF AckAndReply, Send
  <2>13. QED BY <1>0, <1>4, <2>1, <2>4, <2>11, <2>12, SendTruthful
<1>10. CASE LateReply(k)
  <2>1. ~Live(k) /\ ~At(k, "running") /\ Free(k) /\ UNCHANGED auth
    BY <1>10 DEF LateReply, StaleEnds
  <2>2. k \notin past
    BY <2>1, PastRuns
  <2>3. \A j \in Slot : Knows(j)'
    BY <1>1, <1>4, <2>1, <2>2, FreeFacts, IdleKnows, OthersKnow
  <2>4. PICK r : r = Reply(run[k].msg, 500, NoUser)
    OBVIOUS
  <2>5. r.req = q /\ r.stage = run[k].msg[2] /\ r.status = 500
    BY <1>3, <2>4, ReplyFacts
  <2>6. q \in detached
    BY <1>1, <1>2, <2>1 DEF Knows
  <2>7. Truthful(r)
    BY <1>3, <2>5, <2>6 DEF Truthful, Explained, Doubt
  <2>8. replies' \subseteq replies \cup {r}
    BY <1>10, <2>4 DEF LateReply, Send
  <2>9. QED BY <1>0, <1>4, <2>1, <2>3, <2>7, <2>8, SendTruthful
<1>11. QED BY <1>5, <1>6, <1>7, <1>8, <1>9, <1>10 DEF HandleMessage
-----------------------------------------------------------------------------
\* What happens to them, and the other services.

LEMMA ElsewhereStep ==
  ASSUME IInv, NEW q \in Req, ServeElsewhere(q)
  PROVE  /\ Grown /\ AuthTypes' /\ \A j \in Slot : Knows(j)'
         /\ \A r \in replies' : Truthful(r)'
         /\ UNCHANGED <<rmqVars, web, expired, hurt>>
<1>1. PICK e \in Exception \cup {Ok} :
        /\ outcomes' = [outcomes EXCEPT ![q] = {e}] /\ outcomes[q] = {}
        /\ Send(Reply(<<q, "serve">>, RpcStatus(e), NoUser))
        /\ UNCHANGED <<rmqVars, web, expired, past, outcome, hurt>>
  BY DEF ServeElsewhere
<1>2. outcomes'[q] = {e} /\ Grown /\ AuthTypes'
  BY <1>1, OutcomeTypes DEF Grown, AuthTypes, IInv, TypeOK
<1>3. \A j \in Slot : Knows(j)'
  BY <1>1, <1>2, StillKnows
<1>4. PICK r : r = Reply(<<q, "serve">>, RpcStatus(e), NoUser)
  OBVIOUS
<1>5. r.req = q /\ r.stage = "serve" /\ r.status = RpcStatus(e)
  BY <1>4, ReplyFacts
<1>6. Truthful(r)'
  BY <1>2, <1>5 DEF Truthful, Explained, Stage
<1>7. replies' \subseteq replies \cup {r}
  BY <1>1, <1>4 DEF Send
<1>8. \A s \in replies' : Truthful(s)'
  BY <1>2, <1>6, <1>7, StillTruthful DEF IInv
<1>9. QED BY <1>1, <1>2, <1>3, <1>8

\* A slot that is idle before or after a step has nothing to know.
LEMMA PushedStep ==
  ASSUME IInv, NEW k \in Slot, Pushed(k)
  PROVE  /\ Grown /\ UNCHANGED <<web, expired, auth, replies, hurt>>
         /\ \A j \in Slot : Knows(j)'
<1>1. PICK m \in Msg, n \in Count : Deliver(k, m, n)
  BY DEF Pushed
<1>2. UNCHANGED <<web, expired, auth, replies, hurt>> /\ Grown
  BY DEF Pushed, Grown
<1>3. PICK b : b = [pc |-> "running", msg |-> m, n |-> n, live |-> TRUE]
  OBVIOUS
<1>4. /\ run'[k] = b /\ b.pc = "running" /\ b.live
      /\ \A j \in Slot : j # k => run'[j] = run[j]
  BY <1>1, <1>3 DEF Deliver, IInv, TypeOK, RmqTypeOK
<1>5. k \notin past
  BY <1>1, PastRuns DEF Deliver, At
<1>6. Knows(k)'
  BY <1>2, <1>4, <1>5 DEF Knows, At, Live
<1>7. QED BY <1>2, <1>4, <1>6, OthersKnow

LEMMA ExpireStep ==
  ASSUME IInv, NEW t \in Genuine, Expire(t)
  PROVE  /\ Grown /\ UNCHANGED <<rmqVars, web, auth, replies, hurt>>
         /\ expired' \subseteq Genuine /\ \A j \in Slot : Knows(j)'
<1>1. Grown /\ UNCHANGED <<rmqVars, web, auth, replies, hurt>> /\ expired' \subseteq Genuine
  BY DEF Expire, Grown, IInv, TypeOK
<1>2. QED BY <1>1, StillKnows

LEMMA DetachStep ==
  ASSUME IInv, NEW k \in Slot, Detach(k)
  PROVE  /\ Grown /\ UNCHANGED <<web, expired, auth, replies, lost>>
         /\ detached' \subseteq Req /\ \A j \in Slot : Knows(j)'
<1>1. /\ ~IsIdle(k) /\ RmqTypeOK /\ run' = [run EXCEPT ![k].live = FALSE]
      /\ UNCHANGED <<web, expired, auth, replies, lost>>
      /\ detached' = detached \cup {Asker(k)}
  BY DEF Detach, LoseConnection, Live, IInv, TypeOK
<1>2. Asker(k) \in Req
  BY <1>1, AskerType DEF IInv
<1>3. Grown /\ detached' \subseteq Req
  BY <1>1, <1>2 DEF Grown, IInv, TypeOK
<1>4. /\ run'[k].pc = run[k].pc /\ run'[k].msg = run[k].msg /\ ~IsIdle(k)'
      /\ \A j \in Slot : j # k => run'[j] = run[j]
  <2>1. \A j \in Slot : j # k => run'[j] = run[j]
    BY <1>1 DEF RmqTypeOK
  <2>2. LoseConnection(k)
    BY DEF Detach
  <2>3. QED BY <1>1, <2>1, <2>2, BusyGoesOn
<1>5. PICK q : q = Asker(k)
  OBVIOUS
<1>6. Asker(k)' = q /\ TokenOf(q)' = TokenOf(q) /\ (Doubt(q) => Doubt(q)') /\ q \in detached'
  BY <1>1, <1>2, <1>3, <1>4, <1>5, GrownFacts DEF Asker
<1>7. Doubt(Asker(k))' = Doubt(q)' /\ TokenOf(Asker(k))' = TokenOf(q)'
  BY <1>6 DEF Doubt, TokenOf
<1>8. Knows(k)
  BY DEF IInv
<1>9. Knows(k)'
  BY <1>1, <1>4, <1>5, <1>6, <1>7, <1>8 DEF Knows, Handles, At
<1>10. QED BY <1>1, <1>3, <1>4, <1>9, OthersKnow

LEMMA DieStep ==
  ASSUME IInv, NEW k \in Slot, Die(k)
  PROVE  /\ Grown /\ AuthTypes' /\ UNCHANGED <<web, expired, replies, hurt>>
         /\ \A j \in Slot : Knows(j)'
<1>1. /\ Free(k) /\ past' = past \ {k}
      /\ UNCHANGED <<web, expired, outcome, outcomes, replies, hurt>>
  BY DEF Die, Crash
<1>2. Grown /\ AuthTypes'
  BY <1>1 DEF Grown, AuthTypes, IInv, TypeOK
<1>3. IsIdle(k)' /\ \A j \in Slot : j # k => run'[j] = run[j]
  BY <1>1, FreeFacts DEF IInv, TypeOK
<1>4. Knows(k)'
  BY <1>1, <1>3, IdleKnows
<1>5. QED BY <1>1, <1>2, <1>3, <1>4, OthersKnow

LEMMA PodStep ==
  ASSUME IInv, NEW q \in Req, PodDies(q)
  PROVE  /\ Grown /\ UNCHANGED <<run, http, user, answer, expired, auth, hurt>>
         /\ replies' \subseteq replies /\ phase' \in [Req -> Phases]
         /\ \A p \in Req : /\ phase'[p] \in {phase[p], "gone"}
                           /\ phase'[p] = "answered" <=> phase[p] = "answered"
         /\ \A j \in Slot : Knows(j)'
<1>1. /\ UNCHANGED <<run, http, user, answer, expired, auth, hurt>>
      /\ replies' \subseteq replies /\ phase' = [phase EXCEPT ![q] = "gone"]
      /\ phase[q] # "answered"
  BY DEF PodDies, Fault, GoTo, Open
<1>2. Grown
  BY <1>1 DEF Grown
<1>3. \A j \in Slot : Knows(j)'
  BY <1>1, <1>2, StillKnows
<1>4. QED BY <1>1, <1>2, <1>3 DEF Phases, IInv, TypeOK

-----------------------------------------------------------------------------
\* The invariant.

\* The consumer's part: but for the faults that hit replies and pods, a step is
\* the consumer's.
LEMMA ConsumerTyped == ASSUME IInv, [Next]_vars PROVE RmqTypeOK'
<1>1. CASE [RmqNext]_rmqVars
  BY <1>1, RmqTypeStep DEF IInv, TypeOK
<1>2. CASE Fault
  BY <1>2 DEF Fault, RmqTypeOK, IInv, TypeOK
<1>3. ASSUME NEW q \in Req, HandleHttp(q) PROVE [RmqNext]_rmqVars
  <2>1. CASE AskAuth(q)
    <3>1. <<q, "verify">> \in Msg
      BY GatewayAssumption DEF Stage
    <3>2. QED BY <2>1, <3>1 DEF AskAuth, RmqNext, Transport
  <2>2. CASE Forward(q)
    <3>1. <<q, "serve">> \in Msg
      BY GatewayAssumption DEF Stage
    <3>2. QED BY <2>2, <3>1 DEF Forward, RmqNext, Transport
  <2>3. CASE ~AskAuth(q) /\ ~Forward(q)
    BY <1>3, <2>3 DEF HandleHttp, Throttle, EnterOpen, NoBearer, Admit, Deny, Forbid,
       Invalid, Finish, Elsewhere
  <2>4. QED BY <2>1, <2>2, <2>3
<1>4. ASSUME NEW q \in Req, ServeElsewhere(q) \/ PodDies(q) PROVE Fault \/ [RmqNext]_rmqVars
  BY <1>4 DEF ServeElsewhere, PodDies
<1>5. ASSUME NEW k \in Slot, Pushed(k) \/ HandleMessage(k) \/ Detach(k) \/ Die(k)
      PROVE  [RmqNext]_rmqVars
  <2>1. CASE Pushed(k)
    BY <2>1 DEF Pushed, RmqNext, Transport
  <2>2. CASE HandleMessage(k)
    BY <2>2 DEF HandleMessage, RejectJwt, PassJwt, VerifyJwt, Serve, AckAndReply, LateReply,
       RmqNext, Settle
  <2>3. CASE Detach(k) \/ Die(k)
    BY <2>3 DEF Detach, Die, RmqNext
  <2>4. QED BY <1>5, <2>1, <2>2, <2>3
<1>6. ASSUME NEW t, Expire(t) PROVE [RmqNext]_rmqVars
  BY <1>6 DEF Expire
<1>7. ASSUME NEW r, LoseReply(r) PROVE Fault
  BY <1>7 DEF LoseReply
<1>8. CASE UNCHANGED vars
  BY <1>1, <1>8 DEF vars
<1>9. QED BY <1>1, <1>2, <1>3, <1>4, <1>5, <1>6, <1>7, <1>8 DEF Next

\* The parts of TypeOK that are not the consumer's.
LEMMA TypeParts ==
  ASSUME RmqTypeOK', http' \in [Req -> HttpRequest], phase' \in [Req -> Phases],
         user' \in [Req -> User \cup {NoUser}],
         \A q \in Req : (phase'[q] = "answered") <=> (answer'[q] # Unanswered),
         expired' \subseteq Genuine, AuthTypes', detached' \subseteq Req, lost' \subseteq Req,
         \A r \in replies' : Truthful(r)'
  PROVE  TypeOK'
<1>1. \A r \in replies' : r.req \in Req /\ r.stage \in Stage
  BY DEF Truthful
<1>2. QED BY <1>1 DEF TypeOK, Phases, AuthTypes

\* A step that leaves the gateway's part alone.
LEMMA WebUnchanged ==
  ASSUME IInv, Grown, UNCHANGED web, RmqTypeOK', expired' \subseteq Genuine, AuthTypes',
         detached' \subseteq Req, lost' \subseteq Req,
         \A k \in Slot : Knows(k)', \A r \in replies' : Truthful(r)'
  PROVE  IInv'
<1>1. TypeOK'
  <2>1. /\ http' \in [Req -> HttpRequest] /\ phase' \in [Req -> Phases]
        /\ user' \in [Req -> User \cup {NoUser}]
        /\ \A q \in Req : (phase'[q] = "answered") <=> (answer'[q] # Unanswered)
    BY DEF IInv, TypeOK, Phases
  <2>2. QED BY <2>1, TypeParts
<1>2. \A q \in Req : Treated(q)'
  BY StillTreated
<1>3. DOMAIN answer' = Req
  BY DEF IInv
<1>4. QED BY <1>1, <1>2, <1>3 DEF IInv

LEMMA IInvStep == IInv /\ [Next]_vars => IInv'
<1> SUFFICES ASSUME IInv, [Next]_vars PROVE IInv'
  OBVIOUS
<1>1. RmqTypeOK' /\ TypeOK
  BY ConsumerTyped DEF IInv
<1>2. /\ expired \subseteq Genuine /\ AuthTypes /\ detached \subseteq Req /\ lost \subseteq Req
      /\ http \in [Req -> HttpRequest] /\ phase \in [Req -> Phases]
  BY <1>1 DEF TypeOK, AuthTypes, Phases
<1>3. ASSUME UNCHANGED auth PROVE AuthTypes'
  BY <1>2, <1>3 DEF AuthTypes
<1>4. ASSUME NEW q \in Req, HandleHttp(q) PROVE IInv'
  <2>1. WebOnly(q) /\ Treated(q)' /\ Grown
    BY <1>4, WebStep, WebGrown
  <2>2. \A k \in Slot : Knows(k)'
    BY <2>1, StillKnows DEF WebOnly
  <2>3. \A r \in replies' : Truthful(r)'
    BY <2>1, StillTruthful DEF WebOnly, IInv
  <2>4. \A p \in Req : Treated(p)'
    BY <2>1, StillTreated DEF WebOnly
  <2>5. \A p \in Req : (phase'[p] = "answered") <=> (answer'[p] # Unanswered)
    BY <1>1, <2>1 DEF WebOnly, TypeOK
  <2>6. TypeOK'
    BY <1>1, <1>2, <1>3, <2>1, <2>3, <2>5, TypeParts DEF WebOnly
  <2>7. DOMAIN answer' = Req
    BY <2>1 DEF WebOnly
  <2>8. QED BY <2>2, <2>3, <2>4, <2>6, <2>7 DEF IInv
<1>5. ASSUME NEW q \in Req, PodDies(q) PROVE IInv'
  <2>1. /\ Grown /\ UNCHANGED <<run, http, user, answer, expired, auth, hurt>>
        /\ replies' \subseteq replies /\ phase' \in [Req -> Phases]
        /\ \A p \in Req : /\ phase'[p] \in {phase[p], "gone"}
                          /\ phase'[p] = "answered" <=> phase[p] = "answered"
        /\ \A j \in Slot : Knows(j)'
    BY <1>5, PodStep
  <2>2. \A r \in replies' : Truthful(r)'
    BY <2>1, StillTruthful DEF IInv
  <2>3. \A p \in Req : Treated(p)'
    BY <2>1, StillTreated
  <2>4. \A p \in Req : (phase'[p] = "answered") <=> (answer'[p] # Unanswered)
    BY <1>1, <2>1 DEF TypeOK
  <2>5. user' \in [Req -> User \cup {NoUser}]
    BY <1>1, <2>1 DEF TypeOK
  <2>6. TypeOK'
    BY <1>1, <1>2, <1>3, <2>1, <2>2, <2>4, <2>5, TypeParts
  <2>7. DOMAIN answer' = Req
    BY <2>1 DEF IInv
  <2>8. QED BY <2>1, <2>2, <2>3, <2>6, <2>7 DEF IInv
<1>6. ASSUME NEW q \in Req, ServeElsewhere(q) PROVE IInv'
  BY <1>1, <1>2, <1>6, ElsewhereStep, WebUnchanged
<1>7. ASSUME NEW k \in Slot, Pushed(k) PROVE IInv'
  <2>1. /\ Grown /\ UNCHANGED <<web, expired, auth, replies, hurt>>
        /\ \A j \in Slot : Knows(j)'
    BY <1>7, PushedStep
  <2>2. \A r \in replies' : Truthful(r)'
    BY <2>1, StillTruthful DEF IInv
  <2>3. QED BY <1>1, <1>2, <1>3, <2>1, <2>2, WebUnchanged
<1>8. ASSUME NEW k \in Slot, HandleMessage(k) PROVE IInv'
  BY <1>1, <1>2, <1>8, HandlerStep, WebUnchanged
<1>9. ASSUME NEW k \in Slot, Detach(k) PROVE IInv'
  <2>1. /\ Grown /\ UNCHANGED <<web, expired, auth, replies, lost>>
        /\ detached' \subseteq Req /\ \A j \in Slot : Knows(j)'
    BY <1>9, DetachStep
  <2>2. \A r \in replies' : Truthful(r)'
    BY <2>1, StillTruthful DEF IInv
  <2>3. QED BY <1>1, <1>2, <1>3, <2>1, <2>2, WebUnchanged
<1>10. ASSUME NEW k \in Slot, Die(k) PROVE IInv'
  <2>1. /\ Grown /\ AuthTypes' /\ UNCHANGED <<web, expired, replies, hurt>>
        /\ \A j \in Slot : Knows(j)'
    BY <1>10, DieStep
  <2>2. \A r \in replies' : Truthful(r)'
    BY <2>1, StillTruthful DEF IInv
  <2>3. QED BY <1>1, <1>2, <2>1, <2>2, WebUnchanged
<1>11. ASSUME NEW t \in Genuine, Expire(t) PROVE IInv'
  <2>1. /\ Grown /\ UNCHANGED <<rmqVars, web, auth, replies, hurt>>
        /\ expired' \subseteq Genuine /\ \A j \in Slot : Knows(j)'
    BY <1>11, ExpireStep
  <2>2. \A r \in replies' : Truthful(r)'
    BY <2>1, StillTruthful DEF IInv
  <2>3. QED BY <1>1, <1>2, <1>3, <2>1, <2>2, WebUnchanged
<1>12. ASSUME NEW r \in replies, LoseReply(r) PROVE IInv'
  <2>1. /\ UNCHANGED <<run, web, expired, auth, detached>> /\ replies' \subseteq replies
        /\ lost' = lost \cup {r.req}
    BY <1>12 DEF LoseReply, Fault
  <2>2. lost' \subseteq Req /\ Grown
    BY <1>2, <2>1 DEF IInv, Truthful, Grown
  <2>3. \A k \in Slot : Knows(k)'
    BY <2>1, <2>2, StillKnows
  <2>4. \A s \in replies' : Truthful(s)'
    BY <2>1, <2>2, StillTruthful DEF IInv
  <2>5. QED BY <1>1, <1>2, <1>3, <2>1, <2>2, <2>3, <2>4, WebUnchanged
<1>13. CASE UNCHANGED vars
  <2>1. Grown /\ UNCHANGED <<run, web, expired, auth, replies, hurt>>
    BY <1>13 DEF Grown, vars
  <2>2. \A k \in Slot : Knows(k)'
    BY <2>1, StillKnows
  <2>3. \A s \in replies' : Truthful(s)'
    BY <2>1, StillTruthful DEF IInv
  <2>4. QED BY <1>1, <1>2, <1>3, <2>1, <2>2, <2>3, WebUnchanged
<1>14. QED BY <1>4, <1>5, <1>6, <1>7, <1>8, <1>9, <1>10, <1>11, <1>12, <1>13 DEF Next

LEMMA IInvInit == Init => IInv
<1> SUFFICES ASSUME Init PROVE IInv
  OBVIOUS
<1>1. RmqTypeOK
  BY DEF Init, RmqInit, RmqTypeOK
<1>2. TypeOK
  BY <1>1, GatewayAssumption, OutcomeTypes DEF Init, TypeOK
<1>3. \A k \in Slot : Knows(k)
  BY DEF Init, RmqInit, Knows, At, IsIdle
<1>4. \A q \in Req : Treated(q)
  <2>1. \A q \in Req : answer[q] = Unanswered /\ phase[q] = "new"
    BY DEF Init
  <2>2. /\ Unanswered.by = "nobody" /\ Unanswered # [by |-> "gateway", status |-> 401]
    BY DEF Unanswered
  <2>3. QED BY <2>1, <2>2 DEF Treated
<1>5. QED BY <1>2, <1>3, <1>4 DEF IInv, Init

THEOREM GatewayInvariant == Spec => []IInv
  BY IInvInit, IInvStep, PTL DEF Spec

\* The types; and a request is answered exactly when it has an answer.
THEOREM GatewayTypeCorrect == Spec => []TypeOK
<1>1. IInv => TypeOK
  BY DEF IInv
<1>2. QED BY <1>1, GatewayInvariant, PTL
-----------------------------------------------------------------------------
\* A guarded request goes on as the user its own token was issued to, and on an
\* admin route that user is an admin.
THEOREM OnlyTheBearer == Spec => []OnlyForBearer
<1>1. IInv => OnlyForBearer
  BY DEF IInv, Treated, OnlyForBearer, InPhase, HasRole
<1>2. QED BY <1>1, GatewayInvariant, PTL

\* The gateway answers 401 only if the token is missing, forged or expired, or
\* if auth lost its connection while it was verifying.
THEOREM RefusalsHaveCauses == Spec => []RefusedForCause
<1>1. IInv => RefusedForCause
  BY DEF IInv, Treated, RefusedForCause, Doubt
<1>2. QED BY <1>1, GatewayInvariant, PTL

\* The status of a response from a service is that of what a handler of the
\* request threw or returned, or the 500 of one that had lost its connection.
THEOREM StatusesSurvive == Spec => []StatusSurvives
<1>1. IInv => StatusSurvives
  <2> SUFFICES ASSUME IInv, NEW q \in Req, answer[q].by = "service"
               PROVE  \/ \E e \in outcomes[q] :
                           answer[q].status = IF e.kind = "HttpException" THEN e.status
                                              ELSE IF e = Ok THEN 200 ELSE 500
                      \/ answer[q].status = 500 /\ q \in detached
    BY DEF StatusSurvives
  <2>1. Explained(q, answer[q].status) /\ outcomes[q] \subseteq Outcome
    BY DEF IInv, Treated, TypeOK
  <2>2. QED BY <2>1, Statuses DEF Explained
<1>2. QED BY <1>1, GatewayInvariant, PTL
-----------------------------------------------------------------------------
\* Nothing times out, so a request must not be left with nobody to answer it.

\* auth's handler k is on the connection and has yet to reply to m.
Carries(k, m) == /\ Live(k) /\ run[k].msg = m
                 /\ run[k].pc \in {"running", "succeeded", "failed"}
\* auth still has m: in its queue, or with a handler.
Pending(m) == \/ \E n \in Count : main[m][n] > 0
              \/ \E k \in Slot : Carries(k, m)
ReplyDue(q, stage) == Pending(<<q, stage>>) \/ ReplyTo(q, stage) # {} \/ q \in lost

ForAuth(q) == http[q].route.service = "auth"

\* Whatever the gateway waits for is on its way, or was lost: the verdict on the
\* token, auth's reply, or the other services', which answer in one step.
NotForgotten(q) ==
  /\ InPhase(q, "verifying") => ReplyDue(q, "verify")
  /\ (InPhase(q, "serving") /\ ForAuth(q)) => ReplyDue(q, "serve")
  /\ (InPhase(q, "serving") /\ ~ForAuth(q)) =>
       (outcomes[q] = {} \/ ReplyTo(q, "serve") # {} \/ q \in lost)
NoneForgotten == \A q \in Req : NotForgotten(q)

\* auth never sees a request for another service, which has none before the
\* gateway has forwarded it.
NotInAuth(m) == /\ \A n \in Count : main[m][n] = 0
                /\ \A k \in Slot : ~IsIdle(k) => run[k].msg # m
NotAuths(q) == ~ForAuth(q) =>
  /\ NotInAuth(<<q, "serve">>)
  /\ phase[q] \in {"new", "verifying", "admitted"} => outcomes[q] = {}

FInv == IInv /\ \A q \in Req : NotForgotten(q) /\ NotAuths(q)

\* What a step leaves in the queue.
MainKept(m) == \A n \in Count : main[m][n] > 0 => main'[m][n] > 0
RunKept(k) == \A j \in Slot : j # k => run'[j] = run[j]

LEMMA BagGrows ==
  ASSUME RmqTypeOK, NEW p \in Msg, NEW i \in Count, main' = [main EXCEPT ![p][i] = @ + 1]
  PROVE  /\ \A m \in Msg : MainKept(m) /\ (m # p => main'[m] = main[m])
         /\ main'[p][i] > 0
<1>1. main[p] \in [Count -> Nat] /\ main'[p] = [main[p] EXCEPT ![i] = @ + 1]
  BY DEF RmqTypeOK
<1>2. MainKept(p) /\ main'[p][i] > 0
  BY <1>1 DEF MainKept
<1>3. \A m \in Msg : m # p => main'[m] = main[m]
  BY DEF RmqTypeOK
<1>4. QED BY <1>2, <1>3 DEF MainKept

LEMMA PublishGrows ==
  ASSUME RmqTypeOK, NEW p \in Msg, Publish(p)
  PROVE  /\ \A m \in Msg : MainKept(m) /\ (m # p => main'[m] = main[m])
         /\ \E n \in Count : main'[p][n] > 0
         /\ UNCHANGED run
<1>1. 0 \in Count /\ main' = [main EXCEPT ![p][0] = @ + 1]
  BY ConsumerAssumption DEF Publish, Count
<1>2. QED BY <1>1, BagGrows DEF Publish

LEMMA RequeueKeeps ==
  ASSUME RmqTypeOK, NEW k \in Slot, ~IsIdle(k), Requeued(k)
  PROVE  /\ \A m \in Msg : MainKept(m) /\ (m # run[k].msg => main'[m] = main[m])
         /\ \E n \in Count : main'[run[k].msg][n] > 0
<1>1. PICK p \in Msg, i \in Count : p = run[k].msg /\ i = run[k].n
  BY BusyRun
<1>2. main' = [main EXCEPT ![p][i] = @ + 1]
  BY <1>1 DEF Requeued
<1>3. QED BY <1>1, <1>2, BagGrows

LEMMA OtherCarries ==
  ASSUME NEW m, NEW k, Carries(k, m), run'[k] = run[k]
  PROVE  Carries(k, m)'
  BY DEF Carries, Live, IsIdle

\* Only the handler of m can leave auth without it.
LEMMA StaysPending ==
  ASSUME NEW m, Pending(m), MainKept(m), NEW k \in Slot, RunKept(k), ~Carries(k, m)
  PROVE  Pending(m)'
<1>1. CASE \E n \in Count : main[m][n] > 0
  BY <1>1 DEF MainKept, Pending
<1>2. ASSUME NEW j \in Slot, Carries(j, m) PROVE Pending(m)'
  <2>1. run'[j] = run[j]
    BY <1>2 DEF RunKept
  <2>2. Carries(j, m)'
    BY <1>2, <2>1, OtherCarries
  <2>3. QED BY <2>2 DEF Pending
<1>3. QED BY <1>1, <1>2 DEF Pending

LEMMA SamePending ==
  ASSUME NEW m, Pending(m), MainKept(m), UNCHANGED run
  PROVE  Pending(m)'
<1>1. CASE \E n \in Count : main[m][n] > 0
  BY <1>1 DEF MainKept, Pending
<1>2. CASE \E j \in Slot : Carries(j, m)
  BY <1>2, OtherCarries DEF Pending
<1>3. QED BY <1>1, <1>2 DEF Pending

\* The gateway's step for q, as far as waiting goes.
LEMMA WebWaits ==
  ASSUME IInv, NEW q \in Req, HandleHttp(q)
  PROVE  /\ UNCHANGED <<run, http, outcomes, lost>>
         /\ \A p \in Req : p # q => phase'[p] = phase[p]
         /\ \A r \in replies : r \in replies' \/ phase'[r.req] = "answered"
         /\ \/ /\ UNCHANGED main /\ phase'[q] \in {"answered", "admitted"}
               /\ phase'[q] = "admitted" => phase[q] \in {"new", "verifying"}
            \/ UNCHANGED main /\ phase[q] = "admitted" /\ phase'[q] = "serving" /\ ~ForAuth(q)
            \/ Publish(<<q, "verify">>) /\ phase[q] = "new" /\ phase'[q] = "verifying"
            \/ /\ Publish(<<q, "serve">>) /\ ForAuth(q)
               /\ phase[q] = "admitted" /\ phase'[q] = "serving"
<1>1. phase \in [Req -> Phases]
  BY DEF IInv, TypeOK, Phases
<1>2. WebOnly(q) /\ UNCHANGED <<run, http, outcomes, lost>>
      /\ \A p \in Req : p # q => phase'[p] = phase[p]
  BY WebStep DEF WebOnly
<1>3. ASSUME NEW p, GoTo(q, p) PROVE phase'[q] = p
  BY <1>1, <1>3 DEF GoTo
<1>4. ASSUME NEW by, NEW status, Respond(q, by, status), Elsewhere
      PROVE  /\ phase'[q] = "answered" /\ UNCHANGED main
             /\ \A r \in replies : r \in replies' \/ phase'[r.req] = "answered"
  BY <1>3, <1>4 DEF Respond, Elsewhere
<1>5. CASE Throttle(q) \/ NoBearer(q) \/ Deny(q) \/ Forbid(q) \/ Invalid(q) \/ Finish(q)
  BY <1>2, <1>4, <1>5 DEF Throttle, NoBearer, Deny, Forbid, Invalid, Finish
<1>6. CASE EnterOpen(q) \/ Admit(q)
  BY <1>2, <1>3, <1>6 DEF EnterOpen, Admit, Elsewhere, InPhase
<1>7. CASE AskAuth(q)
  BY <1>2, <1>3, <1>7 DEF AskAuth, InPhase
<1>8. CASE Forward(q)
  BY <1>2, <1>3, <1>8 DEF Forward, InPhase, ForAuth
<1>9. QED BY <1>5, <1>6, <1>7, <1>8 DEF HandleHttp

\* A step of auth's, of its queue or of its connection.
AuthStep(k) == Pushed(k) \/ HandleMessage(k) \/ Detach(k) \/ Die(k)

LEMMA AuthWaits ==
  ASSUME IInv, NEW k \in Slot, AuthStep(k)
  PROVE  /\ UNCHANGED <<http, phase, lost>> /\ replies \subseteq replies'
         /\ \A q \in Req :
              outcomes'[q] = outcomes[q] \/ (~IsIdle(k) /\ run[k].msg = <<q, "serve">>)
<1>1. UNCHANGED <<http, phase, lost>>
  BY DEF AuthStep, Pushed, HandleMessage, RejectJwt, PassJwt, VerifyJwt, Serve, AckAndReply,
         LateReply, Detach, Die
<1>2. replies \subseteq replies'
  BY DEF AuthStep, Pushed, HandleMessage, RejectJwt, PassJwt, VerifyJwt, Serve, AckAndReply,
         LateReply, Detach, Die, Send
<1>3. CASE ~(VerifyJwt(k) \/ Serve(k))
  <2>1. UNCHANGED outcomes
    BY <1>3 DEF AuthStep, Pushed, HandleMessage, RejectJwt, PassJwt, AckAndReply, LateReply,
       Detach, Die
  <2>2. QED BY <1>1, <1>2, <2>1
<1>4. CASE VerifyJwt(k) \/ Serve(k)
  <2>1. ~IsIdle(k) /\ \E e : Ends(k, e)
    BY <1>4 DEF VerifyJwt, Serve, Handles, At
  <2>2. PICK e : Ends(k, e)
    BY <2>1
  <2>3. PICK o : outcomes' = [outcomes EXCEPT ![run[k].msg[1]] = o]
    BY <2>2 DEF Ends, Asker
  <2>4. run[k].msg \in Req \X Stage /\ outcomes \in [Req -> SUBSET Outcome]
    BY <2>1, BusyRun, GatewayAssumption DEF IInv, TypeOK
  <2>5. ASSUME run[k].msg[2] # "serve" PROVE UNCHANGED outcomes
    BY <2>2, <2>4, <2>5 DEF Ends, Asker
  <2>6. ASSUME NEW q \in Req, outcomes'[q] # outcomes[q]
        PROVE  run[k].msg = <<q, "serve">>
    BY <2>3, <2>4, <2>5, <2>6
  <2>7. QED BY <1>1, <1>2, <2>1, <2>6
<1>5. QED BY <1>3, <1>4

\* A reply that goes out to a request that waits gets there.
LEMMA SentIsThere ==
  ASSUME NEW q, NEW stage, Open(q), NEW status, NEW u,
         Send(Reply(<<q, stage>>, status, u))
  PROVE  ReplyTo(q, stage)' # {}
<1>1. PICK r : r = Reply(<<q, stage>>, status, u)
  OBVIOUS
<1>2. r.req = q /\ r.stage = stage
  BY <1>1, ReplyFacts
<1>3. r \in replies'
  BY <1>1, <1>2 DEF Send
<1>4. QED BY <1>2, <1>3 DEF ReplyTo

\* auth lets go of a message only with a reply.
LEMMA PendingStep ==
  ASSUME IInv, NEW k \in Slot, AuthStep(k), NEW q \in Req, NEW stage \in Stage, Open(q),
         Pending(<<q, stage>>)
  PROVE  Pending(<<q, stage>>)' \/ ReplyTo(q, stage)' # {}
<1> DEFINE m == <<q, stage>>
<1>0. m \in Msg /\ Msg = Rpc /\ RmqTypeOK
  BY GatewayAssumption DEF IInv, TypeOK
<1>1. UNCHANGED main => MainKept(m)
  BY DEF MainKept
<1>2. CASE Pushed(k)
  <2>1. PICK p \in Msg, n \in Count : Deliver(k, p, n)
    BY <1>2 DEF Pushed
  <2>2. /\ run'[k] = [pc |-> "running", msg |-> p, n |-> n, live |-> TRUE]
        /\ RunKept(k) /\ IsIdle(k)
    BY <1>0, <2>1 DEF Deliver, RunKept, RmqTypeOK
  <2>3. CASE p = m
    <3>1. PICK b : b = [pc |-> "running", msg |-> p, n |-> n, live |-> TRUE]
      OBVIOUS
    <3>2. b.pc = "running" /\ b.msg = p /\ b.live /\ b # Idle
      BY <3>1 DEF Idle
    <3>3. Carries(k, m)'
      BY <2>2, <2>3, <3>1, <3>2 DEF Carries, Live, IsIdle
    <3>4. QED BY <3>3 DEF Pending
  <2>4. CASE p # m
    <3>1. main'[m] = main[m]
      BY <1>0, <2>1, <2>4 DEF Deliver, RmqTypeOK
    <3>2. MainKept(m) /\ ~Carries(k, m)
      BY <2>2, <3>1 DEF MainKept, Carries, Live
    <3>3. QED BY <2>2, <3>2, StaysPending
  <2>5. QED BY <2>3, <2>4
<1>3. CASE PassJwt(k)
  BY <1>1, <1>3, SamePending DEF PassJwt
<1>4. CASE VerifyJwt(k) \/ Serve(k)
  <2>1. /\ At(k, "running") /\ UNCHANGED main
        /\ Goto(k, "succeeded") \/ Goto(k, "failed")
    BY <1>4 DEF VerifyJwt, Serve, Handles, HandlerReturns, HandlerThrows
  <2>2. /\ ~IsIdle(k)' /\ run'[k].pc \in {"succeeded", "failed"}
        /\ run'[k].msg = run[k].msg /\ run'[k].live = run[k].live /\ RunKept(k)
    BY <1>0, <2>1, GotoFacts DEF At, RunKept
  <2>3. Carries(k, m) => Carries(k, m)'
    BY <2>2 DEF Carries, Live
  <2>4. QED BY <1>1, <2>1, <2>2, <2>3, StaysPending DEF Pending
<1>5. CASE RejectJwt(k)
  <2>1. /\ ~IsIdle(k) /\ Goto(k, "rejected") /\ UNCHANGED main
        /\ Send(Reply(run[k].msg, 401, NoUser))
    BY <1>5 DEF RejectJwt, GuardRejects, At
  <2>2. RunKept(k)
    BY <1>0, <2>1, GotoFacts DEF RunKept
  <2>3. Carries(k, m) => run[k].msg = <<q, stage>>
    BY DEF Carries
  <2>4. QED BY <1>1, <2>1, <2>2, <2>3, StaysPending, SentIsThere
<1>6. CASE AckAndReply(k)
  <2>1. PICK status, u : Send(Reply(run[k].msg, status, u))
    BY <1>6 DEF AckAndReply
  <2>2. Free(k) /\ UNCHANGED main
    BY <1>6 DEF AckAndReply, Ack
  <2>3. RunKept(k)
    BY <1>0, <2>2, FreeFacts DEF RunKept
  <2>4. Carries(k, m) => run[k].msg = <<q, stage>>
    BY DEF Carries
  <2>5. QED BY <1>1, <2>1, <2>2, <2>3, <2>4, StaysPending, SentIsThere
<1>7. CASE LateReply(k)
  <2>1. ~Live(k) /\ Free(k) /\ UNCHANGED main
    BY <1>7 DEF LateReply, StaleEnds
  <2>2. RunKept(k)
    BY <1>0, <2>1, FreeFacts DEF RunKept
  <2>3. ~Carries(k, m)
    BY <2>1 DEF Carries
  <2>4. QED BY <1>1, <2>1, <2>2, <2>3, StaysPending
<1>8. CASE Detach(k) \/ Die(k)
  <2>1. ~IsIdle(k) /\ (Live(k) => Requeued(k)) /\ (~Live(k) => UNCHANGED main)
    BY <1>8 DEF Detach, Die, LoseConnection, Crash, Live
  <2>2. RunKept(k)
    BY <1>0, <1>8, FreeFacts DEF Detach, Die, LoseConnection, Crash, RunKept, RmqTypeOK
  <2>3. MainKept(m)
    BY <1>0, <1>1, <2>1, RequeueKeeps
  <2>4. Carries(k, m) => \E n \in Count : main'[m][n] > 0
    BY <1>0, <2>1, RequeueKeeps DEF Carries
  <2>5. QED BY <2>2, <2>3, <2>4, StaysPending DEF Pending
<1>9. QED BY <1>2, <1>3, <1>4, <1>5, <1>6, <1>7, <1>8 DEF AuthStep, HandleMessage

\* What is due stays due while the request is open, for one more step.
LEMMA DueInAuth ==
  ASSUME IInv, NEW k \in Slot, AuthStep(k), NEW q \in Req, NEW stage \in Stage, Open(q),
         ReplyDue(q, stage)
  PROVE  ReplyDue(q, stage)'
<1>1. CASE Pending(<<q, stage>>)
  BY <1>1, PendingStep DEF ReplyDue
<1>2. CASE ReplyTo(q, stage) # {} \/ q \in lost
  BY <1>2, AuthWaits DEF ReplyDue, ReplyTo
<1>3. QED BY <1>1, <1>2 DEF ReplyDue

\* Elsewhere a step only adds to auth's queue, and takes a reply only from a
\* request that is over, or loses it.
Waits == /\ http' = http /\ lost \subseteq lost' /\ UNCHANGED run
         /\ \A m \in Msg : MainKept(m)
         /\ \A r \in replies : \/ r \in replies' \/ ~Open(r.req)' \/ r.req \in lost'

LEMMA DueElsewhere ==
  ASSUME Waits, NEW q \in Req, NEW stage \in Stage, Open(q)', ReplyDue(q, stage)
  PROVE  ReplyDue(q, stage)'
<1>1. CASE Pending(<<q, stage>>)
  <2>1. <<q, stage>> \in Msg
    BY GatewayAssumption
  <2>2. QED BY <1>1, <2>1, SamePending DEF ReplyDue, Waits
<1>2. CASE ReplyTo(q, stage) # {}
  BY <1>2 DEF ReplyDue, ReplyTo, Waits
<1>3. CASE q \in lost
  BY <1>3 DEF ReplyDue, Waits
<1>4. QED BY <1>1, <1>2, <1>3 DEF ReplyDue

LEMMA WaitsFacts ==
  ASSUME FInv, Waits, NEW q \in Req, phase'[q] = phase[q], outcomes'[q] = outcomes[q]
  PROVE  NotForgotten(q)'
<1>1. NotForgotten(q) /\ ForAuth(q)' = ForAuth(q)
  BY DEF FInv, Waits, ForAuth
<1>2. ASSUME phase[q] \in {"verifying", "serving"} PROVE Open(q)'
  BY <1>2 DEF Open
<1>3. ASSUME NEW stage \in Stage, Open(q)', ReplyTo(q, stage) # {} \/ q \in lost
      PROVE  ReplyTo(q, stage)' # {} \/ q \in lost'
  BY <1>3 DEF ReplyTo, Waits
<1>4. QED
  BY <1>1, <1>2, <1>3, DueElsewhere DEF NotForgotten, InPhase, Stage

LEMMA QueueUnseen ==
  ASSUME NEW m, NotInAuth(m), UNCHANGED run, main'[m] = main[m]
  PROVE  NotInAuth(m)'
  BY DEF NotInAuth, IsIdle

\* A message that auth does not have does not come from a step of auth.
LEMMA UnseenInAuth ==
  ASSUME IInv, NEW k \in Slot, AuthStep(k), NEW m \in Msg, NotInAuth(m)
  PROVE  NotInAuth(m)'
<1>0. RmqTypeOK /\ main \in [Msg -> [Count -> Nat]]
  BY DEF IInv, TypeOK, RmqTypeOK
<1>1. CASE Pushed(k)
  <2>1. PICK p \in Msg, n \in Count : Deliver(k, p, n)
    BY <1>1 DEF Pushed
  <2>2. p # m
    BY <2>1 DEF Deliver, NotInAuth
  <2>3. main'[m] = main[m] /\ RunKept(k)
        /\ run'[k] = [pc |-> "running", msg |-> p, n |-> n, live |-> TRUE]
    BY <1>0, <2>1, <2>2 DEF Deliver, RunKept, RmqTypeOK
  <2>4. run'[k].msg = p
    BY <2>3
  <2>5. QED BY <2>2, <2>3, <2>4 DEF NotInAuth, RunKept, IsIdle
<1>2. CASE HandleMessage(k)
  <2>1. ~IsIdle(k) /\ UNCHANGED main
    BY <1>2 DEF HandleMessage, RejectJwt, PassJwt, VerifyJwt, Serve, AckAndReply, LateReply,
       GuardRejects, HandlerReturns, HandlerThrows, Ack, StaleEnds, Handles, At
  <2>2. \/ UNCHANGED run \/ Free(k)
        \/ Goto(k, "rejected") \/ Goto(k, "succeeded") \/ Goto(k, "failed")
    BY <1>2 DEF HandleMessage, RejectJwt, PassJwt, VerifyJwt, Serve, AckAndReply, LateReply,
       GuardRejects, HandlerReturns, HandlerThrows, Ack, StaleEnds
  <2>3. CASE UNCHANGED run
    BY <2>1, <2>3, QueueUnseen
  <2>4. CASE Free(k)
    <3>1. IsIdle(k)' /\ \A j \in Slot : j # k => run'[j] = run[j]
      BY <1>0, <2>4, FreeFacts
    <3>2. QED BY <2>1, <3>1 DEF NotInAuth, IsIdle
  <2>5. CASE Goto(k, "rejected") \/ Goto(k, "succeeded") \/ Goto(k, "failed")
    <3>1. run'[k].msg = run[k].msg /\ \A j \in Slot : j # k => run'[j] = run[j]
      BY <1>0, <2>1, <2>5, GotoFacts
    <3>2. QED BY <2>1, <3>1 DEF NotInAuth, IsIdle
  <2>6. QED BY <2>2, <2>3, <2>4, <2>5
<1>3. CASE Detach(k) \/ Die(k)
  <2>1. ~IsIdle(k) /\ (Requeued(k) \/ UNCHANGED main)
    BY <1>3 DEF Detach, Die, LoseConnection, Crash, Live
  <2>2. main'[m] = main[m]
    BY <1>0, <2>1, RequeueKeeps DEF NotInAuth
  <2>3. CASE Die(k)
    <3>1. IsIdle(k)' /\ \A j \in Slot : j # k => run'[j] = run[j]
      BY <1>0, <2>3, FreeFacts DEF Die, Crash
    <3>2. QED BY <2>2, <3>1 DEF NotInAuth, IsIdle
  <2>4. CASE Detach(k)
    <3>1. LoseConnection(k)
      BY <2>4 DEF Detach
    <3>2. \A j \in Slot : ~IsIdle(j) => ~IsIdle(j)' /\ run'[j].msg = run[j].msg
      BY <1>0, <3>1, BusyGoesOn
    <3>3. \A j \in Slot : j # k => run'[j] = run[j]
      BY <1>0, <3>1 DEF LoseConnection, RmqTypeOK
    <3>4. QED BY <2>1, <2>2, <3>2, <3>3 DEF NotInAuth, IsIdle
  <2>5. QED BY <1>3, <2>3, <2>4
<1>4. QED BY <1>1, <1>2, <1>3 DEF AuthStep

LEMMA NotAuthsKept ==
  ASSUME FInv, NEW q \in Req, http' = http, phase'[q] = phase[q],
         ~ForAuth(q) => outcomes'[q] = outcomes[q] /\ NotInAuth(<<q, "serve">>)'
  PROVE  NotAuths(q)'
<1>1. NotAuths(q) /\ ForAuth(q)' = ForAuth(q)
  BY DEF FInv, ForAuth
<1>2. QED BY <1>1 DEF NotAuths

\* A step that is neither auth's nor the gateway's for q.
LEMMA NobodyForgets ==
  ASSUME FInv, Waits, NEW q \in Req, phase'[q] = phase[q], outcomes'[q] = outcomes[q],
         main'[<<q, "serve">>] = main[<<q, "serve">>]
  PROVE  NotForgotten(q)' /\ NotAuths(q)'
<1>1. ~ForAuth(q) => NotInAuth(<<q, "serve">>)'
  BY QueueUnseen DEF FInv, NotAuths, Waits
<1>2. QED BY <1>1, WaitsFacts, NotAuthsKept DEF Waits

LEMMA WebForgetsNone ==
  ASSUME FInv, NEW p \in Req, HandleHttp(p)
  PROVE  \A q \in Req : NotForgotten(q)' /\ NotAuths(q)'
<1>0. /\ IInv /\ RmqTypeOK /\ NotAuths(p)
      /\ \A q \in Req, stage \in Stage : <<q, stage>> \in Msg
  BY GatewayAssumption DEF FInv, IInv, TypeOK
<1>1. /\ UNCHANGED <<run, http, outcomes, lost>>
      /\ \A q \in Req : q # p => phase'[q] = phase[q]
      /\ \A r \in replies : r \in replies' \/ phase'[r.req] = "answered"
      /\ \/ /\ UNCHANGED main /\ phase'[p] \in {"answered", "admitted"}
            /\ phase'[p] = "admitted" => phase[p] \in {"new", "verifying"}
         \/ UNCHANGED main /\ phase[p] = "admitted" /\ phase'[p] = "serving" /\ ~ForAuth(p)
         \/ Publish(<<p, "verify">>) /\ phase[p] = "new" /\ phase'[p] = "verifying"
         \/ /\ Publish(<<p, "serve">>) /\ ForAuth(p)
            /\ phase[p] = "admitted" /\ phase'[p] = "serving"
  BY <1>0, WebWaits
<1>2. ASSUME Publish(<<p, "verify">>) \/ Publish(<<p, "serve">>)
      PROVE  /\ \A m \in Msg : MainKept(m)
             /\ \A q \in Req : q # p => main'[<<q, "serve">>] = main[<<q, "serve">>]
  BY <1>0, <1>2, PublishGrows DEF Stage
<1>3. Waits
  <2>1. \A m \in Msg : MainKept(m)
    BY <1>1, <1>2 DEF MainKept
  <2>2. \A r \in replies : r \in replies' \/ ~Open(r.req)'
    BY <1>1 DEF Open
  <2>3. QED BY <1>1, <2>1, <2>2 DEF Waits
<1>4. ASSUME NEW q \in Req, q # p PROVE NotForgotten(q)' /\ NotAuths(q)'
  <2>1. main'[<<q, "serve">>] = main[<<q, "serve">>]
    BY <1>1, <1>2, <1>4
  <2>2. QED BY <1>1, <1>3, <1>4, <2>1, NobodyForgets
<1>5. ForAuth(p)' = ForAuth(p)
  BY <1>1 DEF ForAuth
<1>6. ASSUME main'[<<p, "serve">>] = main[<<p, "serve">>], ~ForAuth(p)
      PROVE  NotInAuth(<<p, "serve">>)'
  BY <1>0, <1>1, <1>6, QueueUnseen DEF NotAuths
<1>7. NotForgotten(p)' /\ NotAuths(p)'
  <2>1. CASE UNCHANGED main /\ phase'[p] \in {"answered", "admitted"}
             /\ (phase'[p] = "admitted" => phase[p] \in {"new", "verifying"})
    <3>1. NotForgotten(p)'
      BY <2>1 DEF NotForgotten, InPhase
    <3>2. NotAuths(p)'
      BY <1>0, <1>1, <1>5, <1>6, <2>1 DEF NotAuths
    <3>3. QED BY <3>1, <3>2
  <2>2. CASE UNCHANGED main /\ phase[p] = "admitted" /\ phase'[p] = "serving" /\ ~ForAuth(p)
    <3>1. outcomes'[p] = {} /\ NotInAuth(<<p, "serve">>)'
      BY <1>0, <1>1, <1>6, <2>2 DEF NotAuths
    <3>2. QED BY <1>5, <2>2, <3>1 DEF NotForgotten, NotAuths, InPhase
  <2>3. CASE Publish(<<p, "verify">>) /\ phase[p] = "new" /\ phase'[p] = "verifying"
    <3>1. /\ \E n \in Count : main'[<<p, "verify">>][n] > 0
          /\ main'[<<p, "serve">>] = main[<<p, "serve">>]
      BY <1>0, <2>3, PublishGrows DEF Stage
    <3>2. NotForgotten(p)'
      BY <2>3, <3>1 DEF NotForgotten, InPhase, ReplyDue, Pending
    <3>3. NotAuths(p)'
      BY <1>0, <1>1, <1>5, <1>6, <2>3, <3>1 DEF NotAuths
    <3>4. QED BY <3>2, <3>3
  <2>4. CASE /\ Publish(<<p, "serve">>) /\ ForAuth(p)
             /\ phase[p] = "admitted" /\ phase'[p] = "serving"
    <3>1. \E n \in Count : main'[<<p, "serve">>][n] > 0
      BY <1>0, <2>4, PublishGrows DEF Stage
    <3>2. QED BY <1>5, <2>4, <3>1 DEF NotForgotten, NotAuths, InPhase, ReplyDue, Pending
  <2>5. QED BY <1>1, <2>1, <2>2, <2>3, <2>4
<1>8. QED BY <1>4, <1>7

LEMMA AuthForgetsNone ==
  ASSUME FInv, NEW k \in Slot, AuthStep(k)
  PROVE  \A q \in Req : NotForgotten(q)' /\ NotAuths(q)'
<1> SUFFICES ASSUME NEW q \in Req PROVE NotForgotten(q)' /\ NotAuths(q)'
  OBVIOUS
<1>1. IInv /\ NotForgotten(q) /\ NotAuths(q) /\ <<q, "serve">> \in Msg
  BY GatewayAssumption DEF FInv, Stage
<1>2. /\ UNCHANGED <<http, phase, lost>> /\ replies \subseteq replies'
      /\ outcomes'[q] = outcomes[q] \/ (~IsIdle(k) /\ run[k].msg = <<q, "serve">>)
  BY <1>1, AuthWaits
<1>3. ForAuth(q)' = ForAuth(q)
  BY <1>2 DEF ForAuth
<1>4. ~ForAuth(q) => outcomes'[q] = outcomes[q] /\ NotInAuth(<<q, "serve">>)'
  BY <1>1, <1>2, UnseenInAuth DEF NotAuths, NotInAuth
<1>5. ASSUME phase[q] \in {"verifying", "serving"}, NEW stage \in Stage, ReplyDue(q, stage)
      PROVE  ReplyDue(q, stage)'
  <2>1. Open(q)
    BY <1>5 DEF Open
  <2>2. QED BY <1>1, <1>5, <2>1, DueInAuth
<1>6. ReplyTo(q, "serve") # {} \/ q \in lost => ReplyTo(q, "serve")' # {} \/ q \in lost'
  BY <1>2 DEF ReplyTo
<1>7. NotForgotten(q)'
  BY <1>1, <1>2, <1>3, <1>4, <1>5, <1>6 DEF NotForgotten, InPhase, Stage
<1>8. NotAuths(q)'
  BY <1>2, <1>4, NotAuthsKept
<1>9. QED BY <1>7, <1>8

LEMMA FInvStep ==
  ASSUME FInv, [Next]_vars, IInv'
  PROVE  FInv'
<1> SUFFICES \A q \in Req : NotForgotten(q)' /\ NotAuths(q)'
  BY DEF FInv
<1>0. IInv /\ phase \in [Req -> Phases] /\ outcomes \in [Req -> SUBSET Outcome]
  BY DEF FInv, IInv, TypeOK, Phases
<1>1. CASE \E p \in Req : HandleHttp(p)
  BY <1>1, WebForgetsNone
<1>2. CASE \E k \in Slot : Pushed(k) \/ HandleMessage(k) \/ Detach(k) \/ Die(k)
  BY <1>2, AuthForgetsNone DEF AuthStep
<1>3. UNCHANGED main => \A m \in Msg : MainKept(m)
  BY DEF MainKept
<1>4. ASSUME NEW p \in Req, ServeElsewhere(p)
      PROVE  \A q \in Req : NotForgotten(q)' /\ NotAuths(q)'
  <2>1. PICK e \in Exception \cup {Ok} :
          /\ outcomes' = [outcomes EXCEPT ![p] = {e}]
          /\ Send(Reply(<<p, "serve">>, RpcStatus(e), NoUser))
    BY <1>4 DEF ServeElsewhere
  <2>2. /\ UNCHANGED <<main, run, http, phase, lost>> /\ replies \subseteq replies'
        /\ phase[p] = "serving" /\ ~ForAuth(p)
    BY <1>4, <2>1 DEF ServeElsewhere, InPhase, ForAuth, Send
  <2>3. Waits
    BY <1>3, <2>2 DEF Waits
  <2>4. ASSUME NEW q \in Req, q # p PROVE NotForgotten(q)' /\ NotAuths(q)'
    BY <1>0, <2>1, <2>2, <2>3, <2>4, NobodyForgets
  <2>5. ReplyTo(p, "serve")' # {}
    <3>1. Open(p)
      BY <2>2 DEF Open
    <3>2. QED BY <2>1, <3>1, SentIsThere
  <2>6. NotInAuth(<<p, "serve">>)'
    BY <2>2, QueueUnseen DEF FInv, NotAuths
  <2>7. ~ForAuth(p)'
    BY <2>2 DEF ForAuth
  <2>8. NotForgotten(p)' /\ NotAuths(p)'
    BY <2>2, <2>5, <2>6, <2>7 DEF NotForgotten, NotAuths, InPhase
  <2>9. QED BY <2>4, <2>8
<1>5. ASSUME NEW p \in Req, PodDies(p)
      PROVE  \A q \in Req : NotForgotten(q)' /\ NotAuths(q)'
  <2>1. /\ UNCHANGED <<main, run, http, outcomes, lost>>
        /\ phase' = [phase EXCEPT ![p] = "gone"] /\ replies' = {r \in replies : r.req # p}
    BY <1>5 DEF PodDies, Fault, GoTo
  <2>2. phase'[p] = "gone" /\ \A q \in Req : q # p => phase'[q] = phase[q]
    BY <1>0, <2>1
  <2>3. Waits
    <3>1. \A r \in replies : r \in replies' \/ ~Open(r.req)'
      BY <2>1, <2>2 DEF Open
    <3>2. QED BY <1>3, <2>1, <3>1 DEF Waits
  <2>4. ASSUME NEW q \in Req, q # p PROVE NotForgotten(q)' /\ NotAuths(q)'
    BY <2>1, <2>2, <2>3, <2>4, NobodyForgets
  <2>5. ~ForAuth(p) => NotInAuth(<<p, "serve">>)'
    BY <2>1, QueueUnseen DEF FInv, NotAuths
  <2>6. NotForgotten(p)' /\ NotAuths(p)'
    BY <2>1, <2>2, <2>5 DEF NotForgotten, NotAuths, InPhase, ForAuth
  <2>7. QED BY <2>4, <2>6
<1>6. CASE \/ \E t \in Genuine : Expire(t)
           \/ \E r \in replies : LoseReply(r)
           \/ UNCHANGED vars
  <2>1. /\ UNCHANGED <<main, run, http, phase, outcomes>> /\ lost \subseteq lost'
        /\ \A r \in replies : r \in replies' \/ r.req \in lost'
    BY <1>6 DEF Expire, LoseReply, Fault, vars
  <2>2. Waits
    BY <1>3, <2>1 DEF Waits
  <2>3. QED BY <2>1, <2>2, NobodyForgets
<1>7. QED BY <1>1, <1>2, <1>4, <1>5, <1>6 DEF Next

\* A request the gateway waits for is never forgotten: as long as it is open,
\* auth has the message or a reply is on its way, unless one was lost; a request
\* for another service is unanswered by it, or its reply is on the way.
THEOREM RequestsAreNotForgotten == Spec => []NoneForgotten
<1>1. Init /\ IInv => FInv
  <2> SUFFICES ASSUME Init, IInv, NEW q \in Req PROVE NotForgotten(q) /\ NotAuths(q)
    BY DEF FInv
  <2>1. NotForgotten(q)
    BY DEF Init, NotForgotten, InPhase
  <2>2. NotInAuth(<<q, "serve">>)
    BY GatewayAssumption DEF Init, RmqInit, NotInAuth, IsIdle, Stage
  <2>3. QED BY <2>1, <2>2 DEF Init, NotAuths
<1>2. FInv /\ IInv' /\ [Next]_vars => FInv'
  BY FInvStep
<1>3. FInv => NoneForgotten
  BY DEF FInv, NoneForgotten
<1>4. QED BY <1>1, <1>2, <1>3, GatewayInvariant, PTL DEF Spec
-----------------------------------------------------------------------------
\* The strings on both sides of the queue.

\* A route is served by the handler of its pattern if its service has one such.
LEMMA ServedBy ==
  ASSUME NEW route, NEW h \in Handlers[route.service], h.cmd = route.cmd,
         \A g \in Handlers[route.service] : g.cmd = route.cmd => g = h,
         h.reads \subseteq DOMAIN route.payload,
         h.actor # Nobody => route.payload[h.actor] = "bearer" /\ "AuthGuard" \in route.guards
  PROVE  Served(route)
  BY DEF Served, Answering

\* What handlers and routes are made of.
LEMMA Fields ==
  /\ \A cmd, reads, actor : /\ Handler(cmd, reads, actor).cmd = cmd
                            /\ Handler(cmd, reads, actor).reads = reads
                            /\ Handler(cmd, reads, actor).actor = actor
  /\ \A service, guards, cmd, payload :
       /\ Route(service, guards, cmd, payload).service = service
       /\ Route(service, guards, cmd, payload).guards = guards
       /\ Route(service, guards, cmd, payload).cmd = cmd
       /\ Route(service, guards, cmd, payload).payload = payload
  BY DEF Handler, Route

\* The one handler of h's pattern.
Sole(service, h) == /\ h \in Handlers[service]
                    /\ \A g \in Handlers[service] : g.cmd = h.cmd => g = h

LEMMA UserRoute ==
  ASSUME NEW service, NEW cmd, NEW ins, NEW reads \in SUBSET ins,
         Sole(service, UserHandler(cmd, reads))
  PROVE  Served(Route(service, {"AuthGuard"}, cmd, ForUser(ins)))
<1>1. PICK r : r = Route(service, {"AuthGuard"}, cmd, ForUser(ins))
  OBVIOUS
<1>2. PICK h : h = UserHandler(cmd, reads)
  OBVIOUS
<1>3. /\ r.service = service /\ r.cmd = cmd /\ r.guards = {"AuthGuard"} /\ r.payload = ForUser(ins)
      /\ h.cmd = cmd /\ h.reads = {"userId"} \cup reads /\ h.actor = "userId"
  BY <1>1, <1>2, Fields DEF UserHandler
<1>4. DOMAIN ForUser(ins) = {"userId"} \cup ins /\ ForUser(ins)["userId"] = "bearer"
  BY DEF ForUser
<1>5. QED BY <1>1, <1>2, <1>3, <1>4, ServedBy DEF Sole

\* No two handlers of farms have a pattern in common, and none of the others.
LEMMA FarmHandlersSole == \A h \in FarmHandlers : Sole("farms", h)
<1> SUFFICES ASSUME NEW h \in FarmHandlers, NEW g \in Handlers["farms"], g.cmd = h.cmd
             PROVE  g = h
  BY DEF Handlers, Sole
<1>1. CASE g \in FarmHandlers
  BY <1>1, Fields DEF FarmHandlers, UserHandler
<1>2. CASE g \in CropHandlers
  BY <1>2, Fields DEF FarmHandlers, CropHandlers, UserHandler
<1>3. CASE g \in ActivityHandlers
  BY <1>3, Fields DEF FarmHandlers, ActivityHandlers, UserHandler
<1>4. CASE g \in HarvestHandlers
  BY <1>4, Fields DEF FarmHandlers, HarvestHandlers, UserHandler
<1>5. CASE g \in ReportHandlers
  BY <1>5, Fields DEF FarmHandlers, ReportHandlers, UserHandler
<1>6. QED BY <1>1, <1>2, <1>3, <1>4, <1>5 DEF Handlers

LEMMA CropHandlersSole == \A h \in CropHandlers : Sole("farms", h)
<1> SUFFICES ASSUME NEW h \in CropHandlers, NEW g \in Handlers["farms"], g.cmd = h.cmd
             PROVE  g = h
  BY DEF Handlers, Sole
<1>1. CASE g \in FarmHandlers
  BY <1>1, Fields DEF CropHandlers, FarmHandlers, UserHandler
<1>2. CASE g \in CropHandlers
  BY <1>2, Fields DEF CropHandlers, UserHandler
<1>3. CASE g \in ActivityHandlers
  BY <1>3, Fields DEF CropHandlers, ActivityHandlers, UserHandler
<1>4. CASE g \in HarvestHandlers
  BY <1>4, Fields DEF CropHandlers, HarvestHandlers, UserHandler
<1>5. CASE g \in ReportHandlers
  BY <1>5, Fields DEF CropHandlers, ReportHandlers, UserHandler
<1>6. QED BY <1>1, <1>2, <1>3, <1>4, <1>5 DEF Handlers

LEMMA ActivityHandlersSole == \A h \in ActivityHandlers : Sole("farms", h)
<1> SUFFICES ASSUME NEW h \in ActivityHandlers, NEW g \in Handlers["farms"], g.cmd = h.cmd
             PROVE  g = h
  BY DEF Handlers, Sole
<1>1. CASE g \in FarmHandlers
  BY <1>1, Fields DEF ActivityHandlers, FarmHandlers, UserHandler
<1>2. CASE g \in CropHandlers
  BY <1>2, Fields DEF ActivityHandlers, CropHandlers, UserHandler
<1>3. CASE g \in ActivityHandlers
  BY <1>3, Fields DEF ActivityHandlers, UserHandler
<1>4. CASE g \in HarvestHandlers
  BY <1>4, Fields DEF ActivityHandlers, HarvestHandlers, UserHandler
<1>5. CASE g \in ReportHandlers
  BY <1>5, Fields DEF ActivityHandlers, ReportHandlers, UserHandler
<1>6. QED BY <1>1, <1>2, <1>3, <1>4, <1>5 DEF Handlers

LEMMA HarvestHandlersSole == \A h \in HarvestHandlers : Sole("farms", h)
<1> SUFFICES ASSUME NEW h \in HarvestHandlers, NEW g \in Handlers["farms"], g.cmd = h.cmd
             PROVE  g = h
  BY DEF Handlers, Sole
<1>1. CASE g \in FarmHandlers
  BY <1>1, Fields DEF HarvestHandlers, FarmHandlers, UserHandler
<1>2. CASE g \in CropHandlers
  BY <1>2, Fields DEF HarvestHandlers, CropHandlers, UserHandler
<1>3. CASE g \in ActivityHandlers
  BY <1>3, Fields DEF HarvestHandlers, ActivityHandlers, UserHandler
<1>4. CASE g \in HarvestHandlers
  BY <1>4, Fields DEF HarvestHandlers, UserHandler
<1>5. CASE g \in ReportHandlers
  BY <1>5, Fields DEF HarvestHandlers, ReportHandlers, UserHandler
<1>6. QED BY <1>1, <1>2, <1>3, <1>4, <1>5 DEF Handlers

LEMMA ReportHandlersSole == \A h \in ReportHandlers : Sole("farms", h)
<1> SUFFICES ASSUME NEW h \in ReportHandlers, NEW g \in Handlers["farms"], g.cmd = h.cmd
             PROVE  g = h
  BY DEF Handlers, Sole
<1>1. CASE g \in FarmHandlers
  BY <1>1, Fields DEF ReportHandlers, FarmHandlers, UserHandler
<1>2. CASE g \in CropHandlers
  BY <1>2, Fields DEF ReportHandlers, CropHandlers, UserHandler
<1>3. CASE g \in ActivityHandlers
  BY <1>3, Fields DEF ReportHandlers, ActivityHandlers, UserHandler
<1>4. CASE g \in HarvestHandlers
  BY <1>4, Fields DEF ReportHandlers, HarvestHandlers, UserHandler
<1>5. CASE g \in ReportHandlers
  BY <1>5, Fields DEF ReportHandlers
<1>6. QED BY <1>1, <1>2, <1>3, <1>4, <1>5 DEF Handlers

LEMMA AuthHandlersSole == \A h \in AuthHandlers : Sole("auth", h)
<1> SUFFICES ASSUME NEW h \in AuthHandlers, NEW g \in AuthHandlers, g.cmd = h.cmd
             PROVE  g = h
  BY DEF Handlers, Sole
<1>1. QED BY Fields DEF AuthHandlers, UserHandler

\* A payload that is one value, and the handler that reads it.
LEMMA WholeRoute ==
  ASSUME NEW service, NEW guards, NEW cmd, NEW source, NEW actor \in {Nobody, "self"},
         Sole(service, Handler(cmd, {"self"}, actor)),
         actor # Nobody => source = "bearer" /\ "AuthGuard" \in guards
  PROVE  Served(Route(service, guards, cmd, Whole(source)))
<1>1. PICK r : r = Route(service, guards, cmd, Whole(source))
  OBVIOUS
<1>2. PICK h : h = Handler(cmd, {"self"}, actor)
  OBVIOUS
<1>3. /\ r.service = service /\ r.cmd = cmd /\ r.guards = guards /\ r.payload = Whole(source)
      /\ h.cmd = cmd /\ h.reads = {"self"} /\ h.actor = actor
  BY <1>1, <1>2, Fields
<1>4. DOMAIN Whole(source) = {"self"} /\ Whole(source)["self"] = source
  BY DEF Whole
<1>5. QED BY <1>1, <1>2, <1>3, <1>4, ServedBy DEF Sole

LEMMA FarmRoutesServed == \A r \in FarmRoutes : Served(r)
<1>1. Served(ToFarms("farms", ForUser({"createFarmDto"})))
  <2>1. Sole("farms", UserHandler("farms", {"createFarmDto"}))
    BY FarmHandlersSole DEF FarmHandlers
  <2>2. QED BY <2>1, UserRoute DEF ToFarms
<1>2. Served(ToFarms("farmsByUser", Whole("bearer")))
  <2>1. Sole("farms", Handler("farmsByUser", {"self"}, "self"))
    BY FarmHandlersSole DEF FarmHandlers
  <2>2. QED BY <2>1, WholeRoute DEF ToFarms
<1>3. Served(ToFarms("updateFarm", ForUser({"updateFarmDto", "farmId"})))
  <2>1. Sole("farms", UserHandler("updateFarm", {"updateFarmDto", "farmId"}))
    BY FarmHandlersSole DEF FarmHandlers
  <2>2. QED BY <2>1, UserRoute DEF ToFarms
<1>4. Served(ToFarms("deleteFarm", ForUser({"farmId"})))
  <2>1. Sole("farms", UserHandler("deleteFarm", {"farmId"}))
    BY FarmHandlersSole DEF FarmHandlers
  <2>2. QED BY <2>1, UserRoute DEF ToFarms
<1>5. Served(ToFarms("farm-image", ForUser({"file", "farmId"})))
  <2>1. Sole("farms", UserHandler("farm-image", {"farmId", "file"}))
    BY FarmHandlersSole DEF FarmHandlers
  <2>2. QED BY <2>1, UserRoute DEF ToFarms
<1>6. Served(ToFarms("get-farm-image", ForUser({"farmId"})))
  <2>1. Sole("farms", UserHandler("get-farm-image", {"farmId"}))
    BY FarmHandlersSole DEF FarmHandlers
  <2>2. QED BY <2>1, UserRoute DEF ToFarms
<1>7. QED BY <1>1, <1>2, <1>3, <1>4, <1>5, <1>6 DEF FarmRoutes

LEMMA CropRoutesServed == \A r \in CropRoutes : Served(r)
<1>1. Served(ToFarms("crops", ForUser({"createCropDto"})))
  <2>1. Sole("farms", UserHandler("crops", {"createCropDto"}))
    BY CropHandlersSole DEF CropHandlers
  <2>2. QED BY <2>1, UserRoute DEF ToFarms
<1>2. Served(ToFarms("cropsByFarm", ForUser({"farmId"})))
  <2>1. Sole("farms", UserHandler("cropsByFarm", {"farmId"}))
    BY CropHandlersSole DEF CropHandlers
  <2>2. QED BY <2>1, UserRoute DEF ToFarms
<1>3. Served(ToFarms("updateCrop", ForUser({"updateCropDto", "cropId"})))
  <2>1. Sole("farms", UserHandler("updateCrop", {"updateCropDto", "cropId"}))
    BY CropHandlersSole DEF CropHandlers
  <2>2. QED BY <2>1, UserRoute DEF ToFarms
<1>4. Served(ToFarms("getCropById", ForUser({"id"})))
  <2>1. Sole("farms", UserHandler("getCropById", {"id"}))
    BY CropHandlersSole DEF CropHandlers
  <2>2. QED BY <2>1, UserRoute DEF ToFarms
<1>5. Served(ToFarms("deleteCrop", ForUser({"cropId"})))
  <2>1. Sole("farms", UserHandler("deleteCrop", {"cropId"}))
    BY CropHandlersSole DEF CropHandlers
  <2>2. QED BY <2>1, UserRoute DEF ToFarms
<1>6. Served(ToFarms("crop-photo", ForUser({"file", "cropId"})))
  <2>1. Sole("farms", UserHandler("crop-photo", {"cropId", "file"}))
    BY CropHandlersSole DEF CropHandlers
  <2>2. QED BY <2>1, UserRoute DEF ToFarms
<1>7. Served(ToFarms("get-crop-photo", ForUser({"cropId"})))
  <2>1. Sole("farms", UserHandler("get-crop-photo", {"cropId"}))
    BY CropHandlersSole DEF CropHandlers
  <2>2. QED BY <2>1, UserRoute DEF ToFarms
<1>8. QED BY <1>1, <1>2, <1>3, <1>4, <1>5, <1>6, <1>7 DEF CropRoutes

LEMMA ActivityRoutesServed == \A r \in ActivityRoutes : Served(r)
<1>1. Served(ToFarms("activitiesByFarm", ForUser({"cropId"})))
  <2>1. Sole("farms", UserHandler("activitiesByFarm", {"cropId"}))
    BY ActivityHandlersSole DEF ActivityHandlers
  <2>2. QED BY <2>1, UserRoute DEF ToFarms
<1>2. Served(ToFarms("activities", ForUser({"createActivityDto"})))
  <2>1. Sole("farms", UserHandler("activities", {"createActivityDto"}))
    BY ActivityHandlersSole DEF ActivityHandlers
  <2>2. QED BY <2>1, UserRoute DEF ToFarms
<1>3. Served(ToFarms("updateActivity", ForUser({"updateActivityDto", "activityId"})))
  <2>1. Sole("farms", UserHandler("updateActivity", {"updateActivityDto", "activityId"}))
    BY ActivityHandlersSole DEF ActivityHandlers
  <2>2. QED BY <2>1, UserRoute DEF ToFarms
<1>4. Served(ToFarms("deleteActivity", ForUser({"activityId"})))
  <2>1. Sole("farms", UserHandler("deleteActivity", {"activityId"}))
    BY ActivityHandlersSole DEF ActivityHandlers
  <2>2. QED BY <2>1, UserRoute DEF ToFarms
<1>5. Served(ToFarms("activity-photo", ForUser({"file", "activityId"})))
  <2>1. Sole("farms", UserHandler("activity-photo", {"activityId", "file"}))
    BY ActivityHandlersSole DEF ActivityHandlers
  <2>2. QED BY <2>1, UserRoute DEF ToFarms
<1>6. Served(ToFarms("get-activity-photo", ForUser({"activityId"})))
  <2>1. Sole("farms", UserHandler("get-activity-photo", {"activityId"}))
    BY ActivityHandlersSole DEF ActivityHandlers
  <2>2. QED BY <2>1, UserRoute DEF ToFarms
<1>7. QED BY <1>1, <1>2, <1>3, <1>4, <1>5, <1>6 DEF ActivityRoutes

LEMMA HarvestRoutesServed == \A r \in HarvestRoutes : Served(r)
<1>1. Served(ToFarms("harvest", ForUser({"createHarvestDto"})))
  <2>1. Sole("farms", UserHandler("harvest", {"createHarvestDto"}))
    BY HarvestHandlersSole DEF HarvestHandlers
  <2>2. QED BY <2>1, UserRoute DEF ToFarms
<1>2. Served(ToFarms("harvestByCrop", ForUser({"cropId"})))
  <2>1. Sole("farms", UserHandler("harvestByCrop", {"cropId"}))
    BY HarvestHandlersSole DEF HarvestHandlers
  <2>2. QED BY <2>1, UserRoute DEF ToFarms
<1>3. Served(ToFarms("updateHarvest", ForUser({"updateHarvestDto", "harvestId"})))
  <2>1. Sole("farms", UserHandler("updateHarvest", {"updateHarvestDto", "harvestId"}))
    BY HarvestHandlersSole DEF HarvestHandlers
  <2>2. QED BY <2>1, UserRoute DEF ToFarms
<1>4. Served(ToFarms("deleteHarvest", ForUser({"harvestId"})))
  <2>1. Sole("farms", UserHandler("deleteHarvest", {"harvestId"}))
    BY HarvestHandlersSole DEF HarvestHandlers
  <2>2. QED BY <2>1, UserRoute DEF ToFarms
<1>5. Served(ToFarms("harvest-photo", ForUser({"file", "harvestId"})))
  <2>1. Sole("farms", UserHandler("harvest-photo", {"harvestId", "file"}))
    BY HarvestHandlersSole DEF HarvestHandlers
  <2>2. QED BY <2>1, UserRoute DEF ToFarms
<1>6. Served(ToFarms("get-harvest-photo", ForUser({"harvestId"})))
  <2>1. Sole("farms", UserHandler("get-harvest-photo", {"harvestId"}))
    BY HarvestHandlersSole DEF HarvestHandlers
  <2>2. QED BY <2>1, UserRoute DEF ToFarms
<1>7. QED BY <1>1, <1>2, <1>3, <1>4, <1>5, <1>6 DEF HarvestRoutes

LEMMA AuthRoutesServed == \A r \in AuthRoutes : Served(r)
<1>1. ASSUME NEW c \in {"register", "login", "refresh-token", "forgot-password", "reset-password"}
      PROVE  Served(Route("auth", {}, c, Whole("input")))
  <2>1. Sole("auth", Handler(c, {"self"}, Nobody))
    BY AuthHandlersSole DEF AuthHandlers
  <2>2. QED BY <2>1, WholeRoute
<1>2. Served(Route("auth", {"AuthGuard"}, "update-user", ForUser({"newInfo"})))
  <2>1. Sole("auth", UserHandler("update-user", {"newInfo"}))
    BY AuthHandlersSole DEF AuthHandlers
  <2>2. QED BY <2>1, UserRoute
<1>3. Served(Route("auth", {"AuthGuard"}, "user", ForUser({})))
  <2>1. Sole("auth", UserHandler("user", {}))
    BY AuthHandlersSole DEF AuthHandlers
  <2>2. QED BY <2>1, UserRoute
<1>4. Served(Route("auth", {"AuthGuard"}, "user-image", ForUser({"file"})))
  <2>1. Sole("auth", UserHandler("user-image", {"file"}))
    BY AuthHandlersSole DEF AuthHandlers
  <2>2. QED BY <2>1, UserRoute
<1>5. Served(Route("auth", {"AuthGuard"}, "get-user-image", Whole("bearer")))
  <2>1. Sole("auth", Handler("get-user-image", {"self"}, "self"))
    BY AuthHandlersSole DEF AuthHandlers
  <2>2. QED BY <2>1, WholeRoute
<1>6. QED BY <1>1, <1>2, <1>3, <1>4, <1>5 DEF AuthRoutes

LEMMA ReportRoutesServed == Served(AdminReportRoute) /\ Served(FarmerReportRoute)
<1>1. Served(AdminReportRoute)
  <2>1. Sole("farms", Handler("getAdminReport", {"self"}, "self"))
    BY ReportHandlersSole DEF ReportHandlers
  <2>2. QED BY <2>1, WholeRoute DEF AdminReportRoute
<1>2. Served(FarmerReportRoute)
  <2>1. PICK h : h = Handler("getFarmerReport", {"id", "req_id"}, "req_id")
    OBVIOUS
  <2>2. Sole("farms", h)
    BY <2>1, ReportHandlersSole DEF ReportHandlers
  <2>3. PICK p : p = [id |-> "input", req_id |-> "bearer"]
    OBVIOUS
  <2>4. PICK r : r = FarmerReportRoute
    OBVIOUS
  <2>5. /\ r.service = "farms" /\ r.cmd = "getFarmerReport" /\ r.guards = {"AuthGuard"}
        /\ r.payload = p
    BY <2>3, <2>4, Fields DEF FarmerReportRoute, ToFarms
  <2>6. h.cmd = "getFarmerReport" /\ h.reads = {"id", "req_id"} /\ h.actor = "req_id"
    BY <2>1, Fields
  <2>7. DOMAIN p = {"id", "req_id"} /\ p["req_id"] = "bearer"
    BY <2>3
  <2>8. QED BY <2>2, <2>4, <2>5, <2>6, <2>7, ServedBy DEF Sole
<1>3. QED BY <1>1, <1>2

LEMMA TracingRoutesServed == \A r \in TracingRoutes : Served(r)
<1>1. Sole("tracing", Handler("getTracingHistory", {"self"}, Nobody))
  BY DEF Sole, Handlers, TracingHandlers
<1>2. QED BY <1>1, WholeRoute DEF TracingRoutes

\* Every route of the gateway is served, whether it is in the traffic or not.
THEOREM RoutesServed == \A r \in Routes : Served(r)
  BY FarmRoutesServed, CropRoutesServed, ActivityRoutesServed, HarvestRoutesServed,
     AuthRoutesServed, ReportRoutesServed, TracingRoutesServed DEF Routes

\* Every request that leaves the gateway is one that its service handles, with
\* the fields the handler reads and the verified user as the acting one.
THEOREM RequestsAreHandled == Spec => []EveryRouteHandled
<1>1. IInv => EveryRouteHandled
  BY RoutesServed DEF IInv, TypeOK, HttpRequest, EveryRouteHandled
<1>2. QED BY <1>1, GatewayInvariant, PTL
=============================================================================
