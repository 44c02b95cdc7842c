------------------------------- MODULE Gateway -------------------------------
(***************************************************************************)
(* The HTTP gateway in front of auth's queue.  A guarded request becomes    *)
(* two messages: AuthGuard asks auth to verify the bearer token, and when   *)
(* that is answered the controller forwards the request itself.  Replies    *)
(* come back by correlation id, nothing times out, and a reply is sent only *)
(* after its message was acked, so it can be lost for good.  auth is the    *)
(* consumer of RmqConsumer; the farms and tracing services answer in one    *)
(* step here and are modelled elsewhere.                                    *)
(***************************************************************************)
EXTENDS RmqConsumer, GatewayRoutes

CONSTANTS Req,      \* HTTP requests
          Token,    \* what an Authorization header may carry
          NoToken,  \* no header
          Bearer,   \* Bearer[t]: the user a genuine token was issued to
          Admin,    \* users whose token has the role admin
          NoUser,   \* nobody attached yet
          Traffic,  \* the requests considered together
          MaxExpired \* bound: tokens that expire

Genuine == DOMAIN Bearer
User == {Bearer[t] : t \in Genuine}
Stage == {"verify", "serve"}
HttpRequest == [route : Routes, token : Token \cup {NoToken}]

ASSUME GatewayAssumption ==
  /\ Genuine \subseteq Token /\ NoToken \notin Token /\ NoUser \notin User
  /\ Msg = Req \X Stage /\ Rpc = Msg /\ Guarded = Req \X {"verify"}
  /\ Traffic \subseteq [Req -> HttpRequest]
  /\ MaxExpired \in Nat

VARIABLES
  http,     \* the requests
  phase,    \* how far the gateway is with each
  user,     \* request.user
  answer,   \* the HTTP response: its status, and who decided it
  expired,  \* tokens past their exp
  past,     \* handlers of verify-jwt that JwtGuard let through
  outcome,  \* how a handler of auth ended, until it has replied
  outcomes, \* how the handlers of a request have ended
  replies,  \* replies on their way to the gateway
  detached, \* requests whose handler in auth lost its connection
  lost      \* requests a reply to which was lost

web == <<http, phase, user, answer>>
auth == <<past, outcome, outcomes>>
hurt == <<detached, lost>>
vars == <<rmqVars, web, expired, auth, replies, hurt>>

\* Exceptions a domain handler may throw, and how a handler may end.
HttpException(n) == [kind |-> "HttpException", status |-> n]
Exception == {HttpException(404), [kind |-> "Error"]}
Ok == [kind |-> "ok"]
Unauthorized == HttpException(401)
Outcome == Exception \cup {Ok, Unauthorized}

\* Mutant of RpcStatus: an exception crosses the queue as a plain error.
RpcStatusLost(e) == IF e = Ok THEN 200 ELSE 500

\* The status that RpcExceptionFilter puts in a reply and that
\* HttpExceptionFilter takes from it.
RpcStatus(e) == CASE e.kind = "ok" -> 200
                  [] e.kind = "HttpException" -> e.status
                  [] OTHER -> 500

Reply(m, status, u) == [req |-> m[1], stage |-> m[2], status |-> status, user |-> u]
\* Nobody waits for a reply to a request that is over.
Open(q) == phase[q] \notin {"answered", "gone"}
Send(r) == replies' = IF Open(r.req) THEN replies \cup {r} ELSE replies
Unanswered == [by |-> "nobody", status |-> 0]

TypeOK ==
  /\ RmqTypeOK
  /\ http \in [Req -> HttpRequest]
  /\ phase \in [Req -> {"new", "verifying", "admitted", "serving",
                        "answered", "gone"}]
  /\ user \in [Req -> User \cup {NoUser}]
  /\ \A q \in Req : phase[q] = "answered" <=> answer[q] # Unanswered
  /\ expired \subseteq Genuine
  /\ past \subseteq Slot
  /\ outcome \in [Slot -> Outcome]
  /\ outcomes \in [Req -> SUBSET Outcome]
  /\ \A r \in replies : r.req \in Req /\ r.stage \in Stage
  /\ detached \subseteq Req /\ lost \subseteq Req

Init ==
  /\ RmqInit
  /\ http \in Traffic
  /\ phase = [q \in Req |-> "new"]
  /\ user = [q \in Req |-> NoUser]
  /\ answer = [q \in Req |-> Unanswered]
  /\ expired = {}
  /\ past = {}
  /\ outcome = [k \in Slot |-> Ok]
  /\ outcomes = [q \in Req |-> {}]
  /\ replies = {}
  /\ detached = {}
  /\ lost = {}
-----------------------------------------------------------------------------
(* The gateway.                                                             *)

InPhase(q, p) == phase[q] = p
GoTo(q, p) == phase' = [phase EXCEPT ![q] = p]
HasGuard(q, g) == g \in http[q].route.guards
TokenOf(q) == http[q].token

Respond(q, by, status) ==
  /\ GoTo(q, "answered")
  /\ answer' = [answer EXCEPT ![q] = [by |-> by, status |-> status]]
  /\ replies' = {r \in replies : r.req # q}
  /\ UNCHANGED <<http, user>>

Elsewhere == UNCHANGED <<rmqVars, expired, auth, hurt>>

\* ThrottlerGuard: how many requests came before is not in the model.
Throttle(q) == InPhase(q, "new") /\ Respond(q, "gateway", 429) /\ Elsewhere

\* A route without AuthGuard.
EnterOpen(q) ==
  /\ InPhase(q, "new") /\ ~HasGuard(q, "AuthGuard")
  /\ GoTo(q, "admitted")
  /\ UNCHANGED <<http, user, answer, replies>> /\ Elsewhere

NoBearer(q) ==
  /\ InPhase(q, "new") /\ HasGuard(q, "AuthGuard") /\ TokenOf(q) = NoToken
  /\ Respond(q, "gateway", 401) /\ Elsewhere

AskAuth(q) ==
  /\ InPhase(q, "new") /\ HasGuard(q, "AuthGuard") /\ TokenOf(q) # NoToken
  /\ Publish(<<q, "verify">>)
  /\ GoTo(q, "verifying")
  /\ UNCHANGED <<http, user, answer, expired, auth, replies, hurt>>

\* Mutant of ReplyTo: the first reply of that kind is taken, whoever asked.
ReplyToAnyone(q, stage) ==
  {r \in replies : r.stage = stage /\ q \in Req}

ReplyTo(q, stage) == {r \in replies : r.req = q /\ r.stage = stage}

\* Mutant of ExpAhead: exp is compared in seconds with a clock in milliseconds.
ExpAheadInSeconds(t) == t \notin Token

\* AuthGuard's own look at exp.
ExpAhead(t) == t \notin expired

Admit(q) ==
  /\ InPhase(q, "verifying") /\ ExpAhead(TokenOf(q))
  /\ \E r \in ReplyTo(q, "verify") :
       r.status = 200 /\ user' = [user EXCEPT ![q] = r.user]
  /\ GoTo(q, "admitted")
  /\ UNCHANGED <<http, answer, replies>> /\ Elsewhere

\* catchError: whatever went wrong, the answer is 401.
Deny(q) ==
  /\ InPhase(q, "verifying")
  /\ \E r \in ReplyTo(q, "verify") : r.status # 200 \/ ~ExpAhead(TokenOf(q))
  /\ Respond(q, "gateway", 401) /\ Elsewhere

HasRole(q) == HasGuard(q, "RolesGuard") => user[q] \in Admin

Forbid(q) ==
  /\ InPhase(q, "admitted") /\ ~HasRole(q)
  /\ Respond(q, "gateway", 403) /\ Elsewhere

\* ValidationPipe, ParseIntPipe or ParseFilePipe refuses what came in.
Invalid(q) ==
  /\ InPhase(q, "admitted") /\ HasRole(q)
  /\ \E f \in DOMAIN http[q].route.payload : http[q].route.payload[f] = "input"
  /\ Respond(q, "gateway", 400) /\ Elsewhere

Forward(q) ==
  /\ InPhase(q, "admitted") /\ HasRole(q)
  /\ IF http[q].route.service = "auth"
     THEN Publish(<<q, "serve">>) ELSE UNCHANGED rmqVars
  /\ GoTo(q, "serving")
  /\ UNCHANGED <<http, user, answer, expired, auth, replies, hurt>>

Finish(q) ==
  /\ InPhase(q, "serving")
  /\ \E r \in ReplyTo(q, "serve") : Respond(q, "service", r.status)
  /\ Elsewhere

HandleHttp(q) == \/ Throttle(q) \/ EnterOpen(q) \/ NoBearer(q) \/ AskAuth(q)
                 \/ Admit(q) \/ Deny(q) \/ Forbid(q) \/ Invalid(q)
                 \/ Forward(q) \/ Finish(q)
-----------------------------------------------------------------------------
(* auth, and the other services.                                            *)

Handles(k, stage) == At(k, "running") /\ run[k].msg[2] = stage
Asker(k) == run[k].msg[1]
Valid(t) == t \in Genuine /\ t \notin expired

Ends(k, e) ==
  /\ outcome' = [outcome EXCEPT ![k] = e]
  /\ outcomes' = [outcomes EXCEPT ![Asker(k)] = IF run[k].msg[2] = "serve"
                                                THEN @ \cup {e} ELSE @]
  /\ past' = past \ {k}

\* JwtGuard, outside the interceptor.
RejectJwt(k) ==
  /\ Handles(k, "verify") /\ k \notin past
  /\ ~Valid(TokenOf(Asker(k)))
  /\ GuardRejects(k)
  /\ Send(Reply(run[k].msg, 401, NoUser))
  /\ UNCHANGED <<web, expired, auth, hurt>>

PassJwt(k) ==
  /\ Handles(k, "verify") /\ k \notin past
  /\ Valid(TokenOf(Asker(k)))
  /\ past' = past \cup {k}
  /\ UNCHANGED <<rmqVars, web, expired, outcome, outcomes, replies, hurt>>

\* verifyJwt, inside: the token may have expired since.
VerifyJwt(k) ==
  /\ Handles(k, "verify") /\ k \in past
  /\ \/ Valid(TokenOf(Asker(k))) /\ HandlerReturns(k) /\ Ends(k, Ok)
     \/ ~Valid(TokenOf(Asker(k))) /\ HandlerThrows(k) /\ Ends(k, Unauthorized)
  /\ UNCHANGED <<web, expired, replies, hurt>>

Serve(k) ==
  /\ Handles(k, "serve")
  /\ \/ HandlerReturns(k) /\ Ends(k, Ok)
     \/ \E e \in Exception : HandlerThrows(k) /\ Ends(k, e)
  /\ UNCHANGED <<web, expired, replies, hurt>>

\* Mutant of AckAndReply: catchError acks and completes.
AckAndReplyIfOk(k) ==
  /\ Ack(k)
  /\ IF outcome[k] = Ok
     THEN Send(Reply(run[k].msg, 200,
                     IF run[k].msg[2] = "verify" THEN Bearer[TokenOf(Asker(k))]
                                                 ELSE NoUser))
     ELSE UNCHANGED replies
  /\ UNCHANGED <<web, expired, auth, hurt>>

\* The interceptor acks, then the result or the error goes out as the reply.
AckAndReply(k) ==
  /\ Ack(k)
  /\ Send(Reply(run[k].msg, RpcStatus(outcome[k]),
                IF run[k].msg[2] = "verify" /\ outcome[k] = Ok
                THEN Bearer[TokenOf(Asker(k))] ELSE NoUser))
  /\ UNCHANGED <<web, expired, auth, hurt>>

\* A handler that outlived its channel: the ack throws, and what goes out, if
\* anything does, is that error.  One whose guard rejected had replied before.
LateReply(k) ==
  /\ StaleEnds(k)
  /\ \/ UNCHANGED replies
     \/ ~At(k, "rejected") /\ Send(Reply(run[k].msg, 500, NoUser))
  /\ UNCHANGED <<web, expired, auth, hurt>>

HandleMessage(k) == \/ RejectJwt(k) \/ PassJwt(k) \/ VerifyJwt(k) \/ Serve(k)
                    \/ AckAndReply(k) \/ LateReply(k)

\* farms or tracing answers.
ServeElsewhere(q) ==
  /\ InPhase(q, "serving") /\ http[q].route.service # "auth"
  /\ outcomes[q] = {}
  /\ \E e \in Exception \cup {Ok} :
       /\ outcomes' = [outcomes EXCEPT ![q] = {e}]
       /\ Send(Reply(<<q, "serve">>, RpcStatus(e), NoUser))
  /\ UNCHANGED <<rmqVars, web, expired, past, outcome, hurt>>

Pushed(k) ==
  /\ \E m \in Msg, n \in Count : Deliver(k, m, n)
  /\ UNCHANGED <<web, expired, auth, replies, hurt>>
-----------------------------------------------------------------------------
(* What happens to them.                                                    *)

Expire(t) ==
  /\ t \notin expired /\ Cardinality(expired) < MaxExpired
  /\ expired' = expired \cup {t}
  /\ UNCHANGED <<rmqVars, web, auth, replies, hurt>>

Detach(k) ==
  /\ LoseConnection(k)
  /\ detached' = detached \cup {Asker(k)}
  /\ UNCHANGED <<web, expired, auth, replies, lost>>

Die(k) ==
  /\ Crash(k)
  /\ past' = past \ {k}
  /\ UNCHANGED <<web, expired, outcome, outcomes, replies, hurt>>

Fault == /\ faults < MaxFaults
         /\ faults' = faults + 1
         /\ UNCHANGED <<broker, run, history>>

\* auth dies between the ack and the reply, or the reply's channel is gone.
LoseReply(r) ==
  /\ Fault
  /\ replies' = replies \ {r}
  /\ lost' = lost \cup {r.req}
  /\ UNCHANGED <<web, expired, auth, detached>>

\* The pod that holds the HTTP connection dies.
PodDies(q) ==
  /\ Fault
  /\ Open(q) /\ phase[q] # "new"
  /\ GoTo(q, "gone")
  /\ replies' = {r \in replies : r.req # q}
  /\ UNCHANGED <<http, user, answer, expired, auth, hurt>>

Next ==
  \/ \E q \in Req : HandleHttp(q) \/ ServeElsewhere(q) \/ PodDies(q)
  \/ \E k \in Slot : Pushed(k) \/ HandleMessage(k) \/ Detach(k) \/ Die(k)
  \/ \E t \in Genuine : Expire(t)
  \/ \E r \in replies : LoseReply(r)

Spec == Init /\ [][Next]_vars

\* The gateway goes on with what it can, the broker delivers, handlers and
\* services end.  Nobody has to send a request, and no token must expire.
FairSpec ==
  /\ Spec
  /\ \A q \in Req : /\ WF_vars(phase[q] # "new" /\ HandleHttp(q))
                    /\ WF_vars(ServeElsewhere(q))
  /\ \A k \in Slot : WF_vars(Pushed(k)) /\ WF_vars(HandleMessage(k))
-----------------------------------------------------------------------------
\* Every request that leaves the gateway is one that its service handles, with
\* the fields the handler reads and the verified user as the acting one.
EveryRouteHandled == \A q \in Req : InPhase(q, "serving") => Served(http[q].route)

\* A guarded request goes on as the user its own token was issued to, whatever
\* other requests are in flight and however often auth answers; for an admin
\* route that user is an admin.
OnlyForBearer ==
  \A q \in Req :
    InPhase(q, "serving") /\ HasGuard(q, "AuthGuard") =>
      /\ TokenOf(q) \in Genuine
      /\ user[q] = Bearer[TokenOf(q)]
      /\ HasGuard(q, "RolesGuard") => Bearer[TokenOf(q)] \in Admin

\* Three clocks look at a token's exp, and the answer may be a redelivery's: the
\* gateway still answers 401 only if the token is missing, forged or expired, or
\* if auth lost its connection while it was verifying (to AuthGuard every error
\* is a 401, the late handler's too).
RefusedForCause ==
  \A q \in Req :
    answer[q] = [by |-> "gateway", status |-> 401] =>
      TokenOf(q) \notin Genuine \/ TokenOf(q) \in expired \/ q \in detached

\* "its statusCode becomes the HTTP status" (http-exception.filter.ts:15-16):
\* the status of the response is that of what a handler of this request threw
\* or returned, or the 500 of one that had lost its connection.
StatusSurvives ==
  \A q \in Req :
    answer[q].by = "service" =>
      \/ \E e \in outcomes[q] :
           answer[q].status = IF e.kind = "HttpException" THEN e.status
                              ELSE IF e = Ok THEN 200 ELSE 500
      \/ answer[q].status = 500 /\ q \in detached

\* Behind auth's only connection, once a rejected delivery holds it.
Stuck(q) ==
  /\ \E stage \in Stage : main[<<q, stage>>][0] > 0
  /\ Cardinality({k \in Slot : At(k, "rejected") /\ Live(k)}) = Consumers

\* There is no timeout, yet every request the gateway took up is answered,
\* unless its pod died, a reply to it was lost, or it waits behind a delivery
\* that JwtGuard rejected and nobody acks.
AnsweredOrStuck ==
  \A q \in Req :
    phase[q] # "new" ~> (phase[q] \in {"answered", "gone"} \/ q \in lost \/ Stuck(q))
=============================================================================
