------------------------------ MODULE MCGateway ------------------------------
(* Two requests at a time: ann on every route beside a request without token, *)
(* and, for each kind of route, beside an administrator's that uses auth too.  *)
EXTENDS Gateway, TLC

CONSTANTS q1, q2, annToken, rootToken, forged, ann, root, k1, k2

MCReq == {q1, q2}
MCStage == {"verify", "serve"}
MCMsg == MCReq \X MCStage
MCGuarded == MCReq \X {"verify"}
MCSlot == {k1, k2}
MCToken == {annToken, rootToken, forged}
MCBearer == annToken :> ann @@ rootToken :> root
MCAdmin == {root}

To(cmd) == CHOOSE r \in Routes : r.cmd = cmd
Of(cmd, token) == [route |-> To(cmd), token |-> token]
MCTraffic ==
  {q1 :> Of(r.cmd, annToken) @@ q2 :> Of("user", NoToken) : r \in Routes}
  \cup {q1 :> Of(c, annToken) @@ q2 :> Of("getAdminReport", rootToken) :
          c \in {"login", "update-user", "farms", "getAdminReport"}}
  \cup {q1 :> Of("update-user", t) @@ q2 :> Of("update-user", rootToken) :
          t \in {annToken, forged}}
=============================================================================
