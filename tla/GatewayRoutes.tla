---------------------------- MODULE GatewayRoutes ----------------------------
(***************************************************************************)
(* What the gateway's controllers send and what the services handle.  The   *)
(* two sides meet over RabbitMQ by the strings of a message pattern and the *)
(* names of the payload's fields, so no compiler compares them.             *)
(*                                                                         *)
(* A route is a pattern, the guards before it and, for each field of its    *)
(* payload, where the value comes from: the user that AuthGuard attached    *)
(* ("bearer") or the HTTP request ("input").  A payload that is one value   *)
(* has the only field "self".  A handler is a pattern, the fields it reads  *)
(* and the one it takes for the acting user.                                *)
(***************************************************************************)
EXTENDS FiniteSets

Route(service, guards, cmd, payload) ==
  [service |-> service, guards |-> guards, cmd |-> cmd, payload |-> payload]

Whole(source) == [self |-> source]
ForUser(inputs) ==
  [f \in {"userId"} \cup inputs |-> IF f = "userId" THEN "bearer" ELSE "input"]

ToFarms(cmd, payload) == Route("farms", {"AuthGuard"}, cmd, payload)

Handler(cmd, reads, actor) == [cmd |-> cmd, reads |-> reads, actor |-> actor]
Nobody == "nobody"
UserHandler(cmd, inputs) == Handler(cmd, {"userId"} \cup inputs, "userId")
-----------------------------------------------------------------------------
(* The gateway.                                                             *)

AuthRoutes ==
  {Route("auth", {}, c, Whole("input")) :
     c \in {"register", "login", "refresh-token", "forgot-password",
            "reset-password"}}
  \cup {Route("auth", {"AuthGuard"}, "update-user", ForUser({"newInfo"})),
        Route("auth", {"AuthGuard"}, "user", ForUser({})),
        Route("auth", {"AuthGuard"}, "user-image", ForUser({"file"})),
        Route("auth", {"AuthGuard"}, "get-user-image", Whole("bearer"))}

FarmRoutes ==
  {ToFarms("farms", ForUser({"createFarmDto"})),
   ToFarms("farmsByUser", Whole("bearer")),
   ToFarms("updateFarm", ForUser({"updateFarmDto", "farmId"})),
   ToFarms("deleteFarm", ForUser({"farmId"})),
   ToFarms("farm-image", ForUser({"file", "farmId"})),
   ToFarms("get-farm-image", ForUser({"farmId"}))}

\* Mutant of CropRoutes: a crop is deleted by "id", as it is found.
CropRoutesById ==
  {ToFarms("crops", ForUser({"createCropDto"})),
   ToFarms("deleteCrop", ForUser({"id"}))}

CropRoutes ==
  {ToFarms("crops", ForUser({"createCropDto"})),
   ToFarms("cropsByFarm", ForUser({"farmId"})),
   ToFarms("updateCrop", ForUser({"updateCropDto", "cropId"})),
   ToFarms("getCropById", ForUser({"id"})),
   ToFarms("deleteCrop", ForUser({"cropId"})),
   ToFarms("crop-photo", ForUser({"file", "cropId"})),
   ToFarms("get-crop-photo", ForUser({"cropId"}))}

ActivityRoutes ==
  {ToFarms("activitiesByFarm", ForUser({"cropId"})),
   ToFarms("activities", ForUser({"createActivityDto"})),
   ToFarms("updateActivity", ForUser({"updateActivityDto", "activityId"})),
   ToFarms("deleteActivity", ForUser({"activityId"})),
   ToFarms("activity-photo", ForUser({"file", "activityId"})),
   ToFarms("get-activity-photo", ForUser({"activityId"}))}

HarvestRoutes ==
  {ToFarms("harvest", ForUser({"createHarvestDto"})),
   ToFarms("harvestByCrop", ForUser({"cropId"})),
   ToFarms("updateHarvest", ForUser({"updateHarvestDto", "harvestId"})),
   ToFarms("deleteHarvest", ForUser({"harvestId"})),
   ToFarms("harvest-photo", ForUser({"file", "harvestId"})),
   ToFarms("get-harvest-photo", ForUser({"harvestId"}))}

AdminReportRoute ==
  Route("farms", {"AuthGuard", "RolesGuard"}, "getAdminReport", Whole("bearer"))
FarmerReportRoute ==
  ToFarms("getFarmerReport", [id |-> "input", req_id |-> "bearer"])

TracingRoutes ==
  {Route("tracing", {"AuthGuard"}, "getTracingHistory", Whole("input"))}

Routes == AuthRoutes \cup FarmRoutes \cup CropRoutes \cup ActivityRoutes
          \cup HarvestRoutes \cup {AdminReportRoute, FarmerReportRoute}
          \cup TracingRoutes
-----------------------------------------------------------------------------
(* The services.                                                            *)

AuthHandlers ==
  {Handler(c, {"self"}, Nobody) :
     c \in {"register", "login", "refresh-token", "forgot-password",
            "reset-password"}}
  \cup {UserHandler("update-user", {"newInfo"}), UserHandler("user", {}),
        UserHandler("user-image", {"file"}),
        Handler("get-user-image", {"self"}, "self"),
        Handler("verify-jwt", {"jwt"}, Nobody)}

FarmHandlers ==
  {UserHandler("farms", {"createFarmDto"}),
   Handler("farmsByUser", {"self"}, "self"),
   UserHandler("updateFarm", {"updateFarmDto", "farmId"}),
   UserHandler("deleteFarm", {"farmId"}),
   UserHandler("farm-image", {"farmId", "file"}),
   UserHandler("get-farm-image", {"farmId"})}

CropHandlers ==
  {UserHandler("crops", {"createCropDto"}),
   UserHandler("getCropById", {"id"}),
   UserHandler("cropsByFarm", {"farmId"}),
   UserHandler("updateCrop", {"updateCropDto", "cropId"}),
   UserHandler("deleteCrop", {"cropId"}),
   UserHandler("crop-photo", {"cropId", "file"}),
   UserHandler("get-crop-photo", {"cropId"})}

ActivityHandlers ==
  {UserHandler("activities", {"createActivityDto"}),
   UserHandler("activitiesByFarm", {"cropId"}),
   UserHandler("updateActivity", {"updateActivityDto", "activityId"}),
   UserHandler("deleteActivity", {"activityId"}),
   UserHandler("activity-photo", {"activityId", "file"}),
   UserHandler("get-activity-photo", {"activityId"})}

HarvestHandlers ==
  {UserHandler("harvest", {"createHarvestDto"}),
   UserHandler("harvestByCrop", {"cropId"}),
   UserHandler("updateHarvest", {"updateHarvestDto", "harvestId"}),
   UserHandler("deleteHarvest", {"harvestId"}),
   UserHandler("harvest-photo", {"harvestId", "file"}),
   UserHandler("get-harvest-photo", {"harvestId"})}

ReportHandlers ==
  {Handler("getAdminReport", {"self"}, "self"),
   Handler("getFarmerReport", {"id", "req_id"}, "req_id")}

TracingHandlers == {Handler("getTracingHistory", {"self"}, Nobody)}

Handlers ==
  [auth |-> AuthHandlers,
   farms |-> FarmHandlers \cup CropHandlers \cup ActivityHandlers
             \cup HarvestHandlers \cup ReportHandlers,
   tracing |-> TracingHandlers]
-----------------------------------------------------------------------------
\* The handlers that answer a route: those of its service with its pattern.
Answering(route) == {h \in Handlers[route.service] : h.cmd = route.cmd}

\* One handler answers, it finds every field it reads, and it takes nobody
\* for the acting user but the one whose token AuthGuard had verified.
Served(route) ==
  \E h \in Answering(route) :
    /\ Answering(route) = {h}
    /\ h.reads \subseteq DOMAIN route.payload
    /\ h.actor # Nobody => /\ route.payload[h.actor] = "bearer"
                           /\ "AuthGuard" \in route.guards
=============================================================================
