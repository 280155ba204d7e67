---------------------------- MODULE ServerParts -----------------------------
(***************************************************************************)
(* The parts of the service that share its process and no state: the polls *)
(* of a station's feed, the monitor of the Capital job, the limiter of the *)
(* manual imports, the imports, the webhooks, the chart cache, the         *)
(* playlist desk, the source checks and the seeding.  As no step of one    *)
(* reads or writes what another has, a behaviour of all is one of each     *)
(* beside the others, and each is explored with the others at rest.        *)
(***************************************************************************)
EXTENDS FeedPolls, CapitalMonitor, RateLimiter, Imports, Webhooks, ChartCache,
        PlaylistDesk, SourceChecks, Seeder

VARIABLE part  \* the part that moves

Parts == {"feeds", "limiter", "monitor", "webhooks", "charts", "desk",
          "imports", "checks", "seeder"}

serverVars == <<part, feedVars, limiterVars, monitorVars, webhookVars, chartVars,
                deskVars, importVars, checkVars, seederVars>>

ServerInit ==
  /\ part \in Parts
  /\ FeedInit /\ LimiterInit /\ MonitorInit /\ WebhookInit /\ ChartInit
  /\ DeskInit /\ ImportInit /\ CheckInit /\ SeederInit
  /\ part # "checks" => shows = "track"
  /\ part # "feeds" => kind = "page" /\ withIds /\ ahead = 0

\* Only part p moves.
Alone(p) ==
  /\ part = p
  /\ part' = part
  /\ IF p = "feeds" THEN TRUE ELSE UNCHANGED feedVars
  /\ IF p = "limiter" THEN TRUE ELSE UNCHANGED limiterVars
  /\ IF p = "monitor" THEN TRUE ELSE UNCHANGED monitorVars
  /\ IF p = "webhooks" THEN TRUE ELSE UNCHANGED webhookVars
  /\ IF p = "charts" THEN TRUE ELSE UNCHANGED chartVars
  /\ IF p = "desk" THEN TRUE ELSE UNCHANGED deskVars
  /\ IF p = "imports" THEN TRUE ELSE UNCHANGED importVars
  /\ IF p = "checks" THEN TRUE ELSE UNCHANGED checkVars
  /\ IF p = "seeder" THEN TRUE ELSE UNCHANGED seederVars

ServerNext ==
  \/ Alone("feeds") /\ FeedNext
  \/ Alone("limiter") /\ LimiterNext
  \/ Alone("monitor") /\ MonitorNext
  \/ Alone("webhooks") /\ WebhookNext
  \/ Alone("charts") /\ ChartNext
  \/ Alone("desk") /\ DeskNext
  \/ Alone("imports") /\ ImportNext
  \/ Alone("checks") /\ CheckNext
  \/ Alone("seeder") /\ SeederNext

ServerSpec == ServerInit /\ [][ServerNext]_serverVars

\* The fairness of each part.
ServerProgress ==
  /\ WF_serverVars(Alone("monitor") /\ PollStep)
  /\ \A e \in Events :
       /\ WF_serverVars(Alone("webhooks") /\ FireReturns(e))
       /\ \A s \in Subscriptions : WF_serverVars(Alone("webhooks") /\ Deliver(e, s))
  /\ \A p \in Services : WF_serverVars(Alone("seeder") /\ SeedStep(p))

FairServerSpec == ServerSpec /\ ServerProgress

-----------------------------------------------------------------------------
ServerTypeOK ==
  /\ part \in Parts
  /\ FeedTypeOK /\ LimiterTypeOK /\ MonitorTypeOK /\ WebhookTypeOK
  /\ ChartTypeOK /\ DeskTypeOK /\ ImportsTypeOK /\ ChecksTypeOK /\ SeederTypeOK
=============================================================================
