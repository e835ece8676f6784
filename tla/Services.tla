------------------------------- MODULE Services -------------------------------
(***************************************************************************)
(* The components around the ingestion and chat cores: rate limiter,       *)
(* authentication, container start, fact memory, provider cache,           *)
(* retrieval, chunker and answer stream.  They share no variable, so any   *)
(* property of one is decided by its own steps: a behaviour of this        *)
(* specification is a behaviour of one of them, its part, while the others *)
(* rest in their initial states.                                           *)
(***************************************************************************)
EXTENDS RateLimit, Sessions, Startup, FactMemory, ProviderCache, Retrieval,
        Chunker, AnswerStream

VARIABLE part

servicesVars == <<part, limiterVars, sessionVars, startupVars, factVars,
                  providerVars, retrievalVars, chunkVars, streamVars>>

Parts == {"limiter", "sessions", "startup", "facts", "provider", "retrieval",
          "chunker", "answer"}

ServicesInit ==
  /\ part \in Parts
  /\ LimiterInit /\ SessionsInit /\ StartupInit /\ FactsInit
  /\ ProviderInit /\ RetrievalInit /\ ChunkerInit /\ AnswerInit

\* The parts that are not p rest.
Rest(p) ==
  /\ part = p /\ UNCHANGED part
  /\ IF p = "limiter" THEN TRUE ELSE UNCHANGED limiterVars
  /\ IF p = "sessions" THEN TRUE ELSE UNCHANGED sessionVars
  /\ IF p = "startup" THEN TRUE ELSE UNCHANGED startupVars
  /\ IF p = "facts" THEN TRUE ELSE UNCHANGED factVars
  /\ IF p = "provider" THEN TRUE ELSE UNCHANGED providerVars
  /\ IF p = "retrieval" THEN TRUE ELSE UNCHANGED retrievalVars
  /\ IF p = "chunker" THEN TRUE ELSE UNCHANGED chunkVars
  /\ IF p = "answer" THEN TRUE ELSE UNCHANGED streamVars

ServicesNext ==
  \/ Rest("limiter") /\ LimiterNext
  \/ Rest("sessions") /\ SessionsNext
  \/ Rest("startup") /\ StartupNext
  \/ Rest("facts") /\ FactsNext
  \/ Rest("provider") /\ ProviderNext
  \/ Rest("retrieval") /\ RetrievalNext
  \/ Rest("chunker") /\ ChunkerNext
  \/ Rest("answer") /\ AnswerNext

ServicesSpec == ServicesInit /\ [][ServicesNext]_servicesVars

\* A request, a container, a process and a job that can take a step do, when
\* their part is the one that runs.
ServicesFairness ==
  /\ \A r \in AuthRequests : WF_sessionVars(part = "sessions" /\ AuthStep(r))
  /\ \A c \in Containers : WF_startupVars(part = "startup" /\ ContainerStep(c))
  /\ \A p \in Boots : WF_startupVars(part = "startup" /\ BootStep(p))
  /\ \A j \in Jobs : WF_factVars(part = "facts" /\ JobStep(j))

FairServicesSpec == ServicesSpec /\ ServicesFairness

-----------------------------------------------------------------------------
ServicesTypeOK ==
  /\ part \in Parts
  /\ LimiterTypeOK /\ SessionsTypeOK /\ StartupTypeOK /\ FactsTypeOK
  /\ ProviderTypeOK /\ RetrievalTypeOK /\ ChunkerTypeOK /\ AnswerTypeOK

\* Lost races and faults only delay a start: every process comes to serve for
\* good (AllServe of Startup, for the behaviours in which containers start).
EveryProcessServes == (part = "startup") => AllServe
=============================================================================
