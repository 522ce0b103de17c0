------------------------------ MODULE Lifecycle ------------------------------
(***************************************************************************)
(* The agent state machine of juicebox.lifecycle.transitions: pure tables  *)
(* and the two questions asked of them, with no state of their own.        *)
(***************************************************************************)

\* AgentStatus (models.py): the values ck_agent_status admits.
AgentStatus == {"created", "starting", "running", "paused", "waiting",
                "stopped", "completed", "failed"}

LifecycleAction == {"start", "stop", "restart", "pause", "resume"}

\* TRANSITIONS without `starting -> stopped`, without which nobody could stop
\* an agent the execution loop has not advanced yet.
TransitionsNoStopFromStarting ==
    {<<"created",  "start",   "starting">>,
     <<"running",  "pause",   "paused">>,
     <<"running",  "stop",    "stopped">>,
     <<"paused",   "resume",  "running">>,
     <<"failed",   "restart", "starting">>,
     <<"stopped",  "restart", "starting">>}

\* TRANSITIONS with two edges a reader of section 6 could add by mistake.
TransitionsStopFromCreated ==
    TransitionsNoStopFromStarting
      \cup {<<"starting", "stop", "stopped">>, <<"created", "stop", "stopped">>}

TransitionsRestartCompleted ==
    TransitionsNoStopFromStarting
      \cup {<<"starting", "stop", "stopped">>, <<"completed", "restart", "starting">>}

\* The caller's edges, as triples <<current, action, target>>.
TRANSITIONS ==
    {<<"created",  "start",   "starting">>,
     <<"starting", "stop",    "stopped">>,
     <<"running",  "pause",   "paused">>,
     <<"running",  "stop",    "stopped">>,
     <<"paused",   "resume",  "running">>,
     <<"failed",   "restart", "starting">>,
     <<"stopped",  "restart", "starting">>}

SystemEdges ==
    {<<"starting", "running">>, <<"running", "completed">>, <<"running", "failed">>}

LegalEdges == SystemEdges \cup {<<e[1], e[3]>> : e \in TRANSITIONS}

\* next_status: the target of `action` from `current`. IllegalTransition is
\* the absence of any target.
NextStatus(current, action) ==
    {target \in AgentStatus : <<current, action, target>> \in TRANSITIONS}

IsLegal(current, target) == <<current, target>> \in LegalEdges

=============================================================================
