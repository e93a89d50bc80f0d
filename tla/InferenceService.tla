--------------------------- MODULE InferenceService ---------------------------
(***************************************************************************)
(* Sessions of the inference service                                       *)
(* (areal/experimental/inference_service).  A gateway passes the calls of  *)
(* agents and users to data proxies; a router remembers which proxy serves *)
(* which session key; a proxy keeps the interactions of a session, cuts    *)
(* them into trajectories where a reward is set, and tells the controller  *)
(* when one is ready.  A rollout of InferenceServiceWorkflow runs an agent *)
(* in a session of its own, or waits for a trajectory of the user.         *)
(* The transport may lose an answer: the gateway or the workflow then      *)
(* makes the same call again.                                              *)
(***************************************************************************)
EXTENDS Integers, Sequences, FiniteSets, SequencesExt

CONSTANTS
    Episodes,       \* rollouts that run an agent
    Waiters,        \* rollouts that wait for the user, one after another
    NumProxies,     \* data proxies, 0..NumProxies-1
    MaxCalls,       \* calls of an agent, or of the user, for a completion
    MaxCompleted,   \* _MAX_COMPLETED_ONLINE_RESULTS
    MaxFaults       \* bound of the model: lost answers and timeouts

ASSUME ServiceAssumption ==
    /\ NumProxies \in Nat \ {0} /\ MaxCalls \in Nat \ {0}
    /\ MaxCompleted \in Nat \ {0} /\ MaxFaults \in Nat
    /\ Episodes \cap {"admin", "__hitl__", "user"} = {}    \* reserved names

VARIABLES
    mode,       \* "agent", "user" or "external" (the user of an external model)
    delayed,    \* set_reward_finish_timeout > 0
    episode,    \* each episode: where it is, its proxy and session, its result
    waiter,     \* each waiting rollout: where it is, the trajectory it was told of,
                \* and what its rollouts returned so far
    asked,      \* calls of the user in progress, with the session they found
    calls,      \* calls made by the user
    route,      \* router: session key or id -> proxy
    groups,     \* router: registered groups
    picked,     \* RoundRobinStrategy._idx
    sessions,   \* each proxy: session id -> session
    complete,   \* interactions whose output is recorded
    credited,   \* those in the cache when set_reward was called on it
    flush,      \* each proxy: _flush_ready_trajectories in progress
    waiting,    \* _online_waiters
    completed,  \* _completed_online_results
    faults

userVars == <<asked, calls>>
routerVars == <<route, groups, picked>>
proxyVars == <<sessions, complete, credited, flush>>
onlineVars == <<waiter, waiting, completed>>
vars == <<mode, delayed, episode, userVars, routerVars, proxyVars, onlineVars, faults>>

Proxies == 0..NumProxies - 1
Admin == <<"admin", 0>>
Hitl == <<"__hitl__", 0>>
User == "user"

\* A group has one session; its random key is used by nothing else, and one name
\* stands for the id of the session, its key and its group.
Sids == Episodes \X (0..MaxFaults)

Nothing == [x \in {} |-> x]
With(f, x, v) == [y \in DOMAIN f \cup {x} |-> IF y = x THEN v ELSE f[y]]
Without(f, S) == [x \in DOMAIN f \ S |-> f[x]]

Init ==
    /\ mode \in {"agent", "user", "external"} /\ delayed \in BOOLEAN
    /\ episode = [e \in Episodes |-> [pc |-> "start", proxy |-> 0, sid |-> <<e, 0>>,
                                      calls |-> 0, lost |-> FALSE, result |-> {}]]
    /\ waiter = [o \in Waiters |-> [pc |-> "idle", request |-> <<Hitl, 0>>,
                                    result |-> {}]]
    /\ asked = Nothing /\ calls = 0
    /\ route = Nothing /\ groups = {} /\ picked = 0
    /\ sessions = [p \in Proxies |-> Nothing]
    /\ complete = {} /\ credited = {}
    /\ flush = [p \in Proxies |-> [on |-> FALSE, pending |-> {}, told |-> {}]]
    /\ waiting = <<>> /\ completed = <<>>
    /\ faults = 0

Fault == faults < MaxFaults /\ faults' = faults + 1

-----------------------------------------------------------------------------
(* SessionData and SessionStore of a proxy. *)

\* born tells the session from an earlier one of the same id.
NewSession(born) ==
    [born |-> born, active |-> {}, rewarded |-> FALSE, ready |-> Nothing, next |-> 0]

\* _mark_active_trajectory_ready_locked
MarkReady(s) ==
    [born |-> s.born, active |-> {}, rewarded |-> FALSE, next |-> s.next + 1,
     ready |-> With(s.ready, s.next, [content |-> s.active, told |-> FALSE])]

\* set_reward.  Without an interaction it is a duplicate or an error.
Rewarded(s) ==
    IF s.active = {} THEN s
    ELSE IF delayed THEN [s EXCEPT !.rewarded = TRUE] ELSE MarkReady(s)

Change(p, sid, s) == sessions' = [sessions EXCEPT ![p] = With(@, sid, s)]

Known(p, sid) == sid \in DOMAIN sessions[p]

\* Faulty: an interaction without output spoils its trajectory.
ExportedWhole(p, sid, tid) ==
    IF Known(p, sid) /\ tid \in DOMAIN sessions[p][sid].ready
       /\ sessions[p][sid].ready[tid].content \subseteq complete
    THEN sessions[p][sid].ready[tid].content ELSE {}

\* export_trajectory: what a trajectory holds, the interactions whose output has
\* not arrived left out; nothing when there is no such trajectory.
Exported(p, sid, tid) ==
    IF Known(p, sid) /\ tid \in DOMAIN sessions[p][sid].ready
    THEN sessions[p][sid].ready[tid].content \cap complete ELSE {}

\* Faulty: the trajectory is read and stays.
ExportKept(p, sid) == UNCHANGED sessions

\* The endpoint takes a trajectory out of its session and removes the session,
\* as every export of the workflow asks.
Export(p, sid) == sessions' = [sessions EXCEPT ![p] = Without(@, {sid})]

Latest(s) == s.next - 1

SetReward(p, sid) ==
    /\ Change(p, sid, Rewarded(sessions[p][sid]))
    /\ credited' = credited \cup (sessions[p][sid].active \cap complete)

\* finalize_rewarded_trajectories, when the reward is old enough.
Finalize(p) ==
    \E sid \in DOMAIN sessions[p] :
        /\ ~flush[p].on /\ sessions[p][sid].rewarded
        /\ Change(p, sid, MarkReady(sessions[p][sid]))
        /\ UNCHANGED <<mode, delayed, episode, userVars, routerVars, complete,
                       credited, flush, onlineVars, faults>>

-----------------------------------------------------------------------------
(* The router. *)

\* The admin key is pinned to the first proxy it is routed to, as Hitl.
AdminProxy == IF Admin \in DOMAIN route THEN route[Admin] ELSE picked % NumProxies

RouteAdmin ==
    /\ route' = With(With(route, Admin, AdminProxy), Hitl, AdminProxy)
    /\ picked' = IF Admin \in DOMAIN route THEN picked ELSE (picked + 1) % NumProxies
    /\ UNCHANGED groups

RegisterSession(p, sid) ==
    /\ route' = With(route, sid, p) /\ groups' = groups \cup {sid}
    /\ UNCHANGED picked

\* Faulty: the group is forgotten, its sessions are not.
RevokeGroupOnly(sid) == groups' = groups \ {sid} /\ UNCHANGED <<route, picked>>

\* remove_session of a group, then of its sessions.
RevokeGroup(sid) ==
    /\ groups' = groups \ {sid}
    /\ route' = IF sid \in groups THEN Without(route, {sid}) ELSE route
    /\ UNCHANGED picked

-----------------------------------------------------------------------------
(* InferenceServiceWorkflow._run_offline. *)

At(e, pc) == mode = "agent" /\ episode[e].pc = pc

Moves(e, pc) == episode' = [episode EXCEPT ![e].pc = pc]

RouteStart(e) ==
    /\ At(e, "start")
    /\ episode' = [episode EXCEPT ![e].pc = "create", ![e].proxy = AdminProxy]
    /\ RouteAdmin
    /\ UNCHANGED <<mode, delayed, userVars, proxyVars, onlineVars, faults>>

\* The first free id of the task.
FreeSid(e) ==
    LET p == episode[e].proxy
    IN  CHOOSE sid \in {e} \X (0..MaxFaults) :
            /\ ~Known(p, sid)
            /\ \A i \in 0..sid[2] - 1 : Known(p, <<e, i>>)

\* start_session of the proxy.
CreateSession(e) ==
    /\ At(e, "create")
    /\ Change(episode[e].proxy, FreeSid(e), NewSession(0))
    /\ \/ /\ episode' = [episode EXCEPT ![e].pc = "register", ![e].sid = FreeSid(e)]
          /\ UNCHANGED faults
       \/ Fault /\ UNCHANGED episode
    /\ UNCHANGED <<mode, delayed, userVars, routerVars, complete, credited, flush,
                   onlineVars>>

\* When the router is not reached, or its answer is lost, the session is answered
\* 502 and the workflow starts another one.
Register(e) ==
    LET Registered == RegisterSession(episode[e].proxy, episode[e].sid) IN
    /\ At(e, "register")
    /\ \/ Registered /\ Moves(e, "agent") /\ UNCHANGED faults
       \/ (Registered \/ UNCHANGED routerVars) /\ Moves(e, "start") /\ Fault
    /\ UNCHANGED <<mode, delayed, userVars, proxyVars, onlineVars>>

\* A completion the agent asks for is in the cache before it is generated; when
\* the answer is lost the gateway asks again and the first one stays.
Ask(e) ==
    LET sid == episode[e].sid
        s == sessions[route[sid]][sid]
        i == <<e, episode[e].calls + 1>>
    IN  /\ \/ At(e, "agent") /\ UNCHANGED faults
           \/ At(e, "asked") /\ Fault
        /\ episode[e].calls < MaxCalls
        /\ episode' = [episode EXCEPT ![e].pc = "asked", ![e].calls = @ + 1]
        /\ Change(route[sid], sid, [s EXCEPT !.active = @ \cup {i}])
        /\ complete' \in {complete, complete \cup s.active}
        /\ UNCHANGED <<mode, delayed, userVars, routerVars, credited, flush, onlineVars>>

Answer(e) ==
    /\ At(e, "asked")
    /\ complete' = complete \cup {<<e, episode[e].calls>>}
    /\ Moves(e, "agent")
    /\ UNCHANGED <<mode, delayed, userVars, routerVars, sessions, credited, flush,
                   onlineVars, faults>>

\* The agent ends, with a reward or with an exception.
AgentEnds(e) ==
    /\ At(e, "agent") \/ At(e, "asked")
    /\ Moves(e, "reward")
    /\ UNCHANGED <<mode, delayed, userVars, routerVars, proxyVars, onlineVars, faults>>

RewardEpisode(e) ==
    /\ At(e, "reward")
    /\ SetReward(route[episode[e].sid], episode[e].sid)
    /\ \/ Moves(e, "export") /\ UNCHANGED faults
       \/ Fault /\ UNCHANGED episode
    /\ UNCHANGED <<mode, delayed, userVars, routerVars, complete, flush, onlineVars>>

\* The proxy of a session, or any when the router has forgotten it.  (The index of
\* the round robin moves on then; nothing reads it once the admin key is pinned.)
Serves(p, sid) == sid \in DOMAIN route => p = route[sid]

\* When its answer is lost the export is made again: there is nothing left.
ExportEpisode(e) ==
    LET sid == episode[e].sid
    IN  /\ At(e, "export")
        /\ \E p \in Proxies :
              /\ Serves(p, sid) /\ Export(p, sid)
              /\ \/ /\ episode' = [episode EXCEPT ![e].pc = "revoke",
                          ![e].result = IF Known(p, sid)
                                        THEN Exported(p, sid, Latest(sessions[p][sid]))
                                        ELSE {}]
                    /\ UNCHANGED faults
                 \/ Fault /\ episode' = [episode EXCEPT ![e].lost = TRUE]
        /\ UNCHANGED <<mode, delayed, userVars, routerVars, complete, credited, flush,
                       onlineVars>>

\* Faulty: a group the router does not know is an error, and asked for again.
RevokeStrict(e) ==
    /\ At(e, "revoke")
    /\ IF episode[e].sid \in groups
       THEN /\ RevokeGroup(episode[e].sid)
            /\ \/ Moves(e, "done") /\ UNCHANGED faults
               \/ Fault /\ UNCHANGED episode
       ELSE UNCHANGED <<episode, routerVars, faults>>
    /\ UNCHANGED <<mode, delayed, userVars, proxyVars, onlineVars>>

\* Best effort: the episode ends though the router was not reached.  When the
\* answer of the gateway is lost the workflow exports again.
Revoke(e) ==
    /\ At(e, "revoke")
    /\ \/ RevokeGroup(episode[e].sid) /\ Moves(e, "done") /\ UNCHANGED faults
       \/ UNCHANGED routerVars /\ Moves(e, "done") /\ Fault
       \/ /\ RevokeGroup(episode[e].sid) /\ Fault
          /\ episode' = [episode EXCEPT ![e].pc = "export", ![e].lost = TRUE]
    /\ UNCHANGED <<mode, delayed, userVars, proxyVars, onlineVars>>

EpisodeStep(e) ==
    \/ RouteStart(e) \/ CreateSession(e) \/ Register(e) \/ Ask(e) \/ Answer(e)
    \/ AgentEnds(e) \/ RewardEpisode(e) \/ ExportEpisode(e) \/ Revoke(e)

-----------------------------------------------------------------------------
(* The user: completions and rewards with the admin key. *)

\* get_or_create_hitl_session; born counts the calls so far.
HitlSession == IF Known(AdminProxy, Hitl) THEN sessions[AdminProxy][Hitl]
               ELSE NewSession(calls)

UserAsks ==
    /\ mode # "agent" /\ calls < MaxCalls
    /\ calls' = calls + 1
    /\ RouteAdmin
    /\ asked' = With(asked, <<User, calls + 1>>, HitlSession.born)
    /\ Change(AdminProxy, Hitl,
          [HitlSession EXCEPT !.active =
              IF mode = "user" THEN @ \cup {<<User, calls + 1>>} ELSE @])
    /\ UNCHANGED <<mode, delayed, episode, complete, credited, flush, onlineVars, faults>>

\* add_string_interaction puts the answer of an external model into the session
\* that was found when it was asked for, in the store still or not.
UserIsAnswered(i) ==
    /\ i \in DOMAIN asked
    /\ asked' = Without(asked, {i})
    /\ complete' = complete \cup {i}
    /\ IF mode = "external" /\ Known(AdminProxy, Hitl) /\ HitlSession.born = asked[i]
       THEN Change(AdminProxy, Hitl, [HitlSession EXCEPT !.active = @ \cup {i}])
       ELSE UNCHANGED sessions
    /\ UNCHANGED <<mode, delayed, episode, calls, routerVars, credited, flush,
                   onlineVars, faults>>

UserRewards ==
    /\ mode # "agent"
    /\ RouteAdmin
    /\ Change(AdminProxy, Hitl, Rewarded(HitlSession))
    /\ credited' = credited \cup (HitlSession.active \cap complete)
    /\ UNCHANGED <<mode, delayed, episode, userVars, complete, flush, onlineVars, faults>>

-----------------------------------------------------------------------------
(* _flush_ready_trajectories, and the controller it tells. *)

Untold(p) ==
    UNION {{<<sid, tid>> : tid \in {t \in DOMAIN sessions[p][sid].ready :
                                       ~sessions[p][sid].ready[t].told}} :
           sid \in DOMAIN sessions[p]}

FlushBegins(p) ==
    /\ ~flush[p].on /\ Untold(p) # {}
    /\ flush' = [flush EXCEPT ![p] = [on |-> TRUE, pending |-> Untold(p), told |-> {}]]
    /\ UNCHANGED <<mode, delayed, episode, userVars, routerVars, sessions, complete,
                   credited, onlineVars, faults>>

\* Faulty: the list of results is not bounded.
OnlineReadyUnbounded(n) ==
    IF waiting = <<>>
    THEN completed' = Append(completed, n) /\ UNCHANGED <<waiter, waiting>>
    ELSE /\ waiter' = [waiter EXCEPT ![Head(waiting)].pc = "given",
                                     ![Head(waiting)].request = n]
         /\ waiting' = Tail(waiting)
         /\ UNCHANGED completed

\* _handle_online_ready_callback: for the first waiter, or kept for the next.
OnlineReady(n) ==
    IF waiting = <<>>
    THEN /\ completed' = IF Len(completed) < MaxCompleted THEN Append(completed, n)
                         ELSE Append(Tail(completed), n)
         /\ UNCHANGED <<waiter, waiting>>
    ELSE /\ waiter' = [waiter EXCEPT ![Head(waiting)].pc = "given",
                                     ![Head(waiting)].request = n]
         /\ waiting' = Tail(waiting)
         /\ UNCHANGED completed

\* One that is lost or not acknowledged is told again by the next flush.
Tell(p, n) ==
    /\ flush[p].on /\ n \in flush[p].pending
    /\ \/ /\ OnlineReady(n) /\ UNCHANGED faults
          /\ flush' = [flush EXCEPT ![p].pending = @ \ {n}, ![p].told = @ \cup {n}]
       \/ /\ OnlineReady(n) \/ UNCHANGED onlineVars
          /\ flush' = [flush EXCEPT ![p].pending = @ \ {n}] /\ Fault
    /\ UNCHANGED <<mode, delayed, episode, userVars, routerVars, sessions, complete,
                   credited>>

\* mark_online_callback_delivered, by the ids alone.
Delivered(s, tids) ==
    [s EXCEPT !.ready = [t \in DOMAIN s.ready |->
        IF t \in tids THEN [content |-> s.ready[t].content, told |-> TRUE] ELSE s.ready[t]]]

FlushEnds(p) ==
    /\ flush[p].on /\ flush[p].pending = {}
    /\ sessions' = [sessions EXCEPT ![p] = [sid \in DOMAIN sessions[p] |->
          Delivered(sessions[p][sid], {n[2] : n \in {m \in flush[p].told : m[1] = sid}})]]
    /\ flush' = [flush EXCEPT ![p].on = FALSE]
    /\ UNCHANGED <<mode, delayed, episode, userVars, routerVars, complete, credited,
                   onlineVars, faults>>

ProxyStep(p) ==
    \/ Finalize(p) \/ FlushBegins(p) \/ FlushEnds(p)
    \/ \E n \in flush[p].pending : Tell(p, n)

-----------------------------------------------------------------------------
(* InferenceServiceWorkflow._run_online. *)

Online(o, pc) ==
    /\ mode # "agent" /\ waiter[o].pc = pc
    /\ UNCHANGED <<mode, delayed, episode, userVars, routerVars, complete, credited, flush>>

\* wait_for_online_trajectory
WaitOnline(o) ==
    /\ Online(o, "idle")
    /\ IF completed # <<>>
       THEN /\ waiter' = [waiter EXCEPT ![o] =
                  [@ EXCEPT !.pc = "export", !.request = Head(completed)]]
            /\ completed' = Tail(completed) /\ UNCHANGED waiting
       ELSE /\ waiter' = [waiter EXCEPT ![o].pc = "waiting"]
            /\ waiting' = Append(waiting, o) /\ UNCHANGED completed
    /\ UNCHANGED <<sessions, faults>>

Wakes(o) ==
    /\ Online(o, "given")
    /\ waiter' = [waiter EXCEPT ![o].pc = "export"]
    /\ UNCHANGED <<sessions, waiting, completed, faults>>

\* _remove_online_waiter: a future is in the list once, or not any more.
WithoutWaiter(o) ==
    IF \E k \in DOMAIN waiting : waiting[k] = o
    THEN RemoveAt(waiting, CHOOSE k \in DOMAIN waiting : waiting[k] = o)
    ELSE waiting

\* A timeout that comes before the result given by the callback drops it.
TimesOut(o) ==
    /\ Online(o, "waiting") \/ Online(o, "given")
    /\ Fault
    /\ waiter' = [waiter EXCEPT ![o].pc = "idle"]
    /\ waiting' = WithoutWaiter(o)
    /\ UNCHANGED <<sessions, completed>>

ExportOnline(o) ==
    LET sid == waiter[o].request[1] IN
    /\ Online(o, "export")
    /\ \E p \in Proxies :
          /\ Serves(p, sid) /\ Export(p, sid)
          /\ \/ /\ waiter' = [waiter EXCEPT ![o].pc = "idle",
                      ![o].result = @ \cup Exported(p, sid, waiter[o].request[2])]
                /\ UNCHANGED faults
             \/ Fault /\ UNCHANGED waiter
    /\ UNCHANGED <<waiting, completed>>

WaiterStep(o) == WaitOnline(o) \/ Wakes(o) \/ TimesOut(o) \/ ExportOnline(o)

-----------------------------------------------------------------------------
Next ==
    \/ \E e \in Episodes : EpisodeStep(e)
    \/ UserAsks \/ (\E i \in DOMAIN asked : UserIsAnswered(i)) \/ UserRewards
    \/ \E p \in Proxies : ProxyStep(p)
    \/ \E o \in Waiters : WaiterStep(o)

Spec ==
    /\ Init /\ [][Next]_vars
    /\ \A e \in Episodes : WF_vars(EpisodeStep(e))
-----------------------------------------------------------------------------
(* Properties *)

Interactions == (Episodes \cup {User}) \X (1..MaxCalls)
SessionIds == Sids \cup {Hitl}
Notices == SessionIds \X (0..MaxCalls)

\* Every variable has its type; the results that wait for a rollout are at most
\* MaxCompleted, each trajectory a proxy owes to the controller is told or pending
\* once, and a rollout waits in the list as long as it is neither given a result
\* nor timed out.
TypeOK ==
    /\ mode \in {"agent", "user", "external"} /\ delayed \in BOOLEAN
    /\ \A e \in Episodes :
          /\ episode[e].pc \in {"start", "create", "register", "agent", "asked",
                                "reward", "export", "revoke", "done"}
          /\ episode[e].proxy \in Proxies /\ episode[e].sid \in Sids
          /\ episode[e].calls \in 0..MaxCalls /\ episode[e].result \subseteq Interactions
    /\ \A o \in Waiters :
          /\ waiter[o].pc \in {"idle", "waiting", "given", "export"}
          /\ waiter[o].request \in Notices /\ waiter[o].result \subseteq Interactions
          /\ (waiter[o].pc = "waiting") = (\E k \in DOMAIN waiting : waiting[k] = o)
    /\ DOMAIN route \subseteq SessionIds \cup {Admin} /\ groups \subseteq Sids
    /\ \A key \in DOMAIN route : route[key] \in Proxies
    /\ \A p \in Proxies :
          /\ DOMAIN sessions[p] \subseteq SessionIds
          /\ \A sid \in DOMAIN sessions[p] :
                /\ sessions[p][sid].active \subseteq Interactions
                /\ DOMAIN sessions[p][sid].ready \subseteq 0..sessions[p][sid].next - 1
          /\ flush[p].pending \cup flush[p].told \subseteq Notices
          /\ flush[p].pending \cap flush[p].told = {}
    /\ complete \subseteq Interactions /\ credited \subseteq Interactions
    /\ Len(completed) <= MaxCompleted /\ \A k \in DOMAIN completed : completed[k] \in Notices
    /\ calls \in 0..MaxCalls /\ picked \in Proxies /\ faults \in 0..MaxFaults

\* What an episode returns is what its reward was set on: unless an answer to its
\* export was lost, every interaction of its session that had its output when the
\* reward was set is in the result; one that was asked for twice, or was never
\* answered, does not take the others with it.  With set_reward_finish_timeout > 0
\* the export comes at once and may find the reward not yet final: then the session
\* is removed and the episode returns nothing, but never a part.
RewardedIsReturned ==
    \A e \in Episodes :
        episode[e].pc = "done" /\ ~episode[e].lost =>
            \/ {i \in credited : i[1] = e} \subseteq episode[e].result
            \/ delayed /\ episode[e].result = {}

\* No interaction is trained on twice: what one rollout returns no other rollout
\* returns, whatever is told, asked for or exported again.
ReturnedOnce ==
    /\ \A o1, o2 \in Waiters :
          o1 # o2 => waiter[o1].result \cap waiter[o2].result = {}
    /\ \A e \in Episodes : episode[e].result \subseteq {e} \X (1..MaxCalls)

\* The sessions of the episodes that have not ended.
InUse == {episode[e].sid : e \in {x \in Episodes : episode[x].pc # "done"}}

\* Every session, route and group that no running episode uses was left behind by
\* a fault: without one the service keeps nothing of an episode that has ended.
LeakBound ==
    /\ Cardinality((UNION {DOMAIN sessions[p] : p \in Proxies}) \ (InUse \cup {Hitl})) <= faults
    /\ Cardinality(DOMAIN route \ (InUse \cup {Hitl, Admin})) <= faults
    /\ Cardinality(groups \ InUse) <= faults

\* Every episode ends, also when its agent, its session or an answer is lost.
EpisodesEnd == \A e \in Episodes : mode = "agent" ~> episode[e].pc = "done"
=============================================================================
