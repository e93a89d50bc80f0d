----------------------- MODULE InterruptibleGeneration -----------------------
(***************************************************************************)
(* Generation that goes on across weight updates.  RemoteInfEngine         *)
(* (areal/infra/remote_inf_engine.py) sends a prompt to an inference       *)
(* server; when an update aborts the request the tokens generated so far   *)
(* are kept and the rest is requested again, so that one response holds    *)
(* tokens of several weight versions, each labelled with the version it is *)
(* taken for.  The trainer (rl_trainer.py, fsdp_engine.py) pauses the      *)
(* rollouts, then the servers, updates the weights from disk or bucket by  *)
(* bucket, continues the servers and only then sets the version.  The      *)
(* servers are those of areal/engine/vllm_ext/areal_vllm_server.py.        *)
(***************************************************************************)
EXTENDS Integers, Sequences, FiniteSets, SequencesExt

CONSTANTS
    Requests,       \* calls of agenerate
    NumServers,     \* addresses are 0..NumServers-1
    MaxNewTokens,
    Buckets,        \* buckets of one update over xccl
    Kinds,          \* the type of the WeightUpdateMeta of a run, "disk" or "xccl"
    MaxVersion,     \* bound of the model: the last version
    MaxFaults       \* bound of the model: replies that are lost

ASSUME GenerationAssumption ==
    /\ NumServers \in Nat \ {0} /\ MaxNewTokens \in Nat \ {0}
    /\ Buckets \in Nat \ {0} /\ Kinds \subseteq {"disk", "xccl"}
    /\ MaxVersion \in Nat /\ MaxFaults \in Nat

VARIABLES
    request,    \* each call: where it is, its server, what has been generated
    client,     \* RemoteInfEngine: version, pause flag, server_idx
    server,     \* weights (buckets loaded), engine pause, _generation_run_event
    stage,      \* where the trainer is in its update
    kind,       \* of the updates of this run
    left,       \* servers this stage has not reached
    bucket,     \* buckets sent
    saved,      \* versions whose checkpoint is complete
    published,  \* versions under which name_resolve has an entry
    faults

requestVars == <<request, faults>>
trainerVars == <<stage, kind, left, bucket, saved, published>>
vars == <<requestVars, client, server, trainerVars>>

Servers == 0..NumServers - 1

Init ==
    /\ request = [r \in Requests |-> [pc |-> "new", server |-> 0, stop |-> "none",
                                      chunk |-> <<>>, output |-> <<>>]]
    /\ client = [version |-> 0, paused |-> FALSE, server_idx |-> 0]
    /\ server = [s \in Servers |-> [weights |-> 0, paused |-> FALSE, run |-> TRUE]]
    /\ stage = "train" /\ kind \in Kinds /\ left = {} /\ bucket = 0
    /\ saved = {} /\ published = {}
    /\ faults = 0

-----------------------------------------------------------------------------
(* agenerate. *)

\* Faulty: the tokens of the call in progress do not count.
TokensSentOnly(r) == Len(request[r].output)

\* The tokens of a request; max_new_tokens of the next call is what they leave.
Tokens(r) == Len(request[r].output) + Len(request[r].chunk)

\* choose_server
Choose(r) ==
    /\ request[r].pc = "new"
    /\ request' = [request EXCEPT ![r].pc = "ready", ![r].server = client.server_idx]
    /\ client' = [client EXCEPT !.server_idx = (@ + 1) % NumServers]
    /\ UNCHANGED <<server, trainerVars, faults>>

\* is_paused() is tested before each call.
Send(r) ==
    /\ request[r].pc = "ready" /\ ~client.paused
    /\ request' = [request EXCEPT ![r].pc = "sent"]
    /\ UNCHANGED <<client, server, trainerVars, faults>>

\* Faulty: a token is labelled with the version of the last complete call.
LabelledEarlier(r) ==
    [i \in 1..Len(request[r].chunk) |->
        [weights |-> request[r].chunk[i],
         label |-> IF request[r].output = <<>> THEN 0
                   ELSE Last(request[r].output).label]]

\* get_version() after the response, for all its tokens.
Labelled(r) ==
    [i \in 1..Len(request[r].chunk) |->
        [weights |-> request[r].chunk[i], label |-> client.version]]

Receive(r) ==
    /\ request[r].pc = "reply"
    /\ request' = [request EXCEPT
          ![r].pc = IF request[r].stop = "abort" /\ Tokens(r) < MaxNewTokens
                    THEN "ready" ELSE "done",
          ![r].output = @ \o Labelled(r), ![r].chunk = <<>>, ![r].stop = "none"]
    /\ UNCHANGED <<client, server, trainerVars, faults>>

\* arequest_with_retry: the answer is lost and the same call is made again,
\* whether the rollouts are paused or not.
Lose(r) ==
    /\ request[r].pc = "reply" /\ faults < MaxFaults
    /\ request' = [request EXCEPT ![r].pc = "sent", ![r].chunk = <<>>,
                                  ![r].stop = "none"]
    /\ faults' = faults + 1
    /\ UNCHANGED <<client, server, trainerVars>>

-----------------------------------------------------------------------------
(* A server: create_completion waits for _generation_run_event, the engine  *)
(* behind it blocks new requests while it is paused itself.                 *)

Moves(r, here, next) ==
    /\ request[r].pc = here
    /\ request' = [request EXCEPT ![r].pc = next]
    /\ UNCHANGED <<client, server, trainerVars, faults>>

\* _wait_if_paused
PassEvent(r) == server[request[r].server].run /\ Moves(r, "sent", "admitted")

EnterEngine(r) == ~server[request[r].server].paused /\ Moves(r, "admitted", "running")

Generate(r) ==
    /\ request[r].pc = "running" /\ Tokens(r) < MaxNewTokens
    /\ request' = [request EXCEPT
          ![r].chunk = Append(@, server[request[r].server].weights)]
    /\ UNCHANGED <<client, server, trainerVars, faults>>

\* At the end of the text or of the budget of tokens.
Finish(r) ==
    /\ request[r].pc = "running" /\ request[r].chunk # <<>>
    /\ request' = [request EXCEPT ![r].pc = "reply", ![r].stop = "stop"]
    /\ UNCHANGED <<client, server, trainerVars, faults>>

\* pause_generation(wait_for_inflight_requests=False) of the engine.
Aborted(s) ==
    [r \in Requests |->
        IF request[r].pc = "running" /\ request[r].server = s
        THEN [request[r] EXCEPT !.pc = "reply", !.stop = "abort"] ELSE request[r]]

RequestStep(r) ==
    \/ Choose(r) \/ Send(r) \/ Receive(r) \/ PassEvent(r) \/ EnterEngine(r)
    \/ Generate(r) \/ Finish(r)

-----------------------------------------------------------------------------
(* The trainer. *)

Enter(next) == stage' = next /\ left' = Servers

\* rollout.pause(), then rank 0 of the actor begins its update.
PauseRollouts ==
    /\ stage = "train" /\ client.version < MaxVersion
    /\ Enter("pause") /\ bucket' = 0
    /\ client' = [client EXCEPT !.paused = TRUE]
    /\ UNCHANGED <<kind, request, server, saved, published, faults>>

Reached(s) == s \in left /\ left' = left \ {s}

\* areal_pause_generation
PauseServer(s) ==
    /\ stage = "pause" /\ Reached(s)
    /\ server' = [server EXCEPT ![s].run = FALSE, ![s].paused = TRUE]
    /\ request' = Aborted(s)
    /\ UNCHANGED <<stage, kind, bucket, saved, published, client, faults>>

BeginUpdate ==
    /\ stage = "pause" /\ left = {}
    /\ Enter("update")
    /\ UNCHANGED <<kind, bucket, saved, published, requestVars, client, server>>

\* The update ends with resume_generation of the engine; the event stays clear.
Loads(s, weights) ==
    /\ server' = [server EXCEPT ![s].weights = weights, ![s].paused = FALSE]
    /\ request' = Aborted(s)
    /\ UNCHANGED <<stage, kind, client, faults>>

\* areal_update_weights_xccl, once for each bucket.
LoadBucket(s) ==
    /\ stage = "update" /\ kind = "xccl" /\ Reached(s)
    /\ Loads(s, server[s].weights + 1)
    /\ UNCHANGED <<bucket, saved, published>>

NextBucket ==
    /\ stage = "update" /\ kind = "xccl" /\ left = {} /\ bucket < Buckets - 1
    /\ bucket' = bucket + 1 /\ left' = Servers
    /\ UNCHANGED <<stage, kind, saved, published, requestVars, client, server>>

\* The checkpoint of the new version is written and announced, under the version
\* that the trainer has still.
SaveCheckpoint ==
    /\ stage = "update" /\ kind = "disk"
    /\ saved' = saved \cup {client.version + 1}
    /\ saved' # saved
    /\ UNCHANGED <<stage, kind, left, bucket, published, requestVars, client, server>>

Publish ==
    /\ stage = "update" /\ kind = "disk" /\ client.version + 1 \in saved
    /\ published' = published \cup {client.version}
    /\ published' # published
    /\ UNCHANGED <<stage, kind, left, bucket, saved, requestVars, client, server>>

\* Faulty: the announcement is not looked up by version.
AnnouncedEver == published # {}

\* name_resolve.wait in the process that loads.
Announced == client.version \in published

\* Weights that are not those of any version.
Garbage == -1

\* areal_update_weights of what the path of the new version holds.
LoadCheckpoint(s) ==
    /\ stage = "update" /\ kind = "disk" /\ Announced /\ Reached(s)
    /\ Loads(s, IF client.version + 1 \in saved
                THEN (client.version + 1) * Buckets ELSE Garbage)
    /\ UNCHANGED <<bucket, saved, published>>

EndUpdate ==
    /\ stage = "update" /\ left = {}
    /\ kind = "xccl" => bucket = Buckets - 1
    /\ Enter("continue")
    /\ UNCHANGED <<kind, bucket, saved, published, requestVars, client, server>>

\* Faulty: the engine goes on and the event stays clear.
ContinueEngineOnly(s) ==
    /\ stage = "continue" /\ Reached(s)
    /\ server' = [server EXCEPT ![s].paused = FALSE]
    /\ UNCHANGED <<stage, kind, bucket, saved, published, requestVars, client>>

\* areal_continue_generation
ContinueServer(s) ==
    /\ stage = "continue" /\ Reached(s)
    /\ server' = [server EXCEPT ![s].run = TRUE, ![s].paused = FALSE]
    /\ UNCHANGED <<stage, kind, bucket, saved, published, requestVars, client>>

SetVersion ==
    /\ stage = "continue" /\ left = {}
    /\ stage' = "set"
    /\ client' = [client EXCEPT !.version = @ + 1]
    /\ UNCHANGED <<kind, left, bucket, saved, published, requestVars, server>>

ResumeRollouts ==
    /\ stage = "set"
    /\ stage' = "train"
    /\ client' = [client EXCEPT !.paused = FALSE]
    /\ UNCHANGED <<kind, left, bucket, saved, published, requestVars, server>>

TrainerStep ==
    \/ BeginUpdate \/ NextBucket \/ SaveCheckpoint \/ Publish \/ EndUpdate
    \/ SetVersion \/ ResumeRollouts
    \/ \E s \in Servers : \/ PauseServer(s) \/ LoadBucket(s) \/ LoadCheckpoint(s)
                          \/ ContinueServer(s)

-----------------------------------------------------------------------------
Next ==
    \/ PauseRollouts \/ TrainerStep
    \/ \E r \in Requests : RequestStep(r) \/ Lose(r)

\* An update that has begun ends, and a request is served.
Spec ==
    /\ Init /\ [][Next]_vars
    /\ WF_vars(TrainerStep)
    /\ \A r \in Requests : WF_vars(RequestStep(r))

-----------------------------------------------------------------------------
(* Properties. *)

\* Types; a request never gets more than max_new_tokens, over all its calls.
TypeOK ==
    /\ \A r \in Requests :
          /\ request[r].pc \in {"new", "ready", "sent", "admitted", "running",
                                "reply", "done"}
          /\ request[r].server \in Servers
          /\ request[r].stop \in {"none", "stop", "abort"}
          /\ Tokens(r) <= MaxNewTokens
          /\ request[r].pc = "done" => request[r].output # <<>>
    /\ client \in [version : 0..MaxVersion, paused : BOOLEAN, server_idx : Servers]
    /\ server \in [Servers -> [weights : Nat, paused : BOOLEAN, run : BOOLEAN]]
    /\ stage \in {"train", "pause", "update", "continue", "set"}
    /\ kind \in Kinds /\ left \subseteq Servers
    /\ bucket \in 0..Buckets - 1
    /\ saved \subseteq 1..MaxVersion /\ published \subseteq 0..MaxVersion

Outputs == UNION {Range(request[r].output) : r \in Requests}

\* The documentation calls the labels the "Weight version when token generated".
\* The code ensures less: the label of a token is at most one version older than
\* the weights that made it, those of an unfinished update included.  (It may be
\* any number of versions newer: the answer can be slow.)
LabelAtMostOneOld == \A o \in Outputs : o.weights <= (o.label + 1) * Buckets

\* A server reads a checkpoint only after all of it has been written, though the
\* order to load it is sent before.
LoadsWhatWasSaved == \A s \in Servers : server[s].weights # Garbage

\* Every call returns: an aborted one is resumed, one held by a server is let go.
EveryCallReturns == \A r \in Requests : <>(request[r].pc = "done")
=============================================================================
