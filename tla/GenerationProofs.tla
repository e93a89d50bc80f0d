-------------------------- MODULE GenerationProofs --------------------------
(***************************************************************************)
(* What the labels of tokens are worth, for any number of servers, calls,  *)
(* buckets and versions.  While the servers are updated they run ahead of  *)
(* the version of the client; the bound on how far (WeightInv) passes from *)
(* the servers to the tokens on their way and to the labels.               *)
(***************************************************************************)
EXTENDS InterruptibleGeneration, SequenceTheorems, TLAPS

\* Weights no newer than those of version v + 1.
UpTo(v) == {w \in Int : w <= (v + 1) * Buckets}

\* A label and the weights it was given to: at most one version newer.
Labels == {o \in [weights : Int, label : Nat] : o.weights <= (o.label + 1) * Buckets}

\* A call that holds no other tokens and labels.
IsCall(call, v) ==
    /\ DOMAIN call = {"pc", "server", "stop", "chunk", "output"}
    /\ call.server \in Servers
    /\ call.chunk \in Seq(UpTo(v)) /\ call.output \in Seq(Labels)

\* The light types the arithmetic needs.
ServerTypeInv ==
    /\ client \in [version : Nat, paused : BOOLEAN, server_idx : Servers]
    /\ server \in [Servers -> [weights : Nat, paused : BOOLEAN, run : BOOLEAN]]
    /\ bucket \in 0..Buckets - 1
    /\ stage = "pause" => bucket = 0

\* A checkpoint is announced after it has been written.
PublishedInv == \A v \in published : v + 1 \in saved

\* The most a server can have loaded.
Limit(s) ==
    IF stage \in {"train", "pause", "set"} THEN client.version * Buckets
    ELSE IF stage = "update" /\ kind = "xccl"
    THEN client.version * Buckets + bucket + (IF s \in left THEN 0 ELSE 1)
    ELSE (client.version + 1) * Buckets

\* No server is ahead of the trainer.
WeightInv == \A s \in Servers : server[s].weights <= Limit(s)

\* Every call on its way keeps the bound.
CallInv ==
    /\ request = [r \in Requests |-> request[r]]
    /\ \A r \in Requests : IsCall(request[r], client.version)

GenerationInv == ServerTypeInv /\ PublishedInv /\ WeightInv /\ CallInv

\* One version is Buckets buckets.
LEMMA NextVersion ==
    ASSUME NEW v \in Nat
    PROVE  /\ v * Buckets \in Nat /\ (v + 1) * Buckets \in Nat
           /\ (v + 1) * Buckets = v * Buckets + Buckets
           /\ (v + 1 + 1) * Buckets = (v + 1) * Buckets + Buckets
BY GenerationAssumption

\* A sequence over a set is one over a larger set.
LEMMA SeqMonotone ==
    ASSUME NEW S, NEW T, S \subseteq T, NEW q \in Seq(S)
    PROVE  q \in Seq(T)
<1>1. Len(q) \in Nat /\ q \in [1..Len(q) -> S]
  OBVIOUS
<1>2. q \in [1..Len(q) -> T]
  BY <1>1
<1> QED
  BY <1>1, <1>2

\* What is in a call stays in it when the version grows.
LEMMA CallsGrow ==
    ASSUME NEW v \in Nat, NEW call, IsCall(call, v)
    PROVE  IsCall(call, v + 1)
<1>1. UpTo(v) \subseteq UpTo(v + 1)
  BY NextVersion, GenerationAssumption DEF UpTo
<1>2. Seq(UpTo(v)) \subseteq Seq(UpTo(v + 1))
  BY <1>1, SeqMonotone
<1> QED
  BY <1>2 DEF IsCall

\* No server is further than the next version.
LEMMA WithinNextVersion ==
    ASSUME GenerationInv, NEW s \in Servers
    PROVE  server[s].weights \in UpTo(client.version)
<1> DEFINE V == client.version * Buckets
           W == (client.version + 1) * Buckets
<1>1. V \in Nat /\ W \in Nat /\ W = V + Buckets
  BY NextVersion DEF GenerationInv, ServerTypeInv
<1>2. Limit(s) <= W
  BY <1>1, GenerationAssumption DEF Limit, GenerationInv, ServerTypeInv
<1>3. server[s].weights \in Nat /\ server[s].weights <= Limit(s) /\ Limit(s) \in Int
  BY <1>1, GenerationAssumption DEF GenerationInv, ServerTypeInv, WeightInv, Limit
<1> QED
  BY <1>1, <1>2, <1>3 DEF UpTo

\* All servers begin with the weights of version 0 and no call has tokens.
LEMMA InitInv == Init => GenerationInv
<1> SUFFICES ASSUME Init PROVE GenerationInv
  OBVIOUS
<1>1. ServerTypeInv /\ PublishedInv
  BY GenerationAssumption DEF Init, ServerTypeInv, PublishedInv, Servers
<1>2. WeightInv
  BY GenerationAssumption DEF Init, WeightInv, Limit
<1>3. CallInv
  <2> DEFINE new == [pc |-> "new", server |-> 0, stop |-> "none", chunk |-> <<>>, output |-> <<>>]
  <2>1. request = [r \in Requests |-> new] /\ client.version = 0 /\ 0 \in Servers
    BY GenerationAssumption DEF Init, Servers
  <2>2. DOMAIN new = {"pc", "server", "stop", "chunk", "output"} /\ new.server = 0
        /\ new.chunk = <<>> /\ new.output = <<>>
    OBVIOUS
  <2> HIDE DEF new
  <2>3. <<>> \in Seq(UpTo(0)) /\ <<>> \in Seq(Labels)
    OBVIOUS
  <2>4. IsCall(new, 0)
    BY <2>1, <2>2, <2>3 DEF IsCall
  <2> QED
    BY <2>1, <2>4 DEF CallInv
<1> QED
  BY <1>1, <1>2, <1>3 DEF GenerationInv

\* A call changes only itself, and server_idx when it begins.
LEMMA CallKeeps ==
    ASSUME GenerationInv, NEW r \in Requests, RequestStep(r) \/ Lose(r),
           IsCall(request'[r], client.version)
    PROVE  GenerationInv'
<1>1. /\ request' = [request EXCEPT ![r] = request'[r]]
      /\ UNCHANGED <<server, trainerVars>>
      /\ client' = client \/ client' = [client EXCEPT !.server_idx = (@ + 1) % NumServers]
  BY DEF RequestStep, Choose, Send, Receive, PassEvent, EnterEngine, Moves, Generate,
         Finish, Lose, GenerationInv, CallInv
<1>2. /\ client' \in [version : Nat, paused : BOOLEAN, server_idx : Servers]
      /\ client'.version = client.version
  <2>1. client \in [version : Nat, paused : BOOLEAN, server_idx : Servers]
    BY DEF GenerationInv, ServerTypeInv
  <2>2. (client.server_idx + 1) % NumServers \in Servers
    BY <2>1, GenerationAssumption DEF Servers
  <2> QED
    BY <1>1, <2>1, <2>2
<1>3. ServerTypeInv' /\ PublishedInv'
  BY <1>1, <1>2 DEF GenerationInv, ServerTypeInv, PublishedInv, trainerVars
<1>4. WeightInv'
  BY <1>1, <1>2 DEF GenerationInv, WeightInv, Limit, trainerVars
<1>5. CallInv'
  BY <1>1, <1>2 DEF GenerationInv, CallInv
<1> QED
  BY <1>3, <1>4, <1>5 DEF GenerationInv

\* The labels that a response gets are those of its weights or one version older.
LEMMA LabelsHold ==
    ASSUME GenerationInv, NEW r \in Requests
    PROVE  Labelled(r) \in Seq(Labels)
<1> DEFINE v == client.version
           chunk == request[r].chunk
<1>1. v \in Nat /\ chunk \in Seq(UpTo(v))
  BY DEF GenerationInv, ServerTypeInv, CallInv, IsCall
<1>2. Len(chunk) \in Nat /\ \A i \in 1..Len(chunk) : chunk[i] \in UpTo(v)
  BY <1>1
<1>3. \A i \in 1..Len(chunk) : [weights |-> chunk[i], label |-> v] \in Labels
  BY <1>1, <1>2 DEF UpTo, Labels
<1>4. Labelled(r) \in [1..Len(chunk) -> Labels]
  BY <1>3 DEF Labelled
<1> QED
  BY <1>2, <1>4

\* The steps of one call of agenerate, and the loss of its response.
LEMMA RequestInv ==
    ASSUME GenerationInv, NEW r \in Requests, RequestStep(r) \/ Lose(r)
    PROVE  GenerationInv'
<1> DEFINE v == client.version
<1>1. IsCall(request[r], v) /\ request = [x \in Requests |-> request[x]] /\ v \in Nat
  BY DEF GenerationInv, CallInv, ServerTypeInv
<1>2. client.server_idx \in Servers
  BY DEF GenerationInv, ServerTypeInv
<1> SUFFICES IsCall(request'[r], v)
  BY CallKeeps
<1>3. CASE Choose(r)
  BY <1>1, <1>2, <1>3 DEF Choose, IsCall
<1>4. CASE Send(r) \/ PassEvent(r) \/ EnterEngine(r) \/ Finish(r)
  BY <1>1, <1>4 DEF Send, PassEvent, EnterEngine, Finish, Moves, IsCall
<1>5. CASE Lose(r)
  BY <1>1, <1>5 DEF Lose, IsCall
<1>6. CASE Receive(r)
  <2>1. request[r].output \o Labelled(r) \in Seq(Labels)
    BY <1>1, LabelsHold, ConcatProperties, Zenon DEF IsCall
  <2> QED
    BY <1>1, <1>6, <2>1 DEF Receive, IsCall
<1>7. CASE Generate(r)
  <2>1. server[request[r].server].weights \in UpTo(v)
    BY <1>1, WithinNextVersion DEF IsCall
  <2>2. Append(request[r].chunk, server[request[r].server].weights) \in Seq(UpTo(v))
    BY <1>1, <2>1 DEF IsCall
  <2> QED
    BY <1>1, <1>7, <2>2 DEF Generate, IsCall
<1> QED
  BY <1>3, <1>4, <1>5, <1>6, <1>7 DEF RequestStep

\* A server that is paused or loads weights aborts its requests.
LEMMA AbortedCalls ==
    ASSUME GenerationInv, NEW s \in Servers
    PROVE  \A r \in Requests : IsCall(Aborted(s)[r], client.version)
BY DEF GenerationInv, CallInv, Aborted, IsCall

\* A server pauses, loads weights or goes on: what it aborts keeps its tokens.
LEMMA ServerInv ==
    ASSUME GenerationInv, NEW s \in Servers,
           PauseServer(s) \/ LoadBucket(s) \/ LoadCheckpoint(s) \/ ContinueServer(s)
    PROVE  GenerationInv'
<1> DEFINE v == client.version
           V == v * Buckets
           W == (v + 1) * Buckets
           loaded == server'[s].weights
<1>1. V \in Nat /\ W \in Nat /\ W = V + Buckets /\ v \in Nat
  BY NextVersion DEF GenerationInv, ServerTypeInv
<1>2. CallInv'
  <2>1. (request' = request \/ request' = Aborted(s)) /\ client' = client
    BY DEF PauseServer, LoadBucket, LoadCheckpoint, Loads, ContinueServer, requestVars
  <2>2. request' = [r \in Requests |-> request'[r]]
    BY <2>1 DEF GenerationInv, CallInv, Aborted
  <2> QED
    BY <2>1, <2>2, AbortedCalls DEF GenerationInv, CallInv
<1>3. PublishedInv' /\ UNCHANGED <<client, kind, bucket, stage>>
  BY DEF PauseServer, LoadBucket, LoadCheckpoint, Loads, ContinueServer, GenerationInv,
     PublishedInv
<1>4. /\ server \in [Servers -> [weights : Nat, paused : BOOLEAN, run : BOOLEAN]]
      /\ left' = left \ {s} /\ s \in left
  BY DEF PauseServer, LoadBucket, LoadCheckpoint, ContinueServer, Reached, GenerationInv,
     ServerTypeInv
<1>5. /\ server' \in [Servers -> [weights : Nat, paused : BOOLEAN, run : BOOLEAN]]
      /\ \A x \in Servers \ {s} : server'[x] = server[x]
      /\ \/ loaded = server[s].weights /\ stage \in {"pause", "continue"}
         \/ loaded = server[s].weights + 1 /\ stage = "update" /\ kind = "xccl"
         \/ loaded = W /\ stage = "update" /\ kind = "disk"
  <2>1. CASE PauseServer(s)
    BY <1>4, <2>1 DEF PauseServer
  <2>2. CASE ContinueServer(s)
    BY <1>4, <2>2 DEF ContinueServer
  <2>3. CASE LoadBucket(s)
    <3>1. server' = [server EXCEPT ![s].weights = server[s].weights + 1, ![s].paused = FALSE]
      BY <2>3 DEF LoadBucket, Loads
    <3>2. server[s].weights + 1 \in Nat
      BY <1>4
    <3> HIDE DEF W
    <3> QED
      BY <1>4, <2>3, <3>1, <3>2 DEF LoadBucket
  <2>4. CASE LoadCheckpoint(s)
    <3>1. client.version + 1 \in saved
      BY <2>4 DEF LoadCheckpoint, Announced, GenerationInv, PublishedInv
    <3>2. server' = [server EXCEPT ![s].weights = W, ![s].paused = FALSE]
      BY <2>4, <3>1 DEF LoadCheckpoint, Loads
    <3> HIDE DEF W
    <3> QED
      BY <1>1, <1>4, <2>4, <3>2 DEF LoadCheckpoint
  <2> QED
    BY <2>1, <2>2, <2>3, <2>4
<1>6. ServerTypeInv'
  BY <1>3, <1>5 DEF GenerationInv, ServerTypeInv
<1>7. WeightInv'
  <2>1. \A x \in Servers : /\ server[x].weights \in Nat /\ server'[x].weights \in Nat
                           /\ server[x].weights <= Limit(x)
    BY <1>4, <1>5 DEF GenerationInv, WeightInv
  <2>2. \A x \in Servers \ {s} : Limit(x)' = Limit(x)
    BY <1>3, <1>4 DEF Limit
  <2>3. loaded <= Limit(s)'
    <3>1. bucket \in Int
      BY DEF GenerationInv, ServerTypeInv
    <3>2. client'.version * Buckets = V /\ (client'.version + 1) * Buckets = W
      BY <1>3
    <3> HIDE DEF V, W, v
    <3>3. CASE stage \in {"pause", "continue"}
      BY <1>3, <1>5, <2>1, <3>3 DEF Limit
    <3>4. CASE stage = "update" /\ kind = "xccl"
      <4>1. Limit(s) = V + bucket
        <5>1. Limit(s) = V + bucket + 0
          BY <1>4, <3>4 DEF Limit, V, v
        <5> QED
          BY <1>1, <3>1, <5>1
      <4>2. Limit(s)' = V + bucket + 1
        BY <1>3, <1>4, <3>2, <3>4 DEF Limit
      <4> QED
        BY <1>1, <1>5, <2>1, <3>1, <3>4, <4>1, <4>2
    <3>5. CASE stage = "update" /\ kind = "disk"
      <4>1. Limit(s)' = W
        BY <1>3, <3>2, <3>5 DEF Limit
      <4> QED
        BY <1>1, <1>5, <3>5, <4>1
    <3> QED
      BY <1>5, <3>3, <3>4, <3>5
  <2> QED
    BY <1>5, <2>1, <2>2, <2>3 DEF WeightInv
<1> QED
  BY <1>2, <1>3, <1>6, <1>7 DEF GenerationInv

\* Steps of the trainer that leave the servers and the version alone; the limit of
\* no server sinks.
LEMMA TrainerInv ==
    ASSUME GenerationInv,
           \/ PauseRollouts \/ BeginUpdate \/ NextBucket \/ SaveCheckpoint \/ Publish
           \/ EndUpdate \/ ResumeRollouts
    PROVE  GenerationInv'
<1> DEFINE V == client.version * Buckets
           W == (client.version + 1) * Buckets
<1>1. V \in Nat /\ W \in Nat /\ W = V + Buckets
  BY NextVersion DEF GenerationInv, ServerTypeInv
<1>2. /\ UNCHANGED <<server, request, kind>>
      /\ client' \in [version : Nat, paused : BOOLEAN, server_idx : Servers]
      /\ client'.version = client.version
  BY DEF PauseRollouts, BeginUpdate, NextBucket, SaveCheckpoint, Publish, EndUpdate,
     ResumeRollouts, requestVars, GenerationInv, ServerTypeInv
<1>3. CallInv'
  BY <1>2 DEF GenerationInv, CallInv
<1>4. ServerTypeInv'
  BY <1>2, GenerationAssumption DEF PauseRollouts, BeginUpdate, NextBucket, SaveCheckpoint,
     Publish, EndUpdate, ResumeRollouts, Enter, GenerationInv, ServerTypeInv
<1>5. PublishedInv'
  BY <1>2 DEF PauseRollouts, BeginUpdate, NextBucket, SaveCheckpoint, Publish, EndUpdate,
     ResumeRollouts, Enter, GenerationInv, PublishedInv
<1>6. ASSUME NEW s \in Servers PROVE Limit(s) <= Limit(s)'
  <2>1. client'.version * Buckets = V /\ (client'.version + 1) * Buckets = W
    BY <1>2
  <2>2. bucket \in Int /\ Buckets \in Int
    BY GenerationAssumption DEF GenerationInv, ServerTypeInv
  <2>3. /\ Limit(s) = IF stage \in {"train", "pause", "set"} THEN V
                      ELSE IF stage = "update" /\ kind = "xccl"
                      THEN V + bucket + (IF s \in left THEN 0 ELSE 1) ELSE W
        /\ Limit(s)' = IF stage' \in {"train", "pause", "set"} THEN V
                       ELSE IF stage' = "update" /\ kind = "xccl"
                       THEN V + bucket' + (IF s \in left' THEN 0 ELSE 1) ELSE W
    BY <1>2, <2>1 DEF Limit
  <2> HIDE DEF V, W
  <2>4. CASE PauseRollouts \/ SaveCheckpoint \/ Publish \/ ResumeRollouts
    BY <1>1, <2>2, <2>3, <2>4 DEF PauseRollouts, SaveCheckpoint, Publish, ResumeRollouts, Enter
  <2>5. CASE BeginUpdate
    BY <1>1, <1>4, <2>2, <2>3, <2>5 DEF BeginUpdate, Enter, ServerTypeInv
  <2>6. CASE NextBucket
    BY <1>1, <2>2, <2>3, <2>6 DEF NextBucket
  <2>7. CASE EndUpdate
    BY <1>1, <2>2, <2>3, <2>7 DEF EndUpdate, Enter
  <2> QED
    BY <2>4, <2>5, <2>6, <2>7
<1>7. WeightInv'
  <2>1. \A s \in Servers : Limit(s) \in Int /\ Limit(s)' \in Int
    BY <1>1, <1>2, <1>4 DEF Limit, GenerationInv, ServerTypeInv
  <2> QED
    BY <1>2, <1>6, <2>1 DEF GenerationInv, WeightInv, ServerTypeInv
<1> QED
  BY <1>3, <1>4, <1>5, <1>7 DEF GenerationInv

\* The version catches up with the servers.
LEMMA SetVersionInv == ASSUME GenerationInv, SetVersion PROVE GenerationInv'
<1>1. /\ UNCHANGED <<server, request, kind, bucket, saved, published>> /\ stage = "continue"
      /\ stage' = "set" /\ client' = [client EXCEPT !.version = @ + 1]
  BY DEF SetVersion, requestVars
<1>2. /\ client' \in [version : Nat, paused : BOOLEAN, server_idx : Servers]
      /\ client'.version = client.version + 1 /\ client.version \in Nat
  BY <1>1 DEF GenerationInv, ServerTypeInv
<1>3. ServerTypeInv' /\ PublishedInv'
  BY <1>1, <1>2 DEF GenerationInv, ServerTypeInv, PublishedInv
<1>4. WeightInv'
  BY <1>1, <1>2 DEF GenerationInv, WeightInv, Limit
<1>5. CallInv'
  BY <1>1, <1>2, CallsGrow DEF GenerationInv, CallInv
<1> QED
  BY <1>3, <1>4, <1>5 DEF GenerationInv

\* Every step keeps the invariant.
LEMMA NextInv == GenerationInv /\ [Next]_vars => GenerationInv'
<1>1. ASSUME GenerationInv, UNCHANGED vars PROVE GenerationInv'
  BY <1>1 DEF vars, requestVars, trainerVars, GenerationInv, ServerTypeInv, PublishedInv,
     WeightInv, Limit, CallInv
<1> QED
  BY <1>1, RequestInv, ServerInv, TrainerInv, SetVersionInv DEF Next, TrainerStep

\* However the order to load a checkpoint and the writing of it interleave, no
\* server loads one that is not complete.
THEOREM CheckpointsAreComplete == Spec => []LoadsWhatWasSaved
<1>1. GenerationInv => LoadsWhatWasSaved
  BY DEF GenerationInv, ServerTypeInv, LoadsWhatWasSaved, Garbage
<1> QED
  BY InitInv, NextInv, <1>1, PTL DEF Spec

\* A token is at most one version newer than its label, however updates, aborts,
\* lost answers and late responses interleave.
THEOREM LabelsAreBounded == Spec => []LabelAtMostOneOld
<1>1. GenerationInv => LabelAtMostOneOld
  <2> SUFFICES ASSUME GenerationInv, NEW o \in Outputs
               PROVE  o.weights <= (o.label + 1) * Buckets
    BY DEF LabelAtMostOneOld
  <2>1. PICK r \in Requests : o \in Range(request[r].output)
    BY DEF Outputs
  <2>2. request[r].output \in Seq(Labels)
    BY DEF GenerationInv, CallInv, IsCall
  <2>3. Range(request[r].output) \subseteq Labels
    BY <2>2, RangeOfSeq
  <2> QED
    BY <2>1, <2>3 DEF Labels
<1> QED
  BY InitInv, NextInv, <1>1, PTL DEF Spec

-----------------------------------------------------------------------------
(* Types.  The budget of tokens is kept over all the calls of a request: what *)
(* one of them may still generate is what the answers so far have left.       *)

CallTypeInv(call) ==
    /\ call.pc \in {"new", "ready", "sent", "admitted", "running", "reply", "done"}
    /\ call.stop \in {"none", "stop", "abort"}
    /\ Len(call.output) + Len(call.chunk) <= MaxNewTokens
    /\ call.pc = "reply" => call.stop = "abort" \/ (call.stop = "stop" /\ call.chunk # <<>>)
    /\ call.pc = "done" => call.output # <<>>

\* An update begins only below the last version.
UpdateTypeInv ==
    /\ client.version \in 0..MaxVersion
    /\ stage \in {"train", "pause", "update", "continue", "set"}
    /\ stage \in {"pause", "update", "continue"} => client.version < MaxVersion
    /\ kind \in Kinds /\ left \subseteq Servers
    /\ saved \subseteq 1..MaxVersion /\ published \subseteq 0..MaxVersion

TypesInv == UpdateTypeInv /\ \A r \in Requests : CallTypeInv(request[r])

\* Nothing is generated or saved at first.
LEMMA InitTypes == Init => TypesInv
<1> SUFFICES ASSUME Init PROVE TypesInv
  OBVIOUS
<1>1. UpdateTypeInv
  BY GenerationAssumption DEF Init, UpdateTypeInv
<1>2. ASSUME NEW r \in Requests PROVE CallTypeInv(request[r])
  <2>1. /\ request[r].pc = "new" /\ request[r].stop = "none"
        /\ request[r].chunk = <<>> /\ request[r].output = <<>>
    BY DEF Init
  <2>2. Len(<<>>) = 0
    OBVIOUS
  <2> QED
    BY <2>1, <2>2, GenerationAssumption DEF CallTypeInv
<1> QED
  BY <1>1, <1>2 DEF TypesInv

\* The lengths of a call.
LEMMA CallLengths ==
    ASSUME GenerationInv, NEW r \in Requests
    PROVE  /\ DOMAIN request[r] = {"pc", "server", "stop", "chunk", "output"}
           /\ Len(request[r].chunk) \in Nat /\ Len(request[r].output) \in Nat
           /\ client.version \in Nat
BY DEF GenerationInv, CallInv, IsCall, ServerTypeInv

\* A response adds the tokens of its chunk to the output.
LEMMA ReceiveTypes ==
    ASSUME GenerationInv, NEW r \in Requests, CallTypeInv(request[r]), Receive(r)
    PROVE  CallTypeInv(request'[r])
<1> DEFINE c == request[r]
           d == request'[r]
           out == c.output \o Labelled(r)
<1>1. /\ c.output \in Seq(Labels) /\ Labelled(r) \in Seq(Labels)
      /\ Len(c.chunk) \in Nat /\ Len(c.output) \in Nat
  BY LabelsHold, CallLengths DEF GenerationInv, CallInv, IsCall
<1>2. Len(Labelled(r)) = Len(c.chunk)
  BY <1>1 DEF Labelled
<1>3. out \in Seq(Labels) /\ Len(out) = Len(c.output) + Len(c.chunk)
  <2>1. out \in Seq(Labels) /\ Len(out) = Len(c.output) + Len(Labelled(r))
    BY <1>1, ConcatProperties, Zenon
  <2> QED
    BY <1>2, <2>1
<1>4. /\ c.pc = "reply"
      /\ d.pc = IF c.stop = "abort" /\ Tokens(r) < MaxNewTokens THEN "ready" ELSE "done"
      /\ d.output = out /\ d.chunk = <<>> /\ d.stop = "none"
  BY CallLengths DEF Receive, GenerationInv, CallInv
<1>5. Tokens(r) = Len(out)
  BY <1>3 DEF Tokens
<1>6. /\ Len(c.output) + Len(c.chunk) <= MaxNewTokens
      /\ c.stop = "abort" \/ (c.stop = "stop" /\ c.chunk # <<>>)
      /\ c.chunk # <<>> => Len(c.chunk) > 0
  <2>1. c.chunk \in Seq(UpTo(client.version))
    BY DEF GenerationInv, CallInv, IsCall
  <2> DEFINE q == c.chunk
  <2>2. q # <<>> => Len(q) > 0
    <3>1. q \in Seq(UpTo(client.version))
      BY <2>1
    <3> HIDE DEF q
    <3> QED
      BY <3>1, EmptySeq
  <2>3. CallTypeInv(c)
    OBVIOUS
  <2> HIDE DEF c
  <2> QED
    BY <1>4, <2>2, <2>3, Zenon DEF CallTypeInv
<1> DEFINE n == Len(out)
           a == Len(c.output)
           b == Len(c.chunk)
<1>7. Len(d.output) = n /\ Len(d.chunk) = Len(<<>>)
  BY <1>4, Zenon
<1>8. Len(<<>>) = 0
  OBVIOUS
<1>9. n = a + b /\ a + b <= MaxNewTokens /\ a \in Nat /\ b \in Nat
  BY <1>1, <1>3, <1>6
<1>10. Tokens(r) = n
  BY <1>5
<1> HIDE DEF c, d, out, n, a, b
<1>11. d.pc = "done" => ~(n < MaxNewTokens) \/ b > 0
  BY <1>4, <1>6, <1>10 DEF b
<1>12. Len(d.output) + Len(d.chunk) <= MaxNewTokens
  BY <1>7, <1>8, <1>9
<1>13. d.pc = "done" => d.output # <<>>
  <2>1. d.pc = "done" => n > 0
    BY <1>9, <1>11, GenerationAssumption
  <2> QED
    BY <1>7, <1>8, <2>1
<1> QED
  BY <1>4, <1>12, <1>13 DEF CallTypeInv, d

\* A step of a call changes the types of no other.
LEMMA RequestTypes ==
    ASSUME GenerationInv, TypesInv, NEW r \in Requests, RequestStep(r) \/ Lose(r)
    PROVE  TypesInv'
<1> DEFINE c == request[r]
           d == request'[r]
<1>1. /\ UNCHANGED trainerVars /\ client'.version = client.version
      /\ \A x \in Requests \ {r} : request'[x] = request[x]
  BY DEF RequestStep, Choose, Send, Receive, PassEvent, EnterEngine, Moves, Generate,
         Finish, Lose, GenerationInv, CallInv, ServerTypeInv
<1>2. UpdateTypeInv'
  BY <1>1 DEF TypesInv, UpdateTypeInv, trainerVars
<1>3. /\ CallTypeInv(c) /\ DOMAIN c = {"pc", "server", "stop", "chunk", "output"}
      /\ request = [x \in Requests |-> request[x]]
      /\ Len(c.chunk) \in Nat /\ Len(c.output) \in Nat
  BY CallLengths DEF TypesInv, GenerationInv, CallInv
<1>4. CallTypeInv(d)
  <2>1. CASE Choose(r) \/ Send(r) \/ PassEvent(r) \/ EnterEngine(r)
    <3>1. /\ d.pc \in {"ready", "sent", "admitted", "running"}
          /\ d.stop = c.stop /\ d.chunk = c.chunk /\ d.output = c.output
      BY <1>3, <2>1 DEF Choose, Send, PassEvent, EnterEngine, Moves
    <3> HIDE DEF c, d
    <3> QED
      BY <1>3, <3>1 DEF CallTypeInv
  <2>2. CASE Finish(r)
    <3>1. /\ d.pc = "reply" /\ d.stop = "stop" /\ d.chunk = c.chunk /\ d.output = c.output
          /\ c.chunk # <<>>
      BY <1>3, <2>2 DEF Finish
    <3> HIDE DEF c, d
    <3> QED
      BY <1>3, <3>1 DEF CallTypeInv
  <2>3. CASE Lose(r)
    <3>1. d.pc = "sent" /\ d.stop = "none" /\ d.chunk = <<>> /\ d.output = c.output
      BY <1>3, <2>3 DEF Lose
    <3>2. Len(<<>>) = 0
      OBVIOUS
    <3> HIDE DEF c, d
    <3> QED
      BY <1>3, <3>1, <3>2, GenerationAssumption DEF CallTypeInv
  <2>4. CASE Generate(r)
    <3> DEFINE w == server[c.server].weights
    <3>1. /\ d.pc = "running" /\ d.stop = c.stop /\ d.chunk = Append(c.chunk, w)
          /\ d.output = c.output /\ Len(c.output) + Len(c.chunk) < MaxNewTokens
      BY <1>3, <2>4 DEF Generate, Tokens
    <3>2. Len(Append(c.chunk, w)) = Len(c.chunk) + 1
      BY DEF GenerationInv, CallInv, IsCall
    <3> HIDE DEF c, d, w
    <3> QED
      BY <1>3, <3>1, <3>2, GenerationAssumption DEF CallTypeInv
  <2>5. CASE Receive(r)
    BY <1>3, <2>5, ReceiveTypes
  <2> QED
    BY <2>1, <2>2, <2>3, <2>4, <2>5 DEF RequestStep
<1> QED
  BY <1>1, <1>2, <1>4 DEF TypesInv

\* A server aborts the requests that run on it.
LEMMA AbortedTypes ==
    ASSUME GenerationInv, TypesInv, NEW s \in Servers, NEW r \in Requests
    PROVE  CallTypeInv(Aborted(s)[r])
<1> DEFINE c == request[r]
           d == Aborted(s)[r]
<1>1. CallTypeInv(c) /\ DOMAIN c = {"pc", "server", "stop", "chunk", "output"}
  BY CallLengths DEF TypesInv
<1>2. \/ d = c
      \/ d.pc = "reply" /\ d.stop = "abort" /\ d.chunk = c.chunk /\ d.output = c.output
  BY <1>1 DEF Aborted
<1> HIDE DEF c, d
<1> QED
  BY <1>1, <1>2 DEF CallTypeInv, d

\* The steps of the trainer and of the servers it reaches.
LEMMA TrainerTypes ==
    ASSUME GenerationInv, TypesInv, PauseRollouts \/ TrainerStep
    PROVE  TypesInv'
<1>1. client.version \in Nat
  BY DEF GenerationInv, ServerTypeInv
<1>2. UpdateTypeInv'
  <2>1. CASE \/ PauseRollouts \/ BeginUpdate \/ NextBucket \/ EndUpdate
             \/ SetVersion \/ ResumeRollouts
    <3>1. client'.version = client.version \/ (SetVersion /\ client'.version = client.version + 1)
      BY <2>1 DEF PauseRollouts, BeginUpdate, NextBucket, EndUpdate, SetVersion, ResumeRollouts,
         GenerationInv, ServerTypeInv
    <3> QED
      BY <1>1, <2>1, <3>1, GenerationAssumption
         DEF PauseRollouts, BeginUpdate, NextBucket, EndUpdate, SetVersion, ResumeRollouts,
         Enter, TypesInv, UpdateTypeInv, requestVars
  <2>2. CASE SaveCheckpoint
    <3>1. client.version + 1 \in 1..MaxVersion
      BY <1>1, <2>2, GenerationAssumption DEF SaveCheckpoint, TypesInv, UpdateTypeInv
    <3> QED
      BY <2>2, <3>1 DEF SaveCheckpoint, TypesInv, UpdateTypeInv
  <2>3. CASE Publish
    BY <2>3 DEF Publish, TypesInv, UpdateTypeInv
  <2>4. ASSUME NEW s \in Servers,
               PauseServer(s) \/ LoadBucket(s) \/ LoadCheckpoint(s) \/ ContinueServer(s)
        PROVE  UpdateTypeInv'
    BY <2>4 DEF PauseServer, LoadBucket, LoadCheckpoint, Loads, ContinueServer, Reached,
       TypesInv, UpdateTypeInv
  <2> QED
    BY <2>1, <2>2, <2>3, <2>4 DEF TrainerStep
<1>3. request' = request \/ \E s \in Servers : request' = Aborted(s)
  BY DEF PauseRollouts, TrainerStep, BeginUpdate, NextBucket, SaveCheckpoint, Publish, EndUpdate,
     SetVersion, ResumeRollouts, PauseServer, LoadBucket, LoadCheckpoint, Loads, ContinueServer,
     requestVars
<1> QED
  BY <1>2, <1>3, AbortedTypes DEF TypesInv

\* Every step keeps the types.
LEMMA NextTypes == GenerationInv /\ TypesInv /\ [Next]_vars => TypesInv'
<1>1. ASSUME TypesInv, UNCHANGED vars PROVE TypesInv'
  BY <1>1 DEF vars, requestVars, trainerVars, TypesInv, UpdateTypeInv
<1> QED
  BY <1>1, RequestTypes, TrainerTypes DEF Next

\* Types; and however often a request is aborted, lost and sent again, it never gets more
\* than max_new_tokens and never returns without a token.
THEOREM GenerationTypes == Spec => []TypeOK
<1>1. GenerationInv /\ TypesInv => TypeOK
  <2> SUFFICES ASSUME GenerationInv, TypesInv PROVE TypeOK
    OBVIOUS
  <2>1. /\ client \in [version : 0..MaxVersion, paused : BOOLEAN, server_idx : Servers]
        /\ server \in [Servers -> [weights : Nat, paused : BOOLEAN, run : BOOLEAN]]
        /\ bucket \in 0..Buckets - 1
    BY DEF GenerationInv, ServerTypeInv, TypesInv, UpdateTypeInv
  <2>2. \A r \in Requests : request[r].server \in Servers /\ CallTypeInv(request[r])
    BY DEF GenerationInv, CallInv, IsCall, TypesInv
  <2> QED
    BY <2>1, <2>2 DEF TypeOK, TypesInv, UpdateTypeInv, CallTypeInv, Tokens
<1> QED
  BY InitInv, NextInv, InitTypes, NextTypes, <1>1, PTL DEF Spec
=============================================================================
