---------------------------- MODULE ServiceProofs ----------------------------
(***************************************************************************)
(* Proofs about the sessions of the inference service, for any number of   *)
(* rollouts, proxies, calls and faults.                                    *)
(*                                                                         *)
(* None of its properties is inductive.  That the rewarded trajectory is   *)
(* the one exported needs where session and group are at each place of an  *)
(* episode (EpisodePlaced) and that the latest trajectory is the one the   *)
(* reward was set on, or that a delayed reward is not final and there is   *)
(* none yet (EpisodeCredited).  That nothing is returned twice             *)
(* needs that the trajectories of a session are apart from each other and  *)
(* from every result (IsSession, OnlineApart), and that only what its      *)
(* owner was given can be in a session (Given).  What is left behind is    *)
(* counted against the faults, over the sessions no episode will export    *)
(* and the groups none will revoke (FewLeft).                              *)
(***************************************************************************)
EXTENDS InferenceService, QueueLemmas, FiniteSetTheorems, SequenceTheorems,
        WellFoundedInduction, TLAPS

\* The places of an episode, and the types of the records.
EpisodePcs == {"start", "create", "register", "agent", "asked", "reward", "export",
               "revoke", "done"}

EpisodeType == [pc : EpisodePcs, proxy : Proxies, sid : Sids, calls : 0..MaxCalls,
                lost : BOOLEAN, result : SUBSET Interactions]

WaiterType == [pc : {"idle", "waiting", "given", "export"}, request : Notices,
               result : SUBSET Interactions]

FlushType == [on : BOOLEAN, pending : SUBSET Notices, told : SUBSET Notices]

\* The types; an episode's session is its own, and so is its result.
EpisodesTyped ==
    /\ episode \in [Episodes -> EpisodeType]
    /\ \A e \in Episodes : /\ episode[e].sid[1] = e
                           /\ episode[e].result \subseteq {e} \X (1..MaxCalls)

WaitersTyped == waiter \in [Waiters -> WaiterType]

\* A trajectory is pending or told.
FlushTyped ==
    /\ flush \in [Proxies -> FlushType]
    /\ \A p \in Proxies : flush[p].pending \cap flush[p].told = {}

\* Only what has its output can be credited.
CountersTyped ==
    /\ mode \in {"agent", "user", "external"} /\ delayed \in BOOLEAN
    /\ calls \in 0..MaxCalls /\ faults \in 0..MaxFaults
    /\ DOMAIN asked \subseteq {User} \X (1..calls)
    /\ complete \subseteq Interactions /\ credited \subseteq complete

\* A rollout waits once, and as long as it has neither a result nor timed out.
QueuesGood ==
    /\ waiting \in Seq(Waiters) /\ IsInjective(waiting)
    /\ \A o \in Waiters : (waiter[o].pc = "waiting") = (o \in ToSet(waiting))
    /\ completed \in Seq(Notices) /\ Len(completed) <= MaxCompleted

\* The interactions that can be in a session: those its owner has asked for, and
\* of an external model those that are answered.
Owner(sid) == IF sid = Hitl THEN User ELSE sid[1]
Issued(sid) == IF sid = Hitl THEN calls ELSE episode[sid[1]].calls
Given(sid) == ({Owner(sid)} \X (1..Issued(sid)))
                 \ (IF mode = "external" THEN DOMAIN asked ELSE {})

\* A session over the interactions X: each is in one trajectory at most, and each
\* trajectory has cost one.
IsSession(s, X, d) ==
    /\ s = [born |-> s.born, active |-> s.active, rewarded |-> s.rewarded,
            ready |-> s.ready, next |-> s.next]
    /\ s.active \subseteq X /\ s.rewarded \in BOOLEAN /\ s.next \in 0..Cardinality(X)
    /\ s.ready \in [DOMAIN s.ready -> [content : SUBSET X, told : BOOLEAN]]
    /\ DOMAIN s.ready \subseteq 0..s.next - 1
    /\ s.active # {} => s.next < Cardinality(X)
    /\ s.rewarded => d /\ s.active # {}
    /\ \A t \in DOMAIN s.ready : s.active \cap s.ready[t].content = {}
    /\ \A t, u \in DOMAIN s.ready :
          t # u => s.ready[t].content \cap s.ready[u].content = {}

\* The sessions are a function of the proxies.
Store == sessions = [p \in Proxies |-> sessions[p]]

\* What is in the store are sessions, each over what its owner was given.
SessionsGood ==
    /\ Store
    /\ \A p \in Proxies : \A sid \in DOMAIN sessions[p] :
          sid \in SessionIds /\ IsSession(sessions[p][sid], Given(sid), delayed)

\* Agents and the user are not served by the same run of the service.
ModesApart ==
    /\ mode = "agent" =>
          /\ \A o \in Waiters : waiter[o].pc = "idle" /\ waiter[o].result = {}
          /\ \A p \in Proxies : ~Known(p, Hitl)
    /\ mode # "agent" =>
          /\ groups = {} /\ \A p \in Proxies : DOMAIN sessions[p] \subseteq {Hitl}
          /\ \A e \in Episodes : episode[e].pc = "start" /\ episode[e].result = {}

\* Everything is at the proxy the admin key is pinned to.
Placed ==
    /\ picked \in Proxies /\ groups \subseteq Sids
    /\ \A key \in DOMAIN route : route[key] = AdminProxy
    /\ AdminProxy \in Proxies
    /\ DOMAIN route = groups \cup (IF Admin \in DOMAIN route THEN {Admin, Hitl} ELSE {})
    /\ Admin \notin DOMAIN route =>
          /\ groups = {} /\ \A e \in Episodes : episode[e].pc = "start"
          /\ \A p \in Proxies : DOMAIN sessions[p] = {}
    /\ \A p \in Proxies \ {AdminProxy} : DOMAIN sessions[p] = {}

\* An episode has its session from its creation to its export, and its group from
\* the registration to the revocation, unless the answer of one was lost.
EpisodePlaced(e) ==
    LET x == episode[e]
        known == Known(AdminProxy, x.sid)
    IN  /\ x.pc # "start" => x.proxy = AdminProxy
        /\ x.pc = "asked" => x.calls > 0
        /\ x.pc \in {"agent", "asked", "reward"} => x.sid \in groups
        /\ x.pc \in {"register", "agent", "asked", "reward"} => known
        /\ x.pc = "revoke" => ~known
        /\ x.pc = "export" => (x.sid \in groups \/ ~known) /\ (x.lost \/ known)

\* What the reward of an episode was set on.
Credited(e) == {i \in credited : i[1] = e}

\* The session has no trajectory and no reward yet; it has no trajectory, and what
\* was credited waits for the delayed reward; what was credited is in the latest
\* trajectory and nothing comes after it.
Fresh(s) == s.next = 0 /\ ~s.rewarded
Uncut(s, C) == s.next = 0 /\ C \subseteq s.active /\ (delayed \/ C = {})
Cut(s, C) ==
    /\ s.active = {} /\ Latest(s) \in DOMAIN s.ready
    /\ C \subseteq s.ready[Latest(s)].content

\* What the reward was set on is in the trajectory, then in the result; an export
\* that finds the delayed reward not final returns nothing at all.
EpisodeCredited(e) ==
    LET x == episode[e]
        s == sessions[AdminProxy][x.sid]
    IN  /\ x.pc \in {"start", "create", "register", "agent", "asked"} => Credited(e) = {}
        /\ x.pc \in {"register", "agent", "asked"} => Fresh(s)
        /\ x.pc \in {"reward", "export"} /\ ~x.lost =>
              Uncut(s, Credited(e)) \/ Cut(s, Credited(e))
        /\ x.pc \in {"revoke", "done"} /\ ~x.lost =>
              Credited(e) \subseteq x.result \/ (delayed /\ x.result = {})

EpisodesGood == \A e \in Episodes : EpisodePlaced(e) /\ EpisodeCredited(e)

\* The interactions in a session.
Holds(s) == s.active \cup UNION {s.ready[t].content : t \in DOMAIN s.ready}

\* An interaction of the user is in the session or in one result.
OnlineApart ==
    mode # "agent" =>
        /\ \A o \in Waiters :
              /\ waiter[o].result \subseteq Given(Hitl)
              /\ \A p \in Proxies :
                    Known(p, Hitl) => Holds(sessions[p][Hitl]) \cap waiter[o].result = {}
        /\ \A o, r \in Waiters : o # r => waiter[o].result \cap waiter[r].result = {}

\* The sessions that no episode will export, and the groups that none will revoke.
AllSessions == UNION {DOMAIN sessions[p] : p \in Proxies}
Served == {"register", "agent", "asked", "reward", "export"}
Listed == {"agent", "asked", "reward", "export", "revoke"}
SidsOf(pcs) == {sid \in Sids : /\ episode[sid[1]].sid = sid
                               /\ episode[sid[1]].pc \in pcs}
SessionsLeft == AllSessions \ (SidsOf(Served) \cup {Hitl})
GroupsLeft == groups \ SidsOf(Listed)
AtMost(S, n) == IsFiniteSet(S) /\ Cardinality(S) <= n
FewLeft == AtMost(SessionsLeft, faults) /\ AtMost(GroupsLeft, faults)

\* The invariant.
TypesInv == EpisodesTyped /\ WaitersTyped /\ FlushTyped /\ CountersTyped /\ QueuesGood
SessionsInv == SessionsGood /\ ModesApart /\ Placed /\ EpisodesGood
ServiceInv == TypesInv /\ SessionsInv /\ OnlineApart /\ FewLeft

-----------------------------------------------------------------------------
(* The names, and the functions the router and the proxies are made of. *)

LEMMA NamesDiffer ==
    /\ Admin # Hitl /\ Hitl \notin Sids /\ Admin \notin Sids /\ User \notin Episodes
    /\ \A sid \in Sids : Owner(sid) = sid[1] /\ Issued(sid) = episode[sid[1]].calls
    /\ Owner(Hitl) = User /\ Issued(Hitl) = calls
<1>1. Admin # Hitl /\ Hitl \notin Sids /\ Admin \notin Sids /\ User \notin Episodes
  BY ServiceAssumption DEF Admin, Hitl, Sids, User
<1> QED
  BY <1>1 DEF Owner, Issued

\* A session is added or replaced, the others stay.
LEMMA ChangeIs ==
    ASSUME Store, NEW p \in Proxies, NEW sid, NEW s, Change(p, sid, s)
    PROVE  /\ Store'
           /\ DOMAIN sessions'[p] = DOMAIN sessions[p] \cup {sid}
           /\ sessions'[p][sid] = s
           /\ \A x \in DOMAIN sessions[p] : x # sid => sessions'[p][x] = sessions[p][x]
           /\ \A q \in Proxies : q # p => sessions'[q] = sessions[q]
BY DEF Store, Change, With

\* A session that is there already is replaced.
LEMMA SessionReplaced ==
    ASSUME Store, NEW p \in Proxies, NEW sid \in DOMAIN sessions[p], NEW s,
           Change(p, sid, s)
    PROVE  /\ Store'
           /\ DOMAIN sessions'[p] = DOMAIN sessions[p]
           /\ sessions'[p][sid] = s
           /\ \A x \in DOMAIN sessions[p] : x # sid => sessions'[p][x] = sessions[p][x]
           /\ \A q \in Proxies : q # p => sessions'[q] = sessions[q]
<1>1. DOMAIN sessions[p] \cup {sid} = DOMAIN sessions[p]
  OBVIOUS
<1> QED
  BY <1>1, ChangeIs

\* A session is removed, the others stay.
LEMMA ExportIs ==
    ASSUME Store, NEW p \in Proxies, NEW sid, Export(p, sid)
    PROVE  /\ Store'
           /\ DOMAIN sessions'[p] = DOMAIN sessions[p] \ {sid}
           /\ \A x \in DOMAIN sessions'[p] : sessions'[p][x] = sessions[p][x]
           /\ \A q \in Proxies : q # p => sessions'[q] = sessions[q]
BY DEF Store, Export, Without

-----------------------------------------------------------------------------
(* One session. *)

LEMMA GivenIsFinite ==
    ASSUME NEW o, NEW n \in Nat, NEW Y
    PROVE  LET X == ({o} \X (1..n)) \ Y
           IN  IsFiniteSet(X) /\ Cardinality(X) \in 0..n
<1> DEFINE Z == {o} \X (1..n)
<1>1. IsFiniteSet({o}) /\ Cardinality({o}) = 1
  BY FS_Singleton
<1>2. IsFiniteSet(1..n) /\ Cardinality(1..n) = n
  BY FS_Interval
<1>3. IsFiniteSet(Z) /\ Cardinality(Z) = Cardinality({o}) * Cardinality(1..n)
  BY <1>1, <1>2, FS_Product, Zenon
<1>4. Cardinality(Z) = n
  BY <1>1, <1>2, <1>3
<1> DEFINE X == Z \ Y
<1>5. X \in SUBSET Z
  OBVIOUS
<1> HIDE DEF Z, X
<1>6. IsFiniteSet(X) /\ Cardinality(X) <= Cardinality(Z)
  BY <1>3, <1>5, FS_Subset
<1>7. Cardinality(X) \in Nat
  BY <1>6, FS_CardinalityType
<1> QED
  BY <1>4, <1>6, <1>7 DEF X, Z

\* A new session is a session and holds nothing.
LEMMA NewIsSession ==
    ASSUME NEW born, NEW X, IsFiniteSet(X), NEW d
    PROVE  IsSession(NewSession(born), X, d) /\ Holds(NewSession(born)) = {}
<1>1. Cardinality(X) \in Nat
  BY FS_CardinalityType
<1> QED
  BY <1>1 DEF IsSession, NewSession, Nothing, Holds

\* A trajectory that is closed holds what was being recorded.
LEMMA MarkReadyIs ==
    ASSUME NEW s, NEW X, IsFiniteSet(X), NEW d, IsSession(s, X, d), s.active # {}
    PROVE  /\ IsSession(MarkReady(s), X, d)
           /\ Holds(MarkReady(s)) = Holds(s)
           /\ MarkReady(s).active = {} /\ Latest(MarkReady(s)) = s.next
           /\ s.next \in DOMAIN MarkReady(s).ready
           /\ MarkReady(s).ready[s.next].content = s.active
<1> DEFINE m == MarkReady(s)
<1>1. PICK n \in Nat : n = Cardinality(X)
  BY FS_CardinalityType
<1>2. s.next \in 0..n /\ s.next < n /\ s.next \notin DOMAIN s.ready /\ s.active \subseteq X
  BY <1>1 DEF IsSession
<1>3. /\ DOMAIN m.ready = DOMAIN s.ready \cup {s.next}
      /\ m.ready[s.next] = [content |-> s.active, told |-> FALSE]
      /\ \A t \in DOMAIN s.ready : t # s.next => m.ready[t] = s.ready[t]
      /\ m.ready = [t \in DOMAIN m.ready |-> m.ready[t]]
  BY DEF With, MarkReady
<1>4. m.next = s.next + 1 /\ m.active = {} /\ m.rewarded = FALSE
  BY DEF MarkReady
<1>9. m = [born |-> m.born, active |-> m.active, rewarded |-> m.rewarded,
           ready |-> m.ready, next |-> m.next]
  BY DEF MarkReady
<1>5. \A t \in DOMAIN s.ready : t # s.next /\ m.ready[t] = s.ready[t]
  BY <1>2, <1>3
<1> HIDE DEF m
<1>6. IsSession(m, X, d)
  <2>1. m.active \subseteq X /\ m.next \in 0..Cardinality(X)
    BY <1>1, <1>2, <1>4
  <2>6. m.rewarded \in BOOLEAN
    BY <1>4, Zenon
  <2>2. ASSUME NEW t \in DOMAIN m.ready
        PROVE  m.ready[t] \in [content : SUBSET X, told : BOOLEAN]
    <3>1. \A u \in DOMAIN s.ready : s.ready[u] \in [content : SUBSET X, told : BOOLEAN]
      BY DEF IsSession
    <3>2. [content |-> s.active, told |-> FALSE] \in [content : SUBSET X, told : BOOLEAN]
      BY <1>2
    <3> QED
      BY <1>3, <1>5, <3>1, <3>2, Zenon
  <2>3. m.ready \in [DOMAIN m.ready -> [content : SUBSET X, told : BOOLEAN]]
    BY <1>3, <2>2
  <2>4. DOMAIN m.ready \subseteq 0..m.next - 1
    <3>1. DOMAIN s.ready \subseteq 0..s.next - 1
      BY DEF IsSession
    <3> QED
      BY <1>2, <1>3, <1>4, <3>1
  <2>5. ASSUME NEW t \in DOMAIN m.ready, NEW u \in DOMAIN m.ready, t # u
        PROVE  m.ready[t].content \cap m.ready[u].content = {}
    BY <1>3, <1>5, <2>5 DEF IsSession
  <2> QED
    BY <1>4, <1>9, <2>1, <2>3, <2>4, <2>5, <2>6 DEF IsSession
<1>7. Holds(m) = Holds(s)
  <2>1. m.ready[s.next].content = s.active
    BY <1>3
  <2> QED
    BY <1>3, <1>4, <1>5, <2>1 DEF Holds
<1>8. m.active = {} /\ Latest(m) = s.next /\ s.next \in DOMAIN m.ready
      /\ m.ready[s.next].content = s.active
  BY <1>2, <1>3, <1>4 DEF Latest
<1> QED
  BY <1>6, <1>7, <1>8 DEF m

\* What a session holds is among what was asked for in it.
LEMMA SessionHolds ==
    ASSUME NEW s, NEW X, NEW d, IsSession(s, X, d)
    PROVE  Holds(s) \subseteq X /\ s.active \subseteq X
<1>1. \A t \in DOMAIN s.ready : s.ready[t].content \subseteq X
  BY DEF IsSession
<1> QED
  BY <1>1 DEF IsSession, Holds

\* set_reward closes the trajectory now or when it is finalized.
LEMMA RewardedIs ==
    ASSUME NEW s, NEW X, IsFiniteSet(X), IsSession(s, X, delayed), delayed \in BOOLEAN
    PROVE  /\ IsSession(Rewarded(s), X, delayed)
           /\ Holds(Rewarded(s)) = Holds(s)
           /\ s.active = {} => Rewarded(s) = s
           /\ ~delayed /\ s.active # {} => Rewarded(s) = MarkReady(s)
           /\ delayed => Rewarded(s).active = s.active /\ Rewarded(s).next = s.next
<1>1. CASE s.active = {}
  BY <1>1 DEF Rewarded
<1>2. CASE s.active # {} /\ ~delayed
  BY <1>2, MarkReadyIs DEF Rewarded
<1>3. CASE s.active # {} /\ delayed
  <2> DEFINE r == [s EXCEPT !.rewarded = TRUE]
  <2>1. s = [born |-> s.born, active |-> s.active, rewarded |-> s.rewarded,
             ready |-> s.ready, next |-> s.next]
    BY DEF IsSession
  <2>2. DOMAIN s = {"born", "active", "rewarded", "ready", "next"}
    BY <2>1
  <2>3. DOMAIN r = {"born", "active", "rewarded", "ready", "next"}
    BY <2>2
  <2>4. r.active = s.active /\ r.ready = s.ready /\ r.next = s.next /\ r.rewarded = TRUE
    BY <2>2
  <2>5. r = [x \in DOMAIN r |-> r[x]]
    OBVIOUS
  <2>7. Rewarded(s) = r
    BY <1>3 DEF Rewarded
  <2> HIDE DEF r
  <2>6. r = [born |-> r.born, active |-> r.active, rewarded |-> r.rewarded,
             ready |-> r.ready, next |-> r.next]
    BY <2>3, <2>5
  <2>8. IsSession(r, X, delayed)
    BY <1>3, <2>4, <2>6 DEF IsSession
  <2>9. Holds(r) = Holds(s)
    BY <2>4 DEF Holds
  <2> QED
    BY <1>3, <2>4, <2>7, <2>8, <2>9
<1> QED
  BY <1>1, <1>2, <1>3

\* More interactions may be in a session when more were asked for.
LEMMA SessionGrows ==
    ASSUME NEW s, NEW X, NEW Y, NEW d, IsSession(s, X, d), X \subseteq Y, IsFiniteSet(Y)
    PROVE  IsSession(s, Y, d)
<1>1. IsFiniteSet(X) /\ Cardinality(X) <= Cardinality(Y)
  BY FS_Subset
<1>2. Cardinality(X) \in Nat /\ Cardinality(Y) \in Nat
  BY <1>1, FS_CardinalityType
<1>3. s.next \in 0..Cardinality(Y) /\ (s.active # {} => s.next < Cardinality(Y))
  BY <1>1, <1>2 DEF IsSession
<1>4. s.ready \in [DOMAIN s.ready -> [content : SUBSET Y, told : BOOLEAN]]
  <2>1. ASSUME NEW t \in DOMAIN s.ready
        PROVE  s.ready[t] \in [content : SUBSET Y, told : BOOLEAN]
    <3>1. s.ready[t] \in [content : SUBSET X, told : BOOLEAN]
      BY DEF IsSession
    <3> QED
      BY <3>1
  <2>2. s.ready = [t \in DOMAIN s.ready |-> s.ready[t]]
    BY DEF IsSession
  <2> QED
    BY <2>1, <2>2
<1> QED
  BY <1>3, <1>4 DEF IsSession

\* A new interaction is recorded.
LEMMA SessionRecords ==
    ASSUME NEW s, NEW X, NEW i, NEW d, IsSession(s, X, d), IsFiniteSet(X), i \notin X
    PROVE  LET r == [s EXCEPT !.active = @ \cup {i}]
           IN  /\ IsSession(r, X \cup {i}, d)
               /\ Holds(r) = Holds(s) \cup {i}
<1> DEFINE r == [s EXCEPT !.active = @ \cup {i}]
           Y == X \cup {i}
<1>1. s = [born |-> s.born, active |-> s.active, rewarded |-> s.rewarded,
           ready |-> s.ready, next |-> s.next]
  BY DEF IsSession
<1>2. r = [born |-> s.born, active |-> s.active \cup {i}, rewarded |-> s.rewarded,
           ready |-> s.ready, next |-> s.next]
  BY <1>1
<1>3. /\ r.active = s.active \cup {i} /\ r.ready = s.ready /\ r.next = s.next
      /\ r.rewarded = s.rewarded
      /\ r = [born |-> r.born, active |-> r.active, rewarded |-> r.rewarded,
              ready |-> r.ready, next |-> r.next]
  BY <1>2
<1>4. IsFiniteSet(Y) /\ Cardinality(Y) = Cardinality(X) + 1
  BY FS_AddElement
<1>5. Cardinality(X) \in Nat
  BY FS_CardinalityType
<1>6. IsSession(s, Y, d)
  BY <1>4, SessionGrows
<1> HIDE DEF r
<1>7. IsSession(r, Y, d)
  <2>1. r.next \in 0..Cardinality(Y) /\ r.next < Cardinality(Y)
    BY <1>3, <1>4, <1>5 DEF IsSession
  <2>2. \A t \in DOMAIN s.ready : s.ready[t].content \subseteq X
    BY DEF IsSession
  <2>3. \A t \in DOMAIN r.ready : r.active \cap r.ready[t].content = {}
    <3> SUFFICES ASSUME NEW t \in DOMAIN s.ready
                 PROVE  r.active \cap r.ready[t].content = {}
      BY <1>3
    <3>1. s.active \cap s.ready[t].content = {}
      BY DEF IsSession
    <3> QED
      BY <1>3, <2>2, <3>1
  <2>4. r.active \subseteq Y /\ r.active # {} /\ (r.rewarded => d)
    BY <1>3 DEF IsSession
  <2> HIDE DEF Y
  <2>5. r.rewarded \in BOOLEAN
        /\ r.ready \in [DOMAIN r.ready -> [content : SUBSET Y, told : BOOLEAN]]
        /\ DOMAIN r.ready \subseteq 0..r.next - 1
        /\ \A t, u \in DOMAIN r.ready :
              t # u => r.ready[t].content \cap r.ready[u].content = {}
    BY <1>3, <1>6 DEF IsSession
  <2> QED
    BY <1>3, <2>1, <2>3, <2>4, <2>5 DEF IsSession
<1>8. Holds(r) = Holds(s) \cup {i}
  BY <1>3 DEF Holds
<1> QED
  BY <1>7, <1>8 DEF r, Y

-----------------------------------------------------------------------------
(* The list of waiting rollouts. *)

\* A rollout leaves the list without disturbing the others.
LEMMA WaiterRemoved ==
    ASSUME waiting \in Seq(Waiters), IsInjective(waiting), NEW o \in Waiters
    PROVE  /\ WithoutWaiter(o) \in Seq(Waiters) /\ IsInjective(WithoutWaiter(o))
           /\ ToSet(WithoutWaiter(o)) = ToSet(waiting) \ {o}
<1>1. PICK n \in Nat : n = Len(waiting)
  BY LenProperties
<1>2. DOMAIN waiting = 1..n
  BY <1>1, LenProperties
<1>3. CASE ~\E k \in DOMAIN waiting : waiting[k] = o
  <2>1. WithoutWaiter(o) = waiting
    BY <1>3 DEF WithoutWaiter
  <2>2. o \notin ToSet(waiting)
    BY <1>3, <1>2 DEF ToSet
  <2> QED
    BY <2>1, <2>2
<1>4. CASE \E k \in DOMAIN waiting : waiting[k] = o
  <2> DEFINE k == CHOOSE k \in DOMAIN waiting : waiting[k] = o
             w == WithoutWaiter(o)
             a == SubSeq(waiting, 1, k - 1)
             b == SubSeq(waiting, k + 1, n)
  <2>1. k \in 1..n /\ waiting[k] = o
    BY <1>2, <1>4
  <2>2. w = a \o b
    BY <1>1, <1>4 DEF WithoutWaiter, RemoveAt
  <2> HIDE DEF k, w
  <2>3. \A i \in 1..n : waiting[i] \in Waiters
    BY <1>1, ElementOfSeq
  <2>4. /\ a \in Seq(Waiters) /\ Len(a) = k - 1
        /\ \A i \in 1..k - 1 : a[i] = waiting[i]
    <3>1. 1 \in Int /\ k - 1 \in Int /\ \A i \in 1..k - 1 : waiting[i] \in Waiters
      BY <2>1, <2>3
    <3>2. /\ a \in Seq(Waiters) /\ Len(a) = IF 1 <= k - 1 THEN (k - 1) - 1 + 1 ELSE 0
          /\ \A i \in 1..(k - 1) - 1 + 1 : a[i] = waiting[1 + i - 1]
      BY <3>1, SubSeqProperties
    <3>3. Len(a) = k - 1
      BY <2>1, <3>2
    <3>4. ASSUME NEW i \in 1..k - 1 PROVE a[i] = waiting[i]
      <4>1. i \in 1..(k - 1) - 1 + 1 /\ 1 + i - 1 = i
        BY <2>1
      <4> QED
        BY <3>2, <4>1
    <3> QED
      BY <3>2, <3>3, <3>4
  <2>5. /\ b \in Seq(Waiters) /\ Len(b) = n - k
        /\ \A i \in 1..n - k : b[i] = waiting[k + i]
    <3>1. k + 1 \in Int /\ n \in Int /\ \A i \in k + 1..n : waiting[i] \in Waiters
      BY <2>1, <2>3
    <3>2. /\ b \in Seq(Waiters) /\ Len(b) = IF k + 1 <= n THEN n - (k + 1) + 1 ELSE 0
          /\ \A i \in 1..n - (k + 1) + 1 : b[i] = waiting[(k + 1) + i - 1]
      BY <3>1, SubSeqProperties
    <3>3. Len(b) = n - k
      BY <2>1, <3>2
    <3>4. ASSUME NEW i \in 1..n - k PROVE b[i] = waiting[k + i]
      <4>1. i \in 1..n - (k + 1) + 1 /\ (k + 1) + i - 1 = k + i
        BY <2>1
      <4> QED
        BY <3>2, <4>1
    <3> QED
      BY <3>2, <3>3, <3>4
  <2> HIDE DEF a, b
  <2>6. /\ w \in Seq(Waiters) /\ DOMAIN w = 1..n - 1
        /\ \A i \in 1..n - 1 : w[i] = IF i < k THEN waiting[i] ELSE waiting[i + 1]
    <3>1. /\ w \in Seq(Waiters) /\ Len(w) = Len(a) + Len(b)
          /\ \A i \in 1..Len(a) + Len(b) : w[i] = IF i <= Len(a) THEN a[i] ELSE b[i - Len(a)]
      BY <2>2, <2>4, <2>5, ConcatProperties
    <3>2. Len(w) = n - 1
      BY <2>1, <2>4, <2>5, <3>1
    <3>3. ASSUME NEW i \in 1..n - 1
          PROVE  w[i] = IF i < k THEN waiting[i] ELSE waiting[i + 1]
      <4>1. w[i] = IF i <= Len(a) THEN a[i] ELSE b[i - Len(a)]
        BY <3>1, <3>2
      <4>2. CASE i < k
        BY <2>1, <2>4, <4>1, <4>2
      <4>3. CASE ~(i < k)
        <5>1. i - (k - 1) \in 1..n - k /\ k + (i - (k - 1)) = i + 1 /\ ~(i <= k - 1)
          BY <2>1, <4>3
        <5>2. b[i - (k - 1)] = waiting[i + 1]
          BY <2>5, <5>1
        <5> QED
          BY <2>4, <4>1, <4>3, <5>1, <5>2
      <4> QED
        BY <4>2, <4>3
    <3> QED
      BY <3>1, <3>2, <3>3, LenProperties
  <2>7. IsInjective(w)
    <3> SUFFICES ASSUME NEW i \in DOMAIN w, NEW j \in DOMAIN w, w[i] = w[j]
                 PROVE  i = j
      BY DEF IsInjective
    <3> DEFINE Place(x) == IF x < k THEN x ELSE x + 1
    <3>1. \A x \in 1..n - 1 : Place(x) \in 1..n /\ w[x] = waiting[Place(x)]
      BY <2>1, <2>6
    <3>2. Place(i) = Place(j)
      <4>1. /\ Place(i) \in DOMAIN waiting /\ Place(j) \in DOMAIN waiting
            /\ waiting[Place(i)] = waiting[Place(j)]
        BY <1>2, <2>6, <3>1
      <4> HIDE DEF Place
      <4> QED
        BY <4>1 DEF IsInjective
    <3>3. i \in 1..n - 1 /\ j \in 1..n - 1
      BY <2>6
    <3>4. i \in Int /\ j \in Int /\ k \in Int
      BY <2>1, <3>3
    <3> QED
      BY <3>2, <3>4
  <2>8. ASSUME NEW x \in ToSet(w) PROVE x \in ToSet(waiting) \ {o}
    <3>1. PICK i \in 1..n - 1 : x = w[i]
      BY <2>6, <2>8 DEF ToSet
    <3>2. PICK j \in 1..n : j # k /\ x = waiting[j]
      <4>1. CASE i < k
        <5>1. i \in 1..n /\ i # k /\ x = waiting[i]
          BY <2>1, <2>6, <3>1, <4>1
        <5> QED
          BY <5>1
      <4>2. CASE ~(i < k)
        <5>1. i + 1 \in 1..n /\ i + 1 # k /\ x = waiting[i + 1]
          BY <2>1, <2>6, <3>1, <4>2
        <5> QED
          BY <5>1
      <4> QED
        BY <4>1, <4>2
    <3>3. x # o
      BY <1>2, <2>1, <3>2 DEF IsInjective
    <3> QED
      BY <1>2, <3>2, <3>3 DEF ToSet
  <2>9. ASSUME NEW x \in ToSet(waiting), x # o PROVE x \in ToSet(w)
    <3>1. PICK j \in 1..n : x = waiting[j]
      BY <1>2 DEF ToSet
    <3>2. j # k
      BY <2>1, <2>9, <3>1
    <3>3. PICK i \in 1..n - 1 : w[i] = waiting[j]
      <4>1. CASE j < k
        BY <2>1, <2>6, <4>1
      <4>2. CASE j > k
        <5>1. j - 1 \in 1..n - 1 /\ ~(j - 1 < k) /\ (j - 1) + 1 = j
          BY <2>1, <4>2
        <5> QED
          BY <2>6, <5>1
      <4> QED
        BY <2>1, <3>2, <4>1, <4>2
    <3> QED
      BY <2>6, <3>1, <3>3 DEF ToSet
  <2> QED
    BY <2>6, <2>7, <2>8, <2>9 DEF w
<1> QED
  BY <1>3, <1>4

-----------------------------------------------------------------------------
(* What the steps have in common. *)

GivenTyped ==
    \A sid \in SessionIds :
       /\ IsFiniteSet(Given(sid)) /\ Cardinality(Given(sid)) \in 0..MaxCalls
       /\ Given(sid) \subseteq Interactions
       /\ Given(sid) \subseteq {Owner(sid)} \X (1..MaxCalls)

\* What can be in a session is a finite set of interactions of its owner.
LEMMA GivenIsTyped == CountersTyped /\ EpisodesTyped => GivenTyped
<1> SUFFICES ASSUME CountersTyped, EpisodesTyped, NEW sid \in SessionIds
             PROVE  /\ IsFiniteSet(Given(sid)) /\ Cardinality(Given(sid)) \in 0..MaxCalls
                    /\ Given(sid) \subseteq Interactions
                    /\ Given(sid) \subseteq {Owner(sid)} \X (1..MaxCalls)
  BY DEF GivenTyped
<1>1. Issued(sid) \in 0..MaxCalls /\ Owner(sid) \in Episodes \cup {User}
  <2>1. CASE sid = Hitl
    BY <2>1, NamesDiffer DEF CountersTyped
  <2>2. CASE sid \in Sids
    <3>1. sid[1] \in Episodes
      BY <2>2 DEF Sids
    <3>2. episode[sid[1]].calls \in 0..MaxCalls
      BY <3>1 DEF EpisodesTyped, EpisodeType
    <3> QED
      BY <2>2, <3>1, <3>2, NamesDiffer
  <2> QED
    BY <2>1, <2>2 DEF SessionIds
<1>2. PICK n \in Nat : n = Issued(sid) /\ n <= MaxCalls
  BY <1>1, ServiceAssumption
<1>3. /\ IsFiniteSet(Given(sid)) /\ Cardinality(Given(sid)) \in 0..n
  BY <1>2, GivenIsFinite DEF Given
<1>4. Given(sid) \subseteq {Owner(sid)} \X (1..MaxCalls)
  BY <1>2, ServiceAssumption DEF Given
<1>5. Given(sid) \subseteq Interactions
  BY <1>1, <1>4 DEF Interactions
<1> QED
  BY <1>2, <1>3, <1>4, <1>5, ServiceAssumption

\* A step leaves a session alone or leaves a good one in its place.
LEMMA SessionsStayGood ==
    ASSUME SessionsGood, CountersTyped', EpisodesTyped', Store', delayed' = delayed,
           \A x \in SessionIds : Given(x) \subseteq Given(x)',
           \A q \in Proxies : \A x \in DOMAIN sessions'[q] :
              \/ x \in DOMAIN sessions[q] /\ sessions'[q][x] = sessions[q][x]
              \/ x \in SessionIds /\ IsSession(sessions'[q][x], Given(x)', delayed)
    PROVE  SessionsGood'
<1>3. GivenTyped'
  BY GivenIsTyped, PTL
<1> SUFFICES ASSUME NEW q \in Proxies, NEW x \in DOMAIN sessions'[q]
             PROVE  x \in SessionIds /\ IsSession(sessions'[q][x], Given(x)', delayed')
  BY DEF SessionsGood
<1>1. CASE x \in DOMAIN sessions[q] /\ sessions'[q][x] = sessions[q][x]
  <2>1. x \in SessionIds /\ IsSession(sessions[q][x], Given(x), delayed)
    BY <1>1 DEF SessionsGood
  <2>2. IsFiniteSet(Given(x)')
    BY <1>3, <2>1 DEF GivenTyped
  <2>3. IsSession(sessions[q][x], Given(x)', delayed)
    BY <2>1, <2>2, SessionGrows
  <2> QED
    BY <1>1, <2>1, <2>3
<1>2. CASE x \in SessionIds /\ IsSession(sessions'[q][x], Given(x)', delayed)
  BY <1>2
<1> QED
  BY <1>1, <1>2

\* A fault is counted, and there is room for it.
LEMMA FaultCounted ==
    ASSUME CountersTyped, Fault
    PROVE  faults' = faults + 1 /\ faults' \in 0..MaxFaults
BY ServiceAssumption DEF Fault, CountersTyped

\* Without a fault nothing more is left behind, and with one at most one more.
LEMMA StillFew ==
    ASSUME NEW S, NEW T, NEW n \in Nat, NEW m \in Nat, AtMost(S, n), n <= m, T \subseteq S
    PROVE  AtMost(T, m)
<1>1. IsFiniteSet(T) /\ Cardinality(T) <= Cardinality(S)
  BY FS_Subset DEF AtMost
<1>2. Cardinality(S) \in Nat /\ Cardinality(T) \in Nat
  BY <1>1, FS_CardinalityType DEF AtMost
<1> QED
  BY <1>1, <1>2 DEF AtMost

\* One element more makes one more at most.
LEMMA OneMore ==
    ASSUME NEW S, NEW T, NEW n \in Nat, AtMost(S, n), NEW x, T \subseteq S \cup {x}
    PROVE  AtMost(T, n + 1)
<1> DEFINE U == S \cup {x}
<1>1. IsFiniteSet(U) /\ Cardinality(U) <= Cardinality(S) + 1
  <2>1. IsFiniteSet(S) /\ Cardinality(S) \in Nat
    BY FS_CardinalityType DEF AtMost
  <2>2. /\ IsFiniteSet(U)
        /\ Cardinality(U) = IF x \in S THEN Cardinality(S) ELSE Cardinality(S) + 1
    BY <2>1, FS_AddElement
  <2> HIDE DEF U
  <2> QED
    BY <2>1, <2>2
<1>2. Cardinality(S) \in Nat /\ Cardinality(U) \in Nat
  BY <1>1, FS_CardinalityType DEF AtMost
<1>3. AtMost(U, n + 1)
  BY <1>1, <1>2 DEF AtMost
<1> HIDE DEF U
<1>4. T \subseteq U
  BY DEF U
<1> QED
  BY <1>3, <1>4, StillFew

\* A step that leaves nothing behind, with or without a fault.
LEMMA FewStayFew ==
    ASSUME FewLeft, CountersTyped, CountersTyped', faults' = faults \/ faults' = faults + 1,
           SessionsLeft' \subseteq SessionsLeft, GroupsLeft' \subseteq GroupsLeft
    PROVE  FewLeft'
<1>1. faults \in Nat /\ faults' \in Nat /\ faults <= faults'
  BY ServiceAssumption DEF CountersTyped
<1>2. AtMost(SessionsLeft', faults')
  BY <1>1, StillFew DEF FewLeft
<1>3. AtMost(GroupsLeft', faults')
  BY <1>1, StillFew DEF FewLeft
<1> QED
  BY <1>2, <1>3 DEF FewLeft

\* A fault leaves at most one session and one group behind, of one episode.
LEMMA FaultLeavesOne ==
    ASSUME FewLeft, CountersTyped, Fault, NEW x,
           SessionsLeft' \subseteq SessionsLeft \cup {x},
           GroupsLeft' \subseteq GroupsLeft \cup {x}
    PROVE  FewLeft'
<1>1. faults \in Nat /\ faults' = faults + 1
  BY FaultCounted, ServiceAssumption DEF CountersTyped
<1>2. AtMost(SessionsLeft', faults + 1)
  BY <1>1, OneMore DEF FewLeft
<1>3. AtMost(GroupsLeft', faults + 1)
  BY <1>1, OneMore DEF FewLeft
<1> QED
  BY <1>1, <1>2, <1>3 DEF FewLeft

\* In the mode of the agents the steps of an episode leave what is for the user.
LEMMA AgentStep ==
    ASSUME ServiceInv, mode = "agent",
           UNCHANGED <<mode, delayed, userVars, flush, onlineVars>>,
           EpisodesTyped', CountersTyped', SessionsGood', Placed', EpisodesGood', FewLeft',
           \A p \in Proxies : Hitl \notin DOMAIN sessions'[p]
    PROVE  ServiceInv'
<1>1. WaitersTyped' /\ FlushTyped' /\ QueuesGood'
  BY DEF ServiceInv, TypesInv, WaitersTyped, FlushTyped, QueuesGood, onlineVars
<1>2. ModesApart'
  BY DEF ServiceInv, SessionsInv, ModesApart, Known, onlineVars
<1>3. OnlineApart'
  BY DEF OnlineApart
<1> QED
  BY <1>1, <1>2, <1>3 DEF ServiceInv, TypesInv, SessionsInv

\* The step is about one episode and its sessions.
About(e) ==
    /\ \A x \in Episodes : x # e => episode'[x] = episode[x]
    /\ AdminProxy' = AdminProxy /\ delayed' = delayed
    /\ \A sid \in Sids : sid[1] # e =>
          /\ (sid \in DOMAIN sessions'[AdminProxy]) = (sid \in DOMAIN sessions[AdminProxy])
          /\ sid \in DOMAIN sessions[AdminProxy] =>
                sessions'[AdminProxy][sid] = sessions[AdminProxy][sid]
          /\ (sid \in groups') = (sid \in groups)
    /\ \A i : i[1] # e => (i \in credited') = (i \in credited)

\* A step of one episode keeps what is said of the others.
LEMMA OtherEpisodes ==
    ASSUME EpisodesTyped, EpisodesGood, NEW e \in Episodes, About(e),
           EpisodePlaced(e)', EpisodeCredited(e)'
    PROVE  EpisodesGood'
<1> SUFFICES ASSUME NEW x \in Episodes, x # e
             PROVE  EpisodePlaced(x)' /\ EpisodeCredited(x)'
  BY DEF EpisodesGood
<1> DEFINE sid == episode[x].sid
<1>1. sid \in Sids /\ sid[1] = x
  BY DEF EpisodesTyped, EpisodeType
<1>2. episode'[x] = episode[x] /\ AdminProxy' = AdminProxy /\ delayed' = delayed
  BY DEF About
<1>3. /\ (sid \in DOMAIN sessions'[AdminProxy]) = (sid \in DOMAIN sessions[AdminProxy])
      /\ sid \in DOMAIN sessions[AdminProxy] =>
            sessions'[AdminProxy][sid] = sessions[AdminProxy][sid]
      /\ (sid \in groups') = (sid \in groups)
  BY <1>1 DEF About
<1>4. Credited(x)' = Credited(x)
  BY DEF About, Credited
<1>5. EpisodePlaced(x) /\ EpisodeCredited(x)
  BY DEF EpisodesGood
<1>6. EpisodePlaced(x)'
  BY <1>2, <1>3, <1>5 DEF EpisodePlaced, Known
<1>7. EpisodeCredited(x)'
  <2>1. CASE \/ episode[x].pc \in {"register", "agent", "asked", "reward"}
             \/ episode[x].pc = "export" /\ ~episode[x].lost
    <3>1. sid \in DOMAIN sessions[AdminProxy]
      BY <1>5, <2>1 DEF EpisodePlaced, Known
    <3>2. sessions'[AdminProxy][sid] = sessions[AdminProxy][sid]
      BY <1>3, <3>1
    <3> QED
      BY <1>2, <1>4, <1>5, <3>2 DEF EpisodeCredited, Fresh, Uncut, Cut, Latest
  <2>2. CASE ~(\/ episode[x].pc \in {"register", "agent", "asked", "reward"}
               \/ episode[x].pc = "export" /\ ~episode[x].lost)
    BY <1>2, <1>4, <1>5, <2>2 DEF EpisodeCredited
  <2> QED
    BY <2>1, <2>2
<1> QED
  BY <1>6, <1>7

\* The sessions and groups of an episode that it will not give back.
Left(e, sid) ==
    /\ sid \in DOMAIN sessions[AdminProxy]
    /\ ~(episode[e].sid = sid /\ episode[e].pc \in Served)
LeftListed(e, sid) ==
    /\ sid \in groups
    /\ ~(episode[e].sid = sid /\ episode[e].pc \in Listed)

AtHome == AllSessions = DOMAIN sessions[AdminProxy]

\* All sessions are at the proxy of the admin key.
LEMMA AllAtHome == Placed /\ SessionsGood => AtHome
BY DEF Placed, AllSessions, SessionsGood, AtHome

\* What a step of one episode leaves behind are sessions and groups of its own.
LEMMA LeavesBehind ==
    ASSUME SessionsGood, SessionsGood', Placed, Placed', NEW e \in Episodes, About(e), NEW Z,
           \A sid \in Sids : sid[1] = e =>
              /\ Left(e, sid)' => Left(e, sid) \/ sid \in Z
              /\ LeftListed(e, sid)' => LeftListed(e, sid) \/ sid \in Z
    PROVE  SessionsLeft' \subseteq SessionsLeft \cup Z /\ GroupsLeft' \subseteq GroupsLeft \cup Z
<1>1. /\ AllSessions = DOMAIN sessions[AdminProxy]
      /\ AllSessions' = DOMAIN sessions'[AdminProxy']
  <2>1. AtHome /\ AtHome'
    BY AllAtHome, PTL
  <2> QED
    BY <2>1 DEF AtHome
<1>2. AdminProxy' = AdminProxy /\ \A x \in Episodes : x # e => episode'[x] = episode[x]
  BY DEF About
<1>3. ASSUME NEW x \in SessionsLeft' PROVE x \in SessionsLeft \cup Z
  <2>1. x \in AllSessions' /\ x # Hitl /\ x \notin SidsOf(Served)'
    BY DEF SessionsLeft
  <2>2. x \in Sids
    BY <2>1 DEF AllSessions, SessionsGood, SessionIds
  <2>3. x[1] \in Episodes
    BY <2>2 DEF Sids
  <2>4. CASE x[1] # e
    <3>1. episode'[x[1]] = episode[x[1]]
      BY <1>2, <2>3, <2>4
    <3>2. x \notin SidsOf(Served)
      BY <2>1, <2>2, <3>1 DEF SidsOf
    <3>3. x \in AllSessions
      BY <1>1, <1>2, <2>1, <2>2, <2>4 DEF About
    <3> QED
      BY <2>1, <3>2, <3>3 DEF SessionsLeft
  <2>5. CASE x[1] = e
    <3>1. Left(e, x)'
      BY <1>1, <2>1, <2>2, <2>5 DEF Left, SidsOf
    <3>2. CASE Left(e, x)
      BY <1>1, <2>1, <2>2, <2>5, <3>2 DEF Left, SidsOf, SessionsLeft
    <3> QED
      BY <2>2, <2>5, <3>1, <3>2
  <2> QED
    BY <2>4, <2>5
<1>4. ASSUME NEW x \in GroupsLeft' PROVE x \in GroupsLeft \cup Z
  <2>1. x \in groups' /\ x \notin SidsOf(Listed)'
    BY DEF GroupsLeft
  <2>2. x \in Sids
    BY <2>1 DEF Placed
  <2>3. x[1] \in Episodes
    BY <2>2 DEF Sids
  <2>4. CASE x[1] # e
    <3>1. episode'[x[1]] = episode[x[1]]
      BY <1>2, <2>3, <2>4
    <3>2. x \notin SidsOf(Listed)
      BY <2>1, <2>2, <3>1 DEF SidsOf
    <3>3. x \in groups
      BY <2>1, <2>2, <2>4 DEF About
    <3> QED
      BY <3>2, <3>3 DEF GroupsLeft
  <2>5. CASE x[1] = e
    <3>1. LeftListed(e, x)'
      BY <2>1, <2>2, <2>5 DEF LeftListed, SidsOf
    <3>2. CASE LeftListed(e, x)
      BY <2>2, <2>5, <3>2 DEF LeftListed, SidsOf, GroupsLeft
    <3> QED
      BY <2>2, <2>5, <3>1, <3>2
  <2> QED
    BY <2>4, <2>5
<1> QED
  BY <1>3, <1>4

\* What is known of one episode.
LEMMA EpisodeIs ==
    ASSUME EpisodesTyped, NEW e \in Episodes
    PROVE  /\ episode[e] \in EpisodeType
           /\ episode[e].sid \in Sids /\ episode[e].sid[1] = e
           /\ episode[e].result \subseteq {e} \X (1..MaxCalls)
BY DEF EpisodesTyped, EpisodeType

\* An episode changes, the others stay.
LEMMA EpisodeSet ==
    ASSUME EpisodesTyped, NEW e \in Episodes, NEW r \in EpisodeType,
           r.sid[1] = e, r.result \subseteq {e} \X (1..MaxCalls),
           episode' = [episode EXCEPT ![e] = r]
    PROVE  EpisodesTyped' /\ episode'[e] = r
           /\ \A x \in Episodes : x # e => episode'[x] = episode[x]
BY DEF EpisodesTyped

\* An episode goes on to another place and keeps the rest.
LEMMA EpisodeMoves ==
    ASSUME EpisodesTyped, NEW e \in Episodes, NEW c \in EpisodePcs, Moves(e, c)
    PROVE  /\ EpisodesTyped' /\ episode'[e].pc = c
           /\ episode'[e].proxy = episode[e].proxy /\ episode'[e].sid = episode[e].sid
           /\ episode'[e].calls = episode[e].calls /\ episode'[e].lost = episode[e].lost
           /\ episode'[e].result = episode[e].result
           /\ \A x \in Episodes : x # e => episode'[x] = episode[x]
<1> DEFINE r == [episode[e] EXCEPT !.pc = c]
<1>1. /\ r \in EpisodeType /\ r.pc = c /\ r.proxy = episode[e].proxy /\ r.sid = episode[e].sid
      /\ r.calls = episode[e].calls /\ r.lost = episode[e].lost
      /\ r.result = episode[e].result
  BY EpisodeIs DEF EpisodeType
<1>2. episode' = [episode EXCEPT ![e] = r]
  BY DEF Moves
<1> HIDE DEF r
<1> QED
  BY <1>1, <1>2, EpisodeIs, EpisodeSet

\* The admin key stays where it is pinned.
LEMMA AdminStays ==
    ASSUME Placed, RouteAdmin
    PROVE  /\ AdminProxy' = AdminProxy /\ groups' = groups /\ picked' \in Proxies
           /\ DOMAIN route' = groups \cup {Admin, Hitl}
           /\ \A key \in DOMAIN route' : route'[key] = AdminProxy
<1> DEFINE h == AdminProxy
<1>1. h \in Proxies
  BY DEF Placed
<1>2. route' = With(With(route, Admin, h), Hitl, h)
  BY DEF RouteAdmin
<1>3. /\ DOMAIN route \subseteq groups \cup {Admin, Hitl}
      /\ groups \subseteq DOMAIN route
      /\ \A key \in DOMAIN route : route[key] = h
  BY DEF Placed
<1> HIDE DEF h
<1>4. DOMAIN route' = groups \cup {Admin, Hitl} /\ \A key \in DOMAIN route' : route'[key] = h
  BY <1>2, <1>3 DEF With
<1>5. AdminProxy' = h
  BY <1>4 DEF AdminProxy
<1>6. picked' \in Proxies
  <2>1. picked \in 0..NumProxies - 1 /\ NumProxies \in Nat \ {0}
    BY ServiceAssumption DEF Placed, Proxies
  <2>2. (picked + 1) % NumProxies \in 0..NumProxies - 1
    BY <2>1
  <2> QED
    BY <2>1, <2>2 DEF RouteAdmin, Proxies
<1> QED
  BY <1>4, <1>5, <1>6 DEF RouteAdmin, h

-----------------------------------------------------------------------------
(* The steps of an episode. *)

LEMMA RouteStartKeeps ==
    ASSUME ServiceInv, NEW e \in Episodes, RouteStart(e)
    PROVE  ServiceInv'
<1> USE DEF ServiceInv, TypesInv, SessionsInv
<1>1. /\ mode = "agent" /\ episode[e].pc = "start" /\ RouteAdmin
      /\ UNCHANGED <<mode, delayed, userVars, proxyVars, onlineVars, faults>>
  BY DEF RouteStart, At
<1> DEFINE r == [episode[e] EXCEPT !.pc = "create", !.proxy = AdminProxy]
<1>2. AdminProxy \in Proxies
  BY DEF Placed
<1>3. /\ r \in EpisodeType /\ r.pc = "create" /\ r.proxy = AdminProxy
      /\ r.sid = episode[e].sid /\ r.result = episode[e].result
  <2>1. episode[e] \in EpisodeType /\ "create" \in EpisodePcs
    BY EpisodeIs DEF EpisodePcs
  <2> QED
    BY <1>2, <2>1 DEF EpisodeType
<1>4. episode' = [episode EXCEPT ![e] = r]
  BY DEF RouteStart
<1> HIDE DEF r
<1>5. /\ EpisodesTyped' /\ episode'[e] = r
      /\ \A x \in Episodes : x # e => episode'[x] = episode[x]
  BY <1>3, <1>4, EpisodeIs, EpisodeSet
<1>6. CountersTyped'
  BY <1>1 DEF CountersTyped, userVars, proxyVars
<1>7. /\ AdminProxy' = AdminProxy /\ groups' = groups /\ picked' \in Proxies
      /\ DOMAIN route' = groups \cup {Admin, Hitl}
      /\ \A key \in DOMAIN route' : route'[key] = AdminProxy
  BY <1>1, AdminStays
<1>8. /\ sessions' = sessions /\ credited' = credited /\ calls' = calls /\ asked' = asked
      /\ delayed' = delayed /\ mode' = mode /\ faults' = faults
  BY <1>1 DEF proxyVars, userVars
<1>9. SessionsGood'
  <2>1. r.calls = episode[e].calls
    BY <1>3, EpisodeIs DEF r, EpisodeType
  <2>2. ASSUME NEW x \in SessionIds PROVE Given(x)' = Given(x)
    BY <1>5, <1>8, <2>1 DEF Given, Issued, Owner, SessionIds, Sids
  <2> QED
    BY <1>5, <1>6, <1>8, <2>2, SessionsStayGood DEF SessionsGood, Store
<1>10. Placed'
  BY <1>2, <1>5, <1>7, <1>8 DEF Placed
<1>11. About(e)
  BY <1>5, <1>7, <1>8 DEF About
<1>12. EpisodesGood'
  <2>1. EpisodePlaced(e)'
    BY <1>3, <1>5, <1>7 DEF EpisodePlaced
  <2>2. EpisodeCredited(e)'
    BY <1>1, <1>3, <1>5, <1>8 DEF EpisodeCredited, EpisodesGood, Credited
  <2> QED
    BY <1>11, <2>1, <2>2, OtherEpisodes
<1>13. FewLeft'
  <2>1. \A sid \in Sids : sid[1] = e =>
              /\ Left(e, sid)' => Left(e, sid) \/ sid \in {}
              /\ LeftListed(e, sid)' => LeftListed(e, sid) \/ sid \in {}
    BY <1>1, <1>3, <1>5, <1>7, <1>8 DEF Left, LeftListed, Served, Listed
  <2>2. SessionsLeft' \subseteq SessionsLeft \cup {} /\ GroupsLeft' \subseteq GroupsLeft \cup {}
    BY <1>9, <1>10, <1>11, <2>1, LeavesBehind
  <2> QED
    BY <1>6, <1>8, <2>2, FewStayFew
<1>14. \A p \in Proxies : Hitl \notin DOMAIN sessions'[p]
  BY <1>1, <1>8 DEF ModesApart, Known
<1> QED
  BY <1>1, <1>5, <1>6, <1>9, <1>10, <1>12, <1>13, <1>14, AgentStep DEF proxyVars

\* There is a free id: the ids that are taken were left behind by a fault each.
LEMMA FreeSidIs ==
    ASSUME ServiceInv, mode = "agent", NEW e \in Episodes, episode[e].pc = "create"
    PROVE  /\ FreeSid(e) \in Sids /\ FreeSid(e)[1] = e
           /\ FreeSid(e) \notin DOMAIN sessions[AdminProxy]
<1> USE DEF ServiceInv, TypesInv, SessionsInv
<1> DEFINE D == DOMAIN sessions[AdminProxy]
           Ids == {e} \X (0..MaxFaults)
           K == Ids \cap D
           Free == {i \in 0..MaxFaults : <<e, i>> \notin D}
<1>1. episode[e].proxy = AdminProxy
  BY DEF EpisodesGood, EpisodePlaced
<1>2. K \subseteq SessionsLeft
  <2> SUFFICES ASSUME NEW x \in K PROVE x \in SessionsLeft
    OBVIOUS
  <2>1. x \in Sids /\ x[1] = e /\ x \in D
    BY DEF Sids
  <2>2. x \in AllSessions
    BY <2>1, AllAtHome DEF AtHome
  <2>3. x \notin SidsOf(Served)
    BY <2>1 DEF SidsOf, Served
  <2> QED
    BY <2>1, <2>2, <2>3, NamesDiffer DEF SessionsLeft
<1>3. IsFiniteSet(K) /\ Cardinality(K) \in Nat /\ Cardinality(K) <= faults
  <2>1. faults \in Nat
    BY ServiceAssumption DEF CountersTyped
  <2>2. AtMost(SessionsLeft, faults)
    BY DEF FewLeft
  <2> HIDE DEF K
  <2>3. AtMost(K, faults)
    BY <1>2, <2>1, <2>2, StillFew
  <2> QED
    BY <2>3, FS_CardinalityType DEF AtMost
<1>4. IsFiniteSet(Ids) /\ Cardinality(Ids) = MaxFaults + 1
  <2>1. IsFiniteSet({e}) /\ Cardinality({e}) = 1
    BY FS_Singleton
  <2>2. IsFiniteSet(0..MaxFaults) /\ Cardinality(0..MaxFaults) = MaxFaults + 1
    BY FS_Interval, ServiceAssumption
  <2>3. IsFiniteSet(Ids) /\ Cardinality(Ids) = Cardinality({e}) * Cardinality(0..MaxFaults)
    BY <2>1, <2>2, FS_Product, Zenon
  <2> HIDE DEF Ids
  <2> QED
    BY <2>1, <2>2, <2>3, ServiceAssumption
<1>5. Free # {}
  <2> SUFFICES ASSUME Free = {} PROVE FALSE
    OBVIOUS
  <2>1. K = Ids
    OBVIOUS
  <2> HIDE DEF K, Ids
  <2>2. Cardinality(K) = Cardinality(Ids)
    BY <2>1, Zenon
  <2>3. faults <= MaxFaults /\ faults \in Nat
    BY ServiceAssumption DEF CountersTyped
  <2> QED
    BY <1>3, <1>4, <2>2, <2>3, ServiceAssumption
<1>6. Free \subseteq Nat
  BY ServiceAssumption
<1>7. PICK m \in Free : \A k \in Free : ~(<<k, m>> \in OpToRel(<, Nat))
  BY <1>5, <1>6, NatLessThanWellFounded, WFMin
<1>8. \A k \in 0..m - 1 : <<e, k>> \in D
  <2> SUFFICES ASSUME NEW k \in 0..m - 1, <<e, k>> \notin D PROVE FALSE
    OBVIOUS
  <2>1. k \in Free /\ k < m /\ k \in Nat /\ m \in Nat
    BY ServiceAssumption
  <2> QED
    BY <1>7, <2>1 DEF OpToRel
<1> DEFINE Fits(sid) == /\ ~Known(AdminProxy, sid)
                        /\ \A i \in 0..sid[2] - 1 : Known(AdminProxy, <<e, i>>)
<1>9. <<e, m>> \in Ids /\ Fits(<<e, m>>)
  BY <1>8 DEF Known
<1>10. FreeSid(e) = CHOOSE sid \in Ids : Fits(sid)
  BY <1>1 DEF FreeSid
<1> HIDE DEF Ids, Fits
<1>11. FreeSid(e) \in Ids /\ Fits(FreeSid(e))
  BY <1>9, <1>10
<1> QED
  BY <1>11 DEF Ids, Fits, Known, Sids

\* A session whose answer was lost is left behind, and a second one is created.
LEMMA CreateSessionKeeps ==
    ASSUME ServiceInv, NEW e \in Episodes, CreateSession(e)
    PROVE  ServiceInv'
<1> USE DEF ServiceInv, TypesInv, SessionsInv
<1> DEFINE f == FreeSid(e)
<1>1. /\ mode = "agent" /\ episode[e].pc = "create"
      /\ Change(episode[e].proxy, f, NewSession(0))
      /\ UNCHANGED <<mode, delayed, userVars, routerVars, complete, credited, flush,
                     onlineVars>>
  BY DEF CreateSession, At
<1>2. f \in Sids /\ f[1] = e /\ f \notin DOMAIN sessions[AdminProxy]
  BY <1>1, FreeSidIs
<1>3. episode[e].proxy = AdminProxy /\ AdminProxy \in Proxies
  BY <1>1 DEF EpisodesGood, EpisodePlaced, Placed
<1> HIDE DEF f
<1>4. /\ Store'
      /\ DOMAIN sessions'[AdminProxy] = DOMAIN sessions[AdminProxy] \cup {f}
      /\ sessions'[AdminProxy][f] = NewSession(0)
      /\ \A x \in DOMAIN sessions[AdminProxy] :
            x # f => sessions'[AdminProxy][x] = sessions[AdminProxy][x]
      /\ \A q \in Proxies : q # AdminProxy => sessions'[q] = sessions[q]
  BY <1>1, <1>3, ChangeIs DEF SessionsGood
<1>5. /\ route' = route /\ groups' = groups /\ picked' = picked /\ credited' = credited
      /\ calls' = calls /\ asked' = asked /\ delayed' = delayed /\ mode' = mode
      /\ complete' = complete
  BY <1>1 DEF routerVars, userVars
<1>6. AdminProxy' = AdminProxy
  BY <1>5 DEF AdminProxy
<1>7. \/ /\ faults' = faults /\ EpisodesTyped'
         /\ episode'[e].pc = "register" /\ episode'[e].sid = f
         /\ episode'[e].calls = episode[e].calls /\ episode'[e].proxy = episode[e].proxy
         /\ \A x \in Episodes : x # e => episode'[x] = episode[x]
      \/ Fault /\ episode' = episode
  <2>1. CASE /\ episode' = [episode EXCEPT ![e].pc = "register", ![e].sid = f]
             /\ UNCHANGED faults
    <3> DEFINE r == [episode[e] EXCEPT !.pc = "register", !.sid = f]
    <3>1. /\ r \in EpisodeType /\ r.pc = "register" /\ r.sid = f
          /\ r.calls = episode[e].calls /\ r.result = episode[e].result
          /\ r.proxy = episode[e].proxy
      <4>1. episode[e] \in EpisodeType /\ f \in Sids
        BY <1>2, EpisodeIs
      <4> QED
        BY <4>1 DEF EpisodeType, EpisodePcs
    <3>2. episode' = [episode EXCEPT ![e] = r]
      BY <2>1
    <3> HIDE DEF r
    <3>3. r.sid[1] = e /\ r.result \subseteq {e} \X (1..MaxCalls)
      BY <1>2, <3>1, EpisodeIs
    <3>4. EpisodesTyped' /\ episode'[e] = r
          /\ \A x \in Episodes : x # e => episode'[x] = episode[x]
      BY <3>1, <3>2, <3>3, EpisodeSet
    <3> QED
      BY <2>1, <3>1, <3>4
  <2>2. CASE Fault /\ UNCHANGED episode
    BY <2>2
  <2> QED
    BY <2>1, <2>2 DEF CreateSession, f
<1>8. EpisodesTyped' /\ \A x \in Episodes : x # e => episode'[x] = episode[x]
  BY <1>7 DEF EpisodesTyped
<1>9. CountersTyped'
  BY <1>5, <1>7, FaultCounted DEF CountersTyped
<1>10. SessionsGood'
  <2>1. ASSUME NEW x \in SessionIds PROVE Given(x)' = Given(x)
    <3>1. episode'[e].calls = episode[e].calls
      BY <1>7
    <3> QED
      BY <1>5, <1>8, <3>1 DEF Given, Issued, Owner, SessionIds, Sids
  <2>2. f \in SessionIds /\ IsSession(NewSession(0), Given(f), delayed)
    <3>1. f \in SessionIds
      BY <1>2 DEF SessionIds
    <3>2. IsFiniteSet(Given(f))
      BY <3>1, GivenIsTyped DEF GivenTyped
    <3> QED
      BY <3>1, <3>2, NewIsSession
  <2>3. ASSUME NEW q \in Proxies, NEW x \in DOMAIN sessions'[q]
        PROVE  \/ x \in DOMAIN sessions[q] /\ sessions'[q][x] = sessions[q][x]
               \/ x \in SessionIds /\ IsSession(sessions'[q][x], Given(x)', delayed)
    <3>1. CASE q = AdminProxy /\ x = f
      BY <1>4, <2>1, <2>2, <3>1
    <3>2. CASE ~(q = AdminProxy /\ x = f)
      BY <1>4, <3>2
    <3> QED
      BY <3>1, <3>2
  <2> QED
    BY <1>4, <1>5, <1>8, <1>9, <2>1, <2>3, SessionsStayGood
<1>11. Placed'
  <2>1. Admin \in DOMAIN route
    BY <1>1 DEF Placed
  <2> QED
    BY <1>3, <1>4, <1>5, <1>6, <2>1 DEF Placed
<1>12. About(e)
  BY <1>2, <1>4, <1>5, <1>6, <1>8 DEF About
<1>13. EpisodesGood'
  <2>1. EpisodePlaced(e) /\ EpisodeCredited(e)
    BY DEF EpisodesGood
  <2>2. EpisodePlaced(e)'
    BY <1>1, <1>3, <1>4, <1>6, <1>7 DEF EpisodePlaced, Known
  <2>3. EpisodeCredited(e)'
    <3>1. Credited(e)' = {}
      BY <1>1, <1>5, <2>1 DEF EpisodeCredited, Credited
    <3>2. Fresh(NewSession(0))
      BY DEF Fresh, NewSession
    <3>3. CASE episode'[e].pc = "register" /\ episode'[e].sid = f
      BY <1>4, <1>6, <3>1, <3>2, <3>3 DEF EpisodeCredited, Fresh
    <3>4. CASE episode' = episode
      BY <1>1, <3>1, <3>4 DEF EpisodeCredited
    <3> QED
      BY <1>7, <3>3, <3>4
  <2> QED
    BY <1>12, <2>2, <2>3, OtherEpisodes
<1>14. FewLeft'
  <2>1. CASE Fault /\ episode' = episode
    <3>1. \A sid \in Sids : sid[1] = e =>
                /\ Left(e, sid)' => Left(e, sid) \/ sid \in {f}
                /\ LeftListed(e, sid)' => LeftListed(e, sid) \/ sid \in {f}
      BY <1>4, <1>5, <1>6, <2>1 DEF Left, LeftListed
    <3>2. SessionsLeft' \subseteq SessionsLeft \cup {f} /\ GroupsLeft' \subseteq GroupsLeft \cup {f}
      BY <1>10, <1>11, <1>12, <3>1, LeavesBehind
    <3> QED
      BY <2>1, <3>2, FaultLeavesOne
  <2>2. CASE faults' = faults /\ episode'[e].pc = "register" /\ episode'[e].sid = f
    <3>1. \A sid \in Sids : sid[1] = e =>
                /\ Left(e, sid)' => Left(e, sid) \/ sid \in {}
                /\ LeftListed(e, sid)' => LeftListed(e, sid) \/ sid \in {}
      BY <1>1, <1>4, <1>5, <1>6, <2>2 DEF Left, LeftListed, Served, Listed
    <3>2. SessionsLeft' \subseteq SessionsLeft \cup {} /\ GroupsLeft' \subseteq GroupsLeft \cup {}
      BY <1>10, <1>11, <1>12, <3>1, LeavesBehind
    <3> QED
      BY <1>9, <2>2, <3>2, FewStayFew
  <2> QED
    BY <1>7, <2>1, <2>2
<1>15. \A p \in Proxies : Hitl \notin DOMAIN sessions'[p]
  BY <1>1, <1>2, <1>4, NamesDiffer DEF ModesApart, Known
<1> QED
  BY <1>1, <1>8, <1>9, <1>10, <1>11, <1>13, <1>14, <1>15, AgentStep

\* The group is registered; an episode that did not reach the router, or whose answer
\* was lost, begins again, and leaves its session and maybe its group.
LEMMA RegisterKeeps ==
    ASSUME ServiceInv, NEW e \in Episodes, Register(e)
    PROVE  ServiceInv'
<1> USE DEF ServiceInv, TypesInv, SessionsInv
<1> DEFINE sid == episode[e].sid
<1>1. /\ mode = "agent" /\ episode[e].pc = "register"
      /\ UNCHANGED <<mode, delayed, userVars, proxyVars, onlineVars>>
  BY DEF Register, At
<1>2. sid \in Sids /\ sid[1] = e
  BY EpisodeIs
<1>3. /\ episode[e].proxy = AdminProxy /\ AdminProxy \in Proxies
      /\ sid \in DOMAIN sessions[AdminProxy] /\ Credited(e) = {}
      /\ Fresh(sessions[AdminProxy][sid]) /\ Admin \in DOMAIN route
  BY <1>1 DEF EpisodesGood, EpisodePlaced, EpisodeCredited, Placed, Known
<1>4. /\ sessions' = sessions /\ complete' = complete /\ credited' = credited
      /\ calls' = calls /\ asked' = asked /\ delayed' = delayed /\ mode' = mode
  BY <1>1 DEF proxyVars, userVars
<1>5. \/ RegisterSession(AdminProxy, sid) /\ Moves(e, "agent") /\ faults' = faults
      \/ /\ RegisterSession(AdminProxy, sid) \/ UNCHANGED routerVars
         /\ Moves(e, "start") /\ Fault
  BY <1>3 DEF Register
<1>6. PICK c \in {"agent", "start"} :
         /\ Moves(e, c) /\ (IF c = "agent" THEN faults' = faults ELSE Fault)
         /\ RegisterSession(AdminProxy, sid) \/ (c = "start" /\ UNCHANGED routerVars)
  BY <1>5
<1>7. /\ EpisodesTyped' /\ episode'[e].pc = c
      /\ episode'[e].proxy = episode[e].proxy /\ episode'[e].sid = sid
      /\ episode'[e].calls = episode[e].calls
      /\ \A x \in Episodes : x # e => episode'[x] = episode[x]
  BY <1>6, EpisodeMoves DEF EpisodePcs
<1> HIDE DEF sid
<1>8. /\ groups' \in {groups, groups \cup {sid}} /\ picked' = picked
      /\ c = "agent" => sid \in groups'
      /\ DOMAIN route' = groups' \cup {Admin, Hitl}
      /\ \A key \in DOMAIN route' : route'[key] = AdminProxy
  <2>1. /\ DOMAIN route = groups \cup {Admin, Hitl}
        /\ \A key \in DOMAIN route : route[key] = AdminProxy
    BY <1>3 DEF Placed
  <2>2. CASE RegisterSession(AdminProxy, sid)
    <3> DEFINE h == AdminProxy
    <3>1. route' = With(route, sid, h) /\ groups' = groups \cup {sid} /\ picked' = picked
      BY <2>2 DEF RegisterSession
    <3>2. \A key \in DOMAIN route : route[key] = h
      BY <2>1
    <3> HIDE DEF h
    <3>3. DOMAIN route' = DOMAIN route \cup {sid} /\ \A key \in DOMAIN route' : route'[key] = h
      BY <3>1, <3>2 DEF With
    <3> QED
      BY <2>1, <3>1, <3>3 DEF h
  <2>3. CASE c = "start" /\ UNCHANGED routerVars
    BY <2>1, <2>3 DEF routerVars
  <2> QED
    BY <1>6, <2>2, <2>3
<1>9. AdminProxy' = AdminProxy
  BY <1>3, <1>8 DEF AdminProxy
<1>10. CountersTyped'
  BY <1>4, <1>6, FaultCounted DEF CountersTyped
<1>11. SessionsGood'
  <2>1. ASSUME NEW x \in SessionIds PROVE Given(x)' = Given(x)
    BY <1>4, <1>7 DEF Given, Issued, Owner, SessionIds, Sids
  <2> QED
    BY <1>4, <1>7, <1>10, <2>1, SessionsStayGood DEF SessionsGood, Store
<1>12. Placed'
  <2>1. groups' \subseteq Sids /\ picked' \in Proxies
    BY <1>2, <1>8 DEF Placed
  <2> QED
    BY <1>3, <1>4, <1>8, <1>9, <2>1 DEF Placed
<1>13. About(e)
  BY <1>2, <1>4, <1>7, <1>8, <1>9 DEF About
<1>14. EpisodesGood'
  <2>1. EpisodePlaced(e)'
    BY <1>3, <1>4, <1>7, <1>8, <1>9 DEF EpisodePlaced, Known
  <2>2. EpisodeCredited(e)'
    BY <1>3, <1>4, <1>7, <1>9 DEF EpisodeCredited, Credited, Fresh
  <2> QED
    BY <1>13, <2>1, <2>2, OtherEpisodes
<1>15. FewLeft'
  <2>1. CASE c = "start"
    <3>1. \A x \in Sids : x[1] = e =>
                /\ Left(e, x)' => Left(e, x) \/ x \in {sid}
                /\ LeftListed(e, x)' => LeftListed(e, x) \/ x \in {sid}
      BY <1>4, <1>7, <1>8, <1>9 DEF Left, LeftListed, sid
    <3>2. SessionsLeft' \subseteq SessionsLeft \cup {sid} /\ GroupsLeft' \subseteq GroupsLeft \cup {sid}
      BY <1>11, <1>12, <1>13, <3>1, LeavesBehind
    <3> QED
      BY <1>6, <2>1, <3>2, FaultLeavesOne
  <2>2. CASE c = "agent"
    <3>1. \A x \in Sids : x[1] = e =>
                /\ Left(e, x)' => Left(e, x) \/ x \in {}
                /\ LeftListed(e, x)' => LeftListed(e, x) \/ x \in {}
      BY <1>1, <1>4, <1>7, <1>8, <1>9, <2>2 DEF Left, LeftListed, sid, Served, Listed
    <3>2. SessionsLeft' \subseteq SessionsLeft \cup {} /\ GroupsLeft' \subseteq GroupsLeft \cup {}
      BY <1>11, <1>12, <1>13, <3>1, LeavesBehind
    <3> QED
      BY <1>6, <1>10, <2>2, <3>2, FewStayFew
  <2> QED
    BY <2>1, <2>2
<1>16. \A p \in Proxies : Hitl \notin DOMAIN sessions'[p]
  BY <1>1, <1>4 DEF ModesApart, Known
<1> QED
  BY <1>1, <1>7, <1>10, <1>11, <1>12, <1>14, <1>15, <1>16, AgentStep DEF proxyVars

\* Only the episode moves, and an output may arrive.
LEMMA AgentWaits ==
    ASSUME ServiceInv, NEW e \in Episodes, mode = "agent", NEW c \in EpisodePcs, Moves(e, c),
           \/ episode[e].pc = "asked" /\ c = "agent"
           \/ episode[e].pc \in {"agent", "asked"} /\ c = "reward",
           UNCHANGED <<mode, delayed, userVars, routerVars, sessions, credited, flush,
                       onlineVars, faults>>,
           complete \subseteq complete', complete' \subseteq Interactions
    PROVE  ServiceInv'
<1> USE DEF ServiceInv, TypesInv, SessionsInv
<1>1. /\ EpisodesTyped' /\ episode'[e].pc = c
      /\ episode'[e].proxy = episode[e].proxy /\ episode'[e].sid = episode[e].sid
      /\ episode'[e].calls = episode[e].calls
      /\ \A x \in Episodes : x # e => episode'[x] = episode[x]
  BY EpisodeMoves
<1>2. /\ route' = route /\ groups' = groups /\ picked' = picked
      /\ calls' = calls /\ asked' = asked
  BY DEF routerVars, userVars
<1>3. AdminProxy' = AdminProxy
  BY <1>2 DEF AdminProxy
<1>4. CountersTyped'
  BY <1>2 DEF CountersTyped
<1>5. SessionsGood'
  <2>1. ASSUME NEW x \in SessionIds PROVE Given(x)' = Given(x)
    BY <1>1, <1>2 DEF Given, Issued, Owner, SessionIds, Sids
  <2> QED
    BY <1>1, <1>4, <2>1, SessionsStayGood DEF SessionsGood, Store
<1>6. Placed'
  BY <1>1, <1>2, <1>3 DEF Placed
<1>7. About(e)
  BY <1>1, <1>2, <1>3 DEF About
<1>8. EpisodePlaced(e) /\ EpisodeCredited(e)
  BY DEF EpisodesGood
<1>9. EpisodePlaced(e)'
  BY <1>1, <1>2, <1>3, <1>8 DEF EpisodePlaced, Known
<1>10. EpisodeCredited(e)'
  <2>1. Credited(e)' = {} /\ Fresh(sessions[AdminProxy][episode[e].sid])
    BY <1>8 DEF EpisodeCredited, Credited
  <2> QED
    BY <1>1, <1>3, <2>1 DEF EpisodeCredited, Fresh, Uncut
<1>11. EpisodesGood'
  BY <1>7, <1>9, <1>10, OtherEpisodes
<1>12. FewLeft'
  <2>1. \A sid \in Sids : sid[1] = e =>
              /\ Left(e, sid)' => Left(e, sid) \/ sid \in {}
              /\ LeftListed(e, sid)' => LeftListed(e, sid) \/ sid \in {}
    BY <1>1, <1>2, <1>3 DEF Left, LeftListed, Served, Listed
  <2>2. SessionsLeft' \subseteq SessionsLeft \cup {} /\ GroupsLeft' \subseteq GroupsLeft \cup {}
    BY <1>5, <1>6, <1>7, <2>1, LeavesBehind
  <2> QED
    BY <1>4, <2>2, FewStayFew
<1>13. \A p \in Proxies : Hitl \notin DOMAIN sessions'[p]
  BY DEF ModesApart, Known
<1> QED
  BY <1>1, <1>4, <1>5, <1>6, <1>11, <1>12, <1>13, AgentStep

\* The output of a completion arrives.
LEMMA AnswerKeeps ==
    ASSUME ServiceInv, NEW e \in Episodes, Answer(e)
    PROVE  ServiceInv'
<1>1. /\ mode = "agent" /\ episode[e].pc = "asked" /\ Moves(e, "agent")
      /\ complete' = complete \cup {<<e, episode[e].calls>>}
      /\ UNCHANGED <<mode, delayed, userVars, routerVars, sessions, credited, flush,
                     onlineVars, faults>>
  BY DEF Answer, At
<1>2. episode[e].calls \in 1..MaxCalls
  <2>1. EpisodesTyped /\ EpisodePlaced(e)
    BY DEF ServiceInv, TypesInv, SessionsInv, EpisodesGood
  <2>2. episode[e].calls \in 0..MaxCalls
    BY <2>1, EpisodeIs DEF EpisodeType
  <2>3. episode[e].calls > 0
    BY <1>1, <2>1 DEF EpisodePlaced
  <2> QED
    BY <2>2, <2>3, ServiceAssumption
<1>3. complete \subseteq complete' /\ complete' \subseteq Interactions
  BY <1>1, <1>2 DEF ServiceInv, TypesInv, CountersTyped, Interactions
<1> QED
  BY <1>1, <1>3, AgentWaits DEF EpisodePcs

\* The agent ends with or without the last answer.
LEMMA AgentEndsKeeps ==
    ASSUME ServiceInv, NEW e \in Episodes, AgentEnds(e)
    PROVE  ServiceInv'
<1>1. /\ mode = "agent" /\ episode[e].pc \in {"agent", "asked"} /\ Moves(e, "reward")
      /\ UNCHANGED <<mode, delayed, userVars, routerVars, proxyVars, onlineVars, faults>>
  BY DEF AgentEnds, At
<1>2. UNCHANGED <<sessions, complete, credited, flush>>
  BY <1>1 DEF proxyVars
<1>3. complete \subseteq complete' /\ complete' \subseteq Interactions
  BY <1>2 DEF ServiceInv, TypesInv, CountersTyped
<1> QED
  BY <1>1, <1>2, <1>3, AgentWaits DEF EpisodePcs

\* The session of an episode that the router knows.
LEMMA EpisodeSession ==
    ASSUME ServiceInv, NEW e \in Episodes, episode[e].pc \in {"agent", "asked", "reward"}
    PROVE  LET sid == episode[e].sid
               s == sessions[AdminProxy][sid]
           IN  /\ sid \in Sids /\ sid[1] = e /\ sid \in SessionIds
               /\ AdminProxy \in Proxies /\ sid \in groups /\ route[sid] = AdminProxy
               /\ sid \in DOMAIN sessions[AdminProxy]
               /\ IsFiniteSet(Given(sid)) /\ IsSession(s, Given(sid), delayed)
               /\ s.active \subseteq Given(sid) /\ Given(sid) \subseteq Interactions
               /\ Given(sid) \subseteq {e} \X (1..MaxCalls)
<1> USE DEF ServiceInv, TypesInv, SessionsInv
<1> DEFINE sid == episode[e].sid
<1>1. sid \in Sids /\ sid[1] = e /\ sid \in SessionIds
  BY EpisodeIs DEF SessionIds
<1>2. sid \in groups /\ sid \in DOMAIN sessions[AdminProxy]
  BY DEF EpisodesGood, EpisodePlaced, Known
<1>3. AdminProxy \in Proxies /\ route[sid] = AdminProxy
  BY <1>2 DEF Placed
<1>4. IsSession(sessions[AdminProxy][sid], Given(sid), delayed)
  BY <1>2, <1>3 DEF SessionsGood
<1>5. IsFiniteSet(Given(sid)) /\ Given(sid) \subseteq Interactions
      /\ Given(sid) \subseteq {e} \X (1..MaxCalls)
  BY <1>1, GivenIsTyped, NamesDiffer DEF GivenTyped
<1> QED
  BY <1>1, <1>2, <1>3, <1>4, <1>5, SessionHolds

\* A completion is recorded in the trajectory under way.
LEMMA AskKeeps ==
    ASSUME ServiceInv, NEW e \in Episodes, Ask(e)
    PROVE  ServiceInv'
<1> USE DEF ServiceInv, TypesInv, SessionsInv
<1> DEFINE sid == episode[e].sid
           s == sessions[AdminProxy][sid]
           i == <<e, episode[e].calls + 1>>
           t == [s EXCEPT !.active = @ \cup {i}]
<1>1. mode = "agent" /\ episode[e].pc \in {"agent", "asked"}
  BY DEF Ask, At
<1>2. /\ sid \in Sids /\ sid[1] = e /\ sid \in SessionIds
      /\ AdminProxy \in Proxies /\ sid \in groups /\ route[sid] = AdminProxy
      /\ sid \in DOMAIN sessions[AdminProxy]
      /\ IsFiniteSet(Given(sid)) /\ IsSession(s, Given(sid), delayed)
      /\ s.active \subseteq Given(sid) /\ Given(sid) \subseteq Interactions
  BY <1>1, EpisodeSession
<1>3. /\ episode[e].calls < MaxCalls
      /\ episode' = [episode EXCEPT ![e].pc = "asked", ![e].calls = @ + 1]
      /\ Change(AdminProxy, sid, t)
      /\ complete' \in {complete, complete \cup s.active}
      /\ faults' = faults \/ Fault
      /\ UNCHANGED <<mode, delayed, userVars, routerVars, credited, flush, onlineVars>>
  BY <1>2 DEF Ask
<1>4. episode[e].calls \in 0..MaxCalls /\ episode[e].calls + 1 \in 0..MaxCalls
  BY <1>3, EpisodeIs, ServiceAssumption DEF EpisodeType
<1>5. /\ EpisodesTyped' /\ episode'[e].pc = "asked" /\ episode'[e].sid = sid
      /\ episode'[e].proxy = episode[e].proxy /\ episode'[e].lost = episode[e].lost
      /\ episode'[e].calls = episode[e].calls + 1
      /\ \A x \in Episodes : x # e => episode'[x] = episode[x]
  <2> DEFINE r == [episode[e] EXCEPT !.pc = "asked", !.calls = @ + 1]
  <2>1. episode[e] \in EpisodeType
    BY EpisodeIs
  <2>2. /\ r \in EpisodeType /\ r.pc = "asked" /\ r.sid = sid
        /\ r.proxy = episode[e].proxy /\ r.lost = episode[e].lost
        /\ r.calls = episode[e].calls + 1 /\ r.result = episode[e].result
    BY <1>4, <2>1 DEF EpisodeType, EpisodePcs
  <2>3. episode' = [episode EXCEPT ![e] = r]
    BY <1>3
  <2> HIDE DEF r
  <2>4. r.sid[1] = e /\ r.result \subseteq {e} \X (1..MaxCalls)
    BY <1>2, <2>2, EpisodeIs
  <2>5. EpisodesTyped' /\ episode'[e] = r
        /\ \A x \in Episodes : x # e => episode'[x] = episode[x]
    BY <2>2, <2>3, <2>4, EpisodeSet
  <2> QED
    BY <2>2, <2>5
<1>6. /\ route' = route /\ groups' = groups /\ picked' = picked /\ credited' = credited
      /\ calls' = calls /\ asked' = asked /\ delayed' = delayed /\ mode' = mode
  BY <1>3 DEF routerVars, userVars
<1>7. AdminProxy' = AdminProxy
  BY <1>6 DEF AdminProxy
<1>8. ASSUME NEW x, x = sid
      PROVE  i \notin Given(x) /\ Given(x)' = Given(x) \cup {i}
  <2>1. Given(x) = {e} \X (1..episode[e].calls)
    BY <1>1, <1>2, <1>8, NamesDiffer DEF Given
  <2>2. x # Hitl
    BY <1>2, <1>8, NamesDiffer
  <2>3. Given(x)' = {e} \X (1..episode[e].calls + 1)
    BY <1>1, <1>2, <1>5, <1>6, <1>8, <2>2 DEF Given, Owner, Issued
  <2> QED
    BY <1>4, <2>1, <2>3
<1>9. \A x \in SessionIds : Given(x) \subseteq Given(x)'
  <2> SUFFICES ASSUME NEW x \in SessionIds PROVE Given(x) \subseteq Given(x)'
    OBVIOUS
  <2>1. CASE x = Hitl
    BY <1>6, <2>1 DEF Given, Owner, Issued
  <2>2. CASE x # Hitl
    <3>1. x[1] \in Episodes
      BY <2>2 DEF SessionIds, Sids
    <3>2. episode[x[1]].calls \in Nat /\ episode[x[1]].calls <= episode'[x[1]].calls
          /\ episode'[x[1]].calls \in Nat
      <4>1. episode[x[1]].calls \in Nat
        BY <3>1, EpisodeIs, ServiceAssumption DEF EpisodeType
      <4> QED
        BY <1>4, <1>5, <3>1, <4>1
    <3> QED
      BY <1>6, <2>2, <3>2 DEF Given, Owner, Issued
  <2> QED
    BY <2>1, <2>2
<1> HIDE DEF i
<1>10. ASSUME NEW x, x = sid PROVE IsSession(t, Given(x)', delayed)
  BY <1>2, <1>8, <1>10, SessionRecords
<1> HIDE DEF s, t
<1>11. /\ Store'
       /\ DOMAIN sessions'[AdminProxy] = DOMAIN sessions[AdminProxy]
       /\ sessions'[AdminProxy][sid] = t
       /\ \A x \in DOMAIN sessions[AdminProxy] :
             x # sid => sessions'[AdminProxy][x] = sessions[AdminProxy][x]
       /\ \A q \in Proxies : q # AdminProxy => sessions'[q] = sessions[q]
  BY <1>2, <1>3, SessionReplaced DEF SessionsGood
<1> HIDE DEF sid
<1>12. CountersTyped'
  <2>1. complete \subseteq complete' /\ complete' \subseteq Interactions
    BY <1>2, <1>3 DEF CountersTyped
  <2> QED
    BY <1>3, <1>6, <2>1, FaultCounted DEF CountersTyped
<1>13. SessionsGood'
  <2>1. ASSUME NEW q \in Proxies, NEW x \in DOMAIN sessions'[q]
        PROVE  \/ x \in DOMAIN sessions[q] /\ sessions'[q][x] = sessions[q][x]
               \/ x \in SessionIds /\ IsSession(sessions'[q][x], Given(x)', delayed)
    <3>1. CASE q = AdminProxy /\ x = sid
      BY <1>2, <1>10, <1>11, <3>1
    <3>2. CASE ~(q = AdminProxy /\ x = sid)
      BY <1>11, <3>2
    <3> QED
      BY <3>1, <3>2
  <2> QED
    BY <1>5, <1>6, <1>9, <1>11, <1>12, <2>1, SessionsStayGood
<1>14. Placed'
  <2>1. Admin \in DOMAIN route
    BY <1>1 DEF Placed
  <2> QED
    BY <1>6, <1>7, <1>11, <2>1 DEF Placed
<1>15. About(e)
  BY <1>2, <1>5, <1>6, <1>7, <1>11 DEF About
<1>16. EpisodePlaced(e) /\ EpisodeCredited(e)
  BY DEF EpisodesGood
<1>17. EpisodesGood'
  <2>1. EpisodePlaced(e)'
    <3>1. episode'[e].calls > 0
      BY <1>4, <1>5
    <3> QED
      BY <1>1, <1>2, <1>5, <1>6, <1>7, <1>11, <1>16, <3>1 DEF EpisodePlaced, Known
  <2>2. EpisodeCredited(e)'
    <3>1. Credited(e)' = {} /\ Fresh(s)
      BY <1>1, <1>6, <1>16 DEF EpisodeCredited, Credited, s, sid
    <3>2. t.next = s.next /\ t.rewarded = s.rewarded
      <4>1. s = [born |-> s.born, active |-> s.active, rewarded |-> s.rewarded,
                 ready |-> s.ready, next |-> s.next]
        BY <1>2 DEF IsSession
      <4> HIDE DEF s
      <4> QED
        BY <4>1 DEF t
    <3>3. Fresh(t)
      BY <3>1, <3>2 DEF Fresh
    <3> QED
      BY <1>5, <1>7, <1>11, <3>1, <3>3 DEF EpisodeCredited, Fresh
  <2> QED
    BY <1>15, <2>1, <2>2, OtherEpisodes
<1>18. FewLeft'
  <2>1. \A x \in Sids : x[1] = e =>
              /\ Left(e, x)' => Left(e, x) \/ x \in {}
              /\ LeftListed(e, x)' => LeftListed(e, x) \/ x \in {}
    BY <1>1, <1>5, <1>6, <1>7, <1>11 DEF Left, LeftListed, Served, Listed, sid
  <2>2. SessionsLeft' \subseteq SessionsLeft \cup {} /\ GroupsLeft' \subseteq GroupsLeft \cup {}
    BY <1>13, <1>14, <1>15, <2>1, LeavesBehind
  <2>3. faults' = faults \/ faults' = faults + 1
    BY <1>3, FaultCounted
  <2> QED
    BY <1>12, <2>2, <2>3, FewStayFew
<1>19. \A p \in Proxies : Hitl \notin DOMAIN sessions'[p]
  BY <1>1, <1>11 DEF ModesApart, Known
<1> QED
  BY <1>1, <1>3, <1>5, <1>12, <1>13, <1>14, <1>17, <1>18, <1>19, AgentStep

\* The trajectory the reward is set on is the latest; set again it is a duplicate.
LEMMA RewardEpisodeKeeps ==
    ASSUME ServiceInv, NEW e \in Episodes, RewardEpisode(e)
    PROVE  ServiceInv'
<1> USE DEF ServiceInv, TypesInv, SessionsInv
<1> DEFINE sid == episode[e].sid
           s == sessions[AdminProxy][sid]
           t == Rewarded(s)
<1>1. mode = "agent" /\ episode[e].pc = "reward"
  BY DEF RewardEpisode, At
<1>2. /\ sid \in Sids /\ sid[1] = e /\ sid \in SessionIds
      /\ AdminProxy \in Proxies /\ sid \in groups /\ route[sid] = AdminProxy
      /\ sid \in DOMAIN sessions[AdminProxy]
      /\ IsFiniteSet(Given(sid)) /\ IsSession(s, Given(sid), delayed)
      /\ s.active \subseteq Given(sid)
      /\ Given(sid) \subseteq {e} \X (1..MaxCalls)
  BY <1>1, EpisodeSession
<1>3. /\ Change(AdminProxy, sid, t) /\ credited' = credited \cup (s.active \cap complete)
      /\ UNCHANGED <<mode, delayed, userVars, routerVars, complete, flush, onlineVars>>
  BY <1>2 DEF RewardEpisode, SetReward
<1>4. PICK c \in {"reward", "export"} :
         /\ EpisodesTyped' /\ episode'[e].pc = c /\ episode'[e].sid = sid
         /\ episode'[e].proxy = episode[e].proxy /\ episode'[e].lost = episode[e].lost
         /\ episode'[e].calls = episode[e].calls
         /\ \A x \in Episodes : x # e => episode'[x] = episode[x]
         /\ faults' = faults \/ Fault
  <2>1. CASE Moves(e, "export") /\ UNCHANGED faults
    BY <2>1, EpisodeMoves DEF EpisodePcs
  <2>2. CASE Fault /\ UNCHANGED episode
    BY <1>1, <2>2 DEF EpisodesTyped
  <2> QED
    BY <2>1, <2>2 DEF RewardEpisode
<1>5. /\ route' = route /\ groups' = groups /\ picked' = picked /\ complete' = complete
      /\ calls' = calls /\ asked' = asked /\ delayed' = delayed /\ mode' = mode
  BY <1>3 DEF routerVars, userVars
<1>6. AdminProxy' = AdminProxy
  BY <1>5 DEF AdminProxy
<1>7. \A x \in SessionIds : Given(x)' = Given(x)
  BY <1>4, <1>5 DEF Given, Issued, Owner, SessionIds, Sids
<1>8. /\ IsSession(t, Given(sid), delayed)
      /\ s.active = {} => t = s
      /\ ~delayed /\ s.active # {} =>
            /\ t.active = {} /\ Latest(t) \in DOMAIN t.ready
            /\ t.ready[Latest(t)].content = s.active
      /\ delayed => t.active = s.active /\ t.next = s.next
  <2>1. delayed \in BOOLEAN
    BY DEF CountersTyped
  <2>2. /\ IsSession(t, Given(sid), delayed)
        /\ s.active = {} => t = s
        /\ ~delayed /\ s.active # {} => t = MarkReady(s)
        /\ delayed => t.active = s.active /\ t.next = s.next
    BY <1>2, <2>1, RewardedIs
  <2>3. s.active # {} =>
            /\ MarkReady(s).active = {} /\ Latest(MarkReady(s)) \in DOMAIN MarkReady(s).ready
            /\ MarkReady(s).ready[Latest(MarkReady(s))].content = s.active
    BY <1>2, MarkReadyIs
  <2> HIDE DEF t, s
  <2> QED
    BY <2>2, <2>3
<1> HIDE DEF t
<1>9. /\ Store'
      /\ DOMAIN sessions'[AdminProxy] = DOMAIN sessions[AdminProxy]
      /\ sessions'[AdminProxy][sid] = t
      /\ \A x \in DOMAIN sessions[AdminProxy] :
            x # sid => sessions'[AdminProxy][x] = sessions[AdminProxy][x]
      /\ \A q \in Proxies : q # AdminProxy => sessions'[q] = sessions[q]
  BY <1>2, <1>3, SessionReplaced DEF SessionsGood
<1>10. CountersTyped'
  BY <1>3, <1>4, <1>5, FaultCounted DEF CountersTyped
<1> HIDE DEF sid
<1>11. SessionsGood'
  <2>1. ASSUME NEW q \in Proxies, NEW x \in DOMAIN sessions'[q]
        PROVE  \/ x \in DOMAIN sessions[q] /\ sessions'[q][x] = sessions[q][x]
               \/ x \in SessionIds /\ IsSession(sessions'[q][x], Given(x)', delayed)
    <3>1. CASE q = AdminProxy /\ x = sid
      BY <1>2, <1>7, <1>8, <1>9, <3>1
    <3>2. CASE ~(q = AdminProxy /\ x = sid)
      BY <1>9, <3>2
    <3> QED
      BY <3>1, <3>2
  <2> QED
    BY <1>4, <1>5, <1>7, <1>9, <1>10, <2>1, SessionsStayGood
<1>12. Placed'
  <2>1. Admin \in DOMAIN route
    BY <1>1 DEF Placed
  <2> QED
    BY <1>5, <1>6, <1>9, <2>1 DEF Placed
<1>13. About(e)
  <2>1. \A i : i[1] # e => (i \in credited') = (i \in credited)
    BY <1>2, <1>3
  <2> QED
    BY <1>2, <1>4, <1>5, <1>6, <1>9, <2>1 DEF About
<1>14. EpisodePlaced(e) /\ EpisodeCredited(e)
  BY DEF EpisodesGood
<1>15. EpisodesGood'
  <2>1. EpisodePlaced(e)'
    BY <1>1, <1>2, <1>4, <1>5, <1>6, <1>9, <1>14 DEF EpisodePlaced, Known
  <2>2. EpisodeCredited(e)'
    <3>1. CASE episode[e].lost
      BY <1>4, <3>1 DEF EpisodeCredited
    <3>2. CASE ~episode[e].lost
      <4>1. Uncut(s, Credited(e)) \/ Cut(s, Credited(e))
        BY <1>1, <1>14, <3>2 DEF EpisodeCredited, s, sid
      <4>2. Credited(e)' = Credited(e) \cup (s.active \cap complete)
        BY <1>2, <1>3 DEF Credited
      <4>3. Uncut(t, Credited(e)') \/ Cut(t, Credited(e)')
        <5>1. CASE s.active = {}
          BY <1>8, <4>1, <4>2, <5>1 DEF Uncut, Cut
        <5>2. CASE s.active # {} /\ ~delayed
          BY <1>8, <4>1, <4>2, <5>2 DEF Uncut, Cut
        <5>3. CASE s.active # {} /\ delayed
          BY <1>8, <4>1, <4>2, <5>3 DEF Uncut, Cut
        <5> QED
          BY <5>1, <5>2, <5>3
      <4> QED
        BY <1>4, <1>5, <1>6, <1>9, <4>3 DEF EpisodeCredited, Uncut, Cut, Latest
    <3> QED
      BY <3>1, <3>2
  <2> QED
    BY <1>13, <2>1, <2>2, OtherEpisodes
<1>16. FewLeft'
  <2>1. \A x \in Sids : x[1] = e =>
              /\ Left(e, x)' => Left(e, x) \/ x \in {}
              /\ LeftListed(e, x)' => LeftListed(e, x) \/ x \in {}
    BY <1>1, <1>4, <1>5, <1>6, <1>9 DEF Left, LeftListed, Served, Listed, sid
  <2>2. SessionsLeft' \subseteq SessionsLeft \cup {} /\ GroupsLeft' \subseteq GroupsLeft \cup {}
    BY <1>11, <1>12, <1>13, <2>1, LeavesBehind
  <2>3. faults' = faults \/ faults' = faults + 1
    BY <1>4, FaultCounted
  <2> QED
    BY <1>10, <2>2, <2>3, FewStayFew
<1>17. \A p \in Proxies : Hitl \notin DOMAIN sessions'[p]
  BY <1>1, <1>9 DEF ModesApart, Known
<1> QED
  BY <1>1, <1>3, <1>4, <1>10, <1>11, <1>12, <1>15, <1>16, <1>17, AgentStep

\* What an export returns was in the trajectory, and is no longer.
LEMMA ExportedIs ==
    ASSUME SessionsGood, NEW p \in Proxies, NEW sid, NEW tid
    PROVE  /\ Exported(p, sid, tid) # {} =>
                 /\ Known(p, sid) /\ tid \in DOMAIN sessions[p][sid].ready
                 /\ Exported(p, sid, tid) = sessions[p][sid].ready[tid].content \cap complete
           /\ Known(p, sid) => Exported(p, sid, tid) \subseteq Given(sid)
           /\ Known(p, sid) => Exported(p, sid, tid) \subseteq Holds(sessions[p][sid])
<1>1. CASE Known(p, sid) /\ tid \in DOMAIN sessions[p][sid].ready
  <2>1. IsSession(sessions[p][sid], Given(sid), delayed)
    BY <1>1 DEF SessionsGood, Known
  <2>2. sessions[p][sid].ready[tid].content \subseteq Holds(sessions[p][sid])
    BY <1>1 DEF Holds
  <2>3. Holds(sessions[p][sid]) \subseteq Given(sid)
    BY <2>1, SessionHolds
  <2>4. Exported(p, sid, tid) = sessions[p][sid].ready[tid].content \cap complete
    BY <1>1 DEF Exported
  <2> QED
    BY <1>1, <2>2, <2>3, <2>4
<1>2. CASE ~(Known(p, sid) /\ tid \in DOMAIN sessions[p][sid].ready)
  BY <1>2 DEF Exported
<1> QED
  BY <1>1, <1>2

\* The session goes to the result of its episode, or is lost with the answer.
LEMMA ExportEpisodeKeeps ==
    ASSUME ServiceInv, NEW e \in Episodes, ExportEpisode(e)
    PROVE  ServiceInv'
<1> USE DEF ServiceInv, TypesInv, SessionsInv
<1> DEFINE sid == episode[e].sid
<1>1. mode = "agent" /\ episode[e].pc = "export"
  BY DEF ExportEpisode, At
<1>2. sid \in Sids /\ sid[1] = e /\ sid \in SessionIds
  BY EpisodeIs DEF SessionIds
<1>3. EpisodePlaced(e) /\ EpisodeCredited(e)
  BY DEF EpisodesGood
<1>4. PICK p \in Proxies :
         /\ Serves(p, sid) /\ Export(p, sid)
         /\ \/ /\ episode' = [episode EXCEPT ![e].pc = "revoke",
                     ![e].result = IF Known(p, sid)
                                   THEN Exported(p, sid, Latest(sessions[p][sid]))
                                   ELSE {}]
               /\ UNCHANGED faults
            \/ Fault /\ episode' = [episode EXCEPT ![e].lost = TRUE]
  BY DEF ExportEpisode
<1> DEFINE out == IF Known(p, sid) THEN Exported(p, sid, Latest(sessions[p][sid])) ELSE {}
<1>5. out \subseteq {e} \X (1..MaxCalls)
  <2>1. Given(sid) \subseteq {e} \X (1..MaxCalls)
    BY <1>2, GivenIsTyped, NamesDiffer DEF GivenTyped
  <2>2. CASE Known(p, sid)
    BY <2>1, <2>2, ExportedIs
  <2>3. CASE ~Known(p, sid)
    BY <2>3
  <2> QED
    BY <2>2, <2>3
<1>6. AdminProxy \in Proxies /\ (sid \in groups => p = AdminProxy)
  BY <1>4 DEF Placed, Serves
<1>7. \/ p = AdminProxy
      \/ p # AdminProxy /\ sid \notin DOMAIN sessions[AdminProxy]
         /\ DOMAIN sessions[p] = {}
  BY <1>1, <1>3, <1>6 DEF EpisodePlaced, Known, Placed
<1>8. UNCHANGED <<mode, delayed, userVars, routerVars, complete, credited, flush, onlineVars>>
  BY DEF ExportEpisode
<1>9. /\ Store'
      /\ DOMAIN sessions'[p] = DOMAIN sessions[p] \ {sid}
      /\ \A x \in DOMAIN sessions'[p] : sessions'[p][x] = sessions[p][x]
      /\ \A q \in Proxies : q # p => sessions'[q] = sessions[q]
  BY <1>4, ExportIs DEF SessionsGood
<1>10. \/ /\ faults' = faults /\ EpisodesTyped'
          /\ episode'[e].pc = "revoke" /\ episode'[e].sid = sid
          /\ episode'[e].proxy = episode[e].proxy /\ episode'[e].lost = episode[e].lost
          /\ episode'[e].calls = episode[e].calls /\ episode'[e].result = out
          /\ \A x \in Episodes : x # e => episode'[x] = episode[x]
       \/ /\ Fault /\ EpisodesTyped'
          /\ episode'[e].pc = "export" /\ episode'[e].sid = sid
          /\ episode'[e].proxy = episode[e].proxy /\ episode'[e].lost = TRUE
          /\ episode'[e].calls = episode[e].calls
          /\ \A x \in Episodes : x # e => episode'[x] = episode[x]
  <2>1. CASE /\ episode' = [episode EXCEPT ![e].pc = "revoke", ![e].result = out]
             /\ UNCHANGED faults
    <3> HIDE DEF out
    <3> DEFINE r == [episode[e] EXCEPT !.pc = "revoke", !.result = out]
    <3>1. out \subseteq Interactions
      BY <1>5 DEF Interactions
    <3>2. episode[e] \in EpisodeType
      BY EpisodeIs
    <3>3. /\ r \in EpisodeType /\ r.pc = "revoke" /\ r.sid = sid
          /\ r.proxy = episode[e].proxy /\ r.lost = episode[e].lost
          /\ r.calls = episode[e].calls /\ r.result = out
      BY <3>1, <3>2 DEF EpisodeType, EpisodePcs
    <3>4. episode' = [episode EXCEPT ![e] = r]
      BY <2>1
    <3> HIDE DEF r
    <3>5. r.sid[1] = e /\ r.result \subseteq {e} \X (1..MaxCalls)
      BY <1>2, <1>5, <3>3
    <3>6. EpisodesTyped' /\ episode'[e] = r
          /\ \A x \in Episodes : x # e => episode'[x] = episode[x]
      BY <3>3, <3>4, <3>5, EpisodeSet
    <3> QED
      BY <2>1, <3>3, <3>6
  <2>2. CASE Fault /\ episode' = [episode EXCEPT ![e].lost = TRUE]
    <3> DEFINE r == [episode[e] EXCEPT !.lost = TRUE]
    <3>1. episode[e] \in EpisodeType
      BY EpisodeIs
    <3>2. /\ r \in EpisodeType /\ r.pc = episode[e].pc /\ r.sid = sid
          /\ r.proxy = episode[e].proxy /\ r.lost = TRUE
          /\ r.calls = episode[e].calls /\ r.result = episode[e].result
      BY <3>1 DEF EpisodeType
    <3>3. episode' = [episode EXCEPT ![e] = r]
      BY <2>2
    <3> HIDE DEF r
    <3>4. r.sid[1] = e /\ r.result \subseteq {e} \X (1..MaxCalls)
      BY <1>2, <3>2, EpisodeIs
    <3>5. EpisodesTyped' /\ episode'[e] = r
          /\ \A x \in Episodes : x # e => episode'[x] = episode[x]
      BY <3>2, <3>3, <3>4, EpisodeSet
    <3> QED
      BY <1>1, <2>2, <3>2, <3>5
  <2> QED
    BY <1>4, <2>1, <2>2
<1>11. /\ EpisodesTyped' /\ episode'[e].sid = sid
       /\ episode'[e].calls = episode[e].calls /\ episode'[e].proxy = episode[e].proxy
       /\ \A x \in Episodes : x # e => episode'[x] = episode[x]
       /\ faults' = faults \/ Fault
  BY <1>10
<1>12. /\ route' = route /\ groups' = groups /\ picked' = picked /\ complete' = complete
       /\ calls' = calls /\ asked' = asked /\ delayed' = delayed /\ mode' = mode
       /\ credited' = credited
  BY <1>8 DEF routerVars, userVars
<1>13. AdminProxy' = AdminProxy
  BY <1>12 DEF AdminProxy
<1>14. \A x \in SessionIds : Given(x)' = Given(x)
  BY <1>11, <1>12 DEF Given, Issued, Owner, SessionIds, Sids
<1>15. CountersTyped'
  BY <1>11, <1>12, FaultCounted DEF CountersTyped
<1> HIDE DEF sid, out
<1>16. /\ \A q \in Proxies : /\ DOMAIN sessions'[q] \subseteq DOMAIN sessions[q]
                             /\ \A x \in DOMAIN sessions'[q] : sessions'[q][x] = sessions[q][x]
       /\ DOMAIN sessions'[AdminProxy] = DOMAIN sessions[AdminProxy] \ {sid}
  BY <1>6, <1>7, <1>9
<1>17. SessionsGood'
  BY <1>9, <1>11, <1>12, <1>14, <1>15, <1>16, SessionsStayGood
<1>18. Placed'
  <2>1. Admin \in DOMAIN route
    BY <1>1 DEF Placed
  <2>2. \A q \in Proxies \ {AdminProxy} : DOMAIN sessions'[q] = {}
    BY <1>16 DEF Placed
  <2> QED
    BY <1>6, <1>12, <1>13, <2>1, <2>2 DEF Placed
<1>19. About(e)
  <2>1. ASSUME NEW x \in Sids, x[1] # e
        PROVE  /\ (x \in DOMAIN sessions'[AdminProxy]) = (x \in DOMAIN sessions[AdminProxy])
               /\ x \in DOMAIN sessions[AdminProxy] =>
                     sessions'[AdminProxy][x] = sessions[AdminProxy][x]
    <3>1. x # sid
      BY <1>2, <2>1
    <3> QED
      BY <1>6, <1>16, <3>1
  <2> QED
    BY <1>11, <1>12, <1>13, <2>1 DEF About
<1>20. EpisodesGood'
  <2>1. EpisodePlaced(e)'
    BY <1>1, <1>3, <1>10, <1>12, <1>13, <1>16 DEF EpisodePlaced, Known
  <2>2. EpisodeCredited(e)'
    <3>1. CASE episode'[e].pc = "export" /\ episode'[e].lost
      BY <3>1 DEF EpisodeCredited
    <3>2. CASE /\ episode'[e].pc = "revoke" /\ episode'[e].result = out
               /\ episode'[e].lost = episode[e].lost
      <4>1. CASE episode[e].lost
        BY <3>2, <4>1 DEF EpisodeCredited
      <4>2. CASE ~episode[e].lost
        <5> DEFINE s == sessions[AdminProxy][sid]
        <5>1. sid \in DOMAIN sessions[AdminProxy] /\ p = AdminProxy
          BY <1>1, <1>3, <1>6, <1>7, <4>2 DEF EpisodePlaced, Known, sid
        <5>2. Uncut(s, Credited(e)) \/ Cut(s, Credited(e))
          BY <1>1, <1>3, <4>2 DEF EpisodeCredited, sid
        <5>3. Credited(e) \subseteq complete /\ Credited(e)' = Credited(e)
          BY <1>12 DEF CountersTyped, Credited
        <5>4. out = Exported(AdminProxy, sid, Latest(s))
          BY <5>1 DEF out, Known
        <5>5. CASE Cut(s, Credited(e))
          <6>1. Credited(e) \subseteq out
            BY <5>1, <5>3, <5>4, <5>5 DEF Cut, Exported, Known
          <6> QED
            BY <3>2, <5>3, <6>1 DEF EpisodeCredited
        <5>6. CASE Uncut(s, Credited(e))
          <6>1. IsSession(s, Given(sid), delayed)
            BY <5>1 DEF SessionsGood
          <6>2. Latest(s) \notin DOMAIN s.ready
            BY <5>6, <6>1 DEF IsSession, Uncut, Latest
          <6>3. out = {}
            BY <5>4, <6>2 DEF Exported
          <6> QED
            BY <1>12, <3>2, <5>3, <5>6, <6>3 DEF EpisodeCredited, Uncut
        <5> QED
          BY <5>2, <5>5, <5>6
      <4> QED
        BY <4>1, <4>2
    <3> QED
      BY <1>10, <3>1, <3>2
  <2> QED
    BY <1>19, <2>1, <2>2, OtherEpisodes
<1>21. FewLeft'
  <2>1. \A x \in Sids : x[1] = e =>
              /\ Left(e, x)' => Left(e, x) \/ x \in {}
              /\ LeftListed(e, x)' => LeftListed(e, x) \/ x \in {}
    <3> SUFFICES ASSUME NEW x \in Sids
                 PROVE  /\ Left(e, x)' => Left(e, x)
                        /\ LeftListed(e, x)' => LeftListed(e, x)
      OBVIOUS
    <3>1. Left(e, x)' => Left(e, x)
      BY <1>1, <1>13, <1>16 DEF Left, sid
    <3>2. LeftListed(e, x)' => LeftListed(e, x)
      BY <1>1, <1>10, <1>12 DEF LeftListed, Listed, sid
    <3> QED
      BY <3>1, <3>2
  <2>2. SessionsLeft' \subseteq SessionsLeft \cup {} /\ GroupsLeft' \subseteq GroupsLeft \cup {}
    BY <1>17, <1>18, <1>19, <2>1, LeavesBehind
  <2>3. faults' = faults \/ faults' = faults + 1
    BY <1>11, FaultCounted
  <2> QED
    BY <1>15, <2>2, <2>3, FewStayFew
<1>22. \A q \in Proxies : Hitl \notin DOMAIN sessions'[q]
  BY <1>1, <1>16 DEF ModesApart, Known
<1> QED
  BY <1>1, <1>8, <1>11, <1>15, <1>17, <1>18, <1>20, <1>21, <1>22, AgentStep

\* The group goes, or is left behind when the router was not reached.
LEMMA RevokeKeeps ==
    ASSUME ServiceInv, NEW e \in Episodes, Revoke(e)
    PROVE  ServiceInv'
<1> USE DEF ServiceInv, TypesInv, SessionsInv
<1> DEFINE sid == episode[e].sid
<1>1. /\ mode = "agent" /\ episode[e].pc = "revoke"
      /\ UNCHANGED <<mode, delayed, userVars, proxyVars, onlineVars>>
  BY DEF Revoke, At
<1>2. sid \in Sids /\ sid[1] = e
  BY EpisodeIs
<1>3. EpisodePlaced(e) /\ EpisodeCredited(e) /\ AdminProxy \in Proxies /\ Admin \in DOMAIN route
  BY <1>1 DEF EpisodesGood, Placed
<1>4. /\ sessions' = sessions /\ complete' = complete /\ credited' = credited
      /\ calls' = calls /\ asked' = asked /\ delayed' = delayed /\ mode' = mode
  BY <1>1 DEF proxyVars, userVars
<1>5. /\ EpisodesTyped' /\ episode'[e].sid = sid
      /\ episode'[e].calls = episode[e].calls /\ episode'[e].proxy = episode[e].proxy
      /\ \A x \in Episodes : x # e => episode'[x] = episode[x]
      /\ \/ /\ episode'[e].pc = "done" /\ episode'[e].lost = episode[e].lost
            /\ episode'[e].result = episode[e].result
            /\ \/ RevokeGroup(sid) /\ faults' = faults
               \/ UNCHANGED routerVars /\ Fault
         \/ /\ episode'[e].pc = "export" /\ episode'[e].lost = TRUE
            /\ RevokeGroup(sid) /\ Fault
  <2>1. CASE RevokeGroup(sid) /\ Moves(e, "done") /\ UNCHANGED faults
    BY <2>1, EpisodeMoves DEF EpisodePcs
  <2>2. CASE UNCHANGED routerVars /\ Moves(e, "done") /\ Fault
    BY <2>2, EpisodeMoves DEF EpisodePcs
  <2>3. CASE /\ RevokeGroup(sid) /\ Fault
             /\ episode' = [episode EXCEPT ![e].pc = "export", ![e].lost = TRUE]
    <3> DEFINE r == [episode[e] EXCEPT !.pc = "export", !.lost = TRUE]
    <3>1. episode[e] \in EpisodeType
      BY EpisodeIs
    <3>2. /\ r \in EpisodeType /\ r.pc = "export" /\ r.sid = sid
          /\ r.proxy = episode[e].proxy /\ r.lost = TRUE
          /\ r.calls = episode[e].calls /\ r.result = episode[e].result
      BY <3>1 DEF EpisodeType, EpisodePcs
    <3>3. episode' = [episode EXCEPT ![e] = r]
      BY <2>3
    <3> HIDE DEF r
    <3>4. r.sid[1] = e /\ r.result \subseteq {e} \X (1..MaxCalls)
      BY <1>2, <3>2, EpisodeIs
    <3>5. EpisodesTyped' /\ episode'[e] = r
          /\ \A x \in Episodes : x # e => episode'[x] = episode[x]
      BY <3>2, <3>3, <3>4, EpisodeSet
    <3> QED
      BY <2>3, <3>2, <3>5
  <2> QED
    BY <2>1, <2>2, <2>3 DEF Revoke
<1> HIDE DEF sid
<1>6. /\ picked' = picked /\ groups' \subseteq groups
      /\ \A x \in groups : x # sid => x \in groups'
      /\ DOMAIN route' = groups' \cup {Admin, Hitl}
      /\ \A key \in DOMAIN route' : key \in DOMAIN route /\ route'[key] = route[key]
  <2>1. DOMAIN route = groups \cup {Admin, Hitl}
    BY <1>3 DEF Placed
  <2>2. CASE RevokeGroup(sid)
    <3>1. Admin # sid /\ Hitl # sid
      BY <1>2, NamesDiffer
    <3>2. groups' = groups \ {sid} /\ picked' = picked
      BY <2>2 DEF RevokeGroup
    <3>3. CASE sid \in groups
      <4>1. route' = [x \in DOMAIN route \ {sid} |-> route[x]]
        BY <2>2, <3>3 DEF RevokeGroup, Without
      <4> QED
        BY <2>1, <3>1, <3>2, <4>1
    <3>4. CASE sid \notin groups
      <4>1. route' = route /\ groups' = groups
        BY <2>2, <3>2, <3>4 DEF RevokeGroup
      <4> QED
        BY <2>1, <3>2, <4>1
    <3> QED
      BY <3>3, <3>4
  <2>3. CASE UNCHANGED routerVars
    BY <2>1, <2>3 DEF routerVars
  <2> QED
    BY <1>5, <2>2, <2>3
<1>7. AdminProxy' = AdminProxy /\ Admin \in DOMAIN route'
  BY <1>3, <1>6 DEF AdminProxy
<1>8. CountersTyped'
  BY <1>4, <1>5, FaultCounted DEF CountersTyped
<1>9. SessionsGood'
  <2>1. ASSUME NEW x \in SessionIds PROVE Given(x)' = Given(x)
    BY <1>4, <1>5 DEF Given, Issued, Owner, SessionIds, Sids
  <2> QED
    BY <1>4, <1>5, <1>8, <2>1, SessionsStayGood DEF SessionsGood, Store
<1>10. Placed'
  <2>1. \A key \in DOMAIN route' : route'[key] = AdminProxy
    BY <1>6 DEF Placed
  <2> QED
    BY <1>3, <1>4, <1>6, <1>7, <2>1 DEF Placed
<1>11. About(e)
  <2>1. \A x \in Sids : x[1] # e => (x \in groups') = (x \in groups)
    BY <1>2, <1>6
  <2> QED
    BY <1>4, <1>5, <1>7, <2>1 DEF About
<1>12. EpisodesGood'
  <2>1. EpisodePlaced(e)'
    BY <1>1, <1>3, <1>4, <1>5, <1>7 DEF EpisodePlaced, Known, sid
  <2>2. EpisodeCredited(e)'
    BY <1>1, <1>3, <1>4, <1>5 DEF EpisodeCredited, Credited
  <2> QED
    BY <1>11, <2>1, <2>2, OtherEpisodes
<1>13. ASSUME NEW x \in Sids PROVE Left(e, x)' => Left(e, x)
  BY <1>1, <1>4, <1>7 DEF Left, Served
<1>14. FewLeft'
  <2>1. CASE RevokeGroup(sid)
    <3>1. \A x \in Sids : x[1] = e =>
                /\ Left(e, x)' => Left(e, x) \/ x \in {}
                /\ LeftListed(e, x)' => LeftListed(e, x) \/ x \in {}
      BY <1>5, <1>13, <2>1 DEF LeftListed, RevokeGroup, sid
    <3>2. SessionsLeft' \subseteq SessionsLeft \cup {} /\ GroupsLeft' \subseteq GroupsLeft \cup {}
      BY <1>9, <1>10, <1>11, <3>1, LeavesBehind
    <3>3. faults' = faults \/ faults' = faults + 1
      BY <1>5, FaultCounted
    <3> QED
      BY <1>8, <3>2, <3>3, FewStayFew
  <2>2. CASE UNCHANGED routerVars /\ Fault
    <3>1. \A x \in Sids : x[1] = e =>
                /\ Left(e, x)' => Left(e, x) \/ x \in {sid}
                /\ LeftListed(e, x)' => LeftListed(e, x) \/ x \in {sid}
      BY <1>5, <1>13, <2>2 DEF LeftListed, routerVars, sid
    <3>2. SessionsLeft' \subseteq SessionsLeft \cup {sid} /\ GroupsLeft' \subseteq GroupsLeft \cup {sid}
      BY <1>9, <1>10, <1>11, <3>1, LeavesBehind
    <3> QED
      BY <2>2, <3>2, FaultLeavesOne
  <2> QED
    BY <1>5, <2>1, <2>2
<1>15. \A p \in Proxies : Hitl \notin DOMAIN sessions'[p]
  BY <1>1, <1>4 DEF ModesApart, Known
<1> QED
  BY <1>1, <1>5, <1>8, <1>9, <1>10, <1>12, <1>14, <1>15, AgentStep DEF proxyVars

\* The steps of an episode keep the invariant.
LEMMA EpisodeKeeps ==
    ASSUME ServiceInv, NEW e \in Episodes, EpisodeStep(e)
    PROVE  ServiceInv'
BY RouteStartKeeps, CreateSessionKeeps, RegisterKeeps, AskKeeps, AnswerKeeps, AgentEndsKeeps,
   RewardEpisodeKeeps, ExportEpisodeKeeps, RevokeKeeps
   DEF EpisodeStep

-----------------------------------------------------------------------------
(* The steps of a proxy. *)

\* What the step of a proxy leaves of a session: its trajectories, or one more that
\* had its reward.
Kept(s, r) ==
    /\ r.active = s.active /\ r.next = s.next /\ r.rewarded = s.rewarded
    /\ DOMAIN r.ready = DOMAIN s.ready
    /\ \A t \in DOMAIN s.ready : r.ready[t].content = s.ready[t].content
Closed(s, r) ==
    /\ delayed /\ s.rewarded /\ s.active # {}
    /\ r.active = {} /\ Latest(r) \in DOMAIN r.ready
    /\ r.ready[Latest(r)].content = s.active
SameTrajectories(s, r) == Holds(r) = Holds(s) /\ (Kept(s, r) \/ Closed(s, r))

\* A session that does not change has the same trajectories.
LEMMA SameIsSame == ASSUME NEW s PROVE SameTrajectories(s, s)
BY DEF SameTrajectories, Kept

\* What was credited stays in the trajectory it is in, or is closed with it.
LEMMA SameCredit ==
    ASSUME NEW s, NEW r, SameTrajectories(s, r), NEW C
    PROVE  /\ Fresh(s) => Fresh(r)
           /\ Uncut(s, C) \/ Cut(s, C) => Uncut(r, C) \/ Cut(r, C)
<1>1. CASE Kept(s, r)
  <2>1. Latest(r) = Latest(s)
    BY <1>1 DEF Kept, Latest
  <2> QED
    BY <1>1, <2>1 DEF Kept, Fresh, Uncut, Cut
<1>2. CASE Closed(s, r)
  BY <1>2 DEF Closed, Fresh, Uncut, Cut
<1> QED
  BY <1>1, <1>2 DEF SameTrajectories

\* A step of a proxy that changes no trajectory, only what was told of it, or closes
\* one that delays its reward.
LEMMA ProxyFrame ==
    ASSUME ServiceInv,
           UNCHANGED <<mode, delayed, episode, userVars, routerVars, complete, credited>>,
           Store', \A q \in Proxies : DOMAIN sessions'[q] = DOMAIN sessions[q],
           \A q \in Proxies : \A x \in DOMAIN sessions[q] :
              /\ IsSession(sessions'[q][x], Given(x), delayed)
              /\ SameTrajectories(sessions[q][x], sessions'[q][x]),
           WaitersTyped', FlushTyped', QueuesGood', faults' = faults \/ Fault,
           \A o \in Waiters : waiter'[o].result = waiter[o].result,
           mode = "agent" => waiter' = waiter
    PROVE  ServiceInv'
<1> USE DEF ServiceInv, TypesInv, SessionsInv
<1>1. /\ calls' = calls /\ asked' = asked /\ route' = route /\ groups' = groups
      /\ picked' = picked
  BY DEF userVars, routerVars
<1>2. AdminProxy' = AdminProxy
  BY <1>1 DEF AdminProxy
<1>3. EpisodesTyped'
  BY DEF EpisodesTyped
<1>4. CountersTyped'
  BY <1>1, FaultCounted DEF CountersTyped
<1>5. \A x : Given(x)' = Given(x)
  BY <1>1 DEF Given, Issued, Owner
<1>6. SessionsGood'
  BY <1>5 DEF SessionsGood
<1>7. ModesApart'
  BY <1>1 DEF ModesApart, Known
<1>8. Placed'
  BY <1>1, <1>2 DEF Placed
<1>9. EpisodesGood'
  <2> SUFFICES ASSUME NEW e \in Episodes
               PROVE  EpisodePlaced(e)' /\ EpisodeCredited(e)'
    BY DEF EpisodesGood
  <2> DEFINE sid == episode[e].sid
             s == sessions[AdminProxy][sid]
  <2>1. EpisodePlaced(e) /\ EpisodeCredited(e) /\ AdminProxy \in Proxies
    BY DEF EpisodesGood, Placed
  <2>2. EpisodePlaced(e)'
    BY <1>1, <1>2, <2>1 DEF EpisodePlaced, Known
  <2>3. Credited(e)' = Credited(e)
    BY DEF Credited
  <2>4. CASE \/ episode[e].pc \in {"register", "agent", "asked", "reward"}
             \/ episode[e].pc = "export" /\ ~episode[e].lost
    <3> DEFINE r == sessions'[AdminProxy][sid]
    <3>1. sid \in DOMAIN sessions[AdminProxy]
      BY <2>1, <2>4 DEF EpisodePlaced, Known
    <3>2. SameTrajectories(s, r)
      BY <2>1, <3>1
    <3>3. /\ Fresh(s) => Fresh(r)
          /\ Uncut(s, Credited(e)) \/ Cut(s, Credited(e)) =>
                Uncut(r, Credited(e)) \/ Cut(r, Credited(e))
      BY <3>2, SameCredit
    <3> QED
      BY <1>2, <2>1, <2>2, <2>3, <2>4, <3>3 DEF EpisodeCredited, Fresh, Uncut, Cut, Latest
  <2>5. CASE ~(\/ episode[e].pc \in {"register", "agent", "asked", "reward"}
               \/ episode[e].pc = "export" /\ ~episode[e].lost)
    BY <1>2, <2>1, <2>2, <2>3, <2>5 DEF EpisodeCredited
  <2> QED
    BY <2>4, <2>5
<1>10. OnlineApart'
  <2> SUFFICES ASSUME mode # "agent" PROVE OnlineApart'
    BY DEF OnlineApart
  <2>1. ASSUME NEW o \in Waiters, NEW p \in Proxies, Hitl \in DOMAIN sessions[p]
        PROVE  Holds(sessions'[p][Hitl]) \cap waiter'[o].result = {}
    <3>1. Holds(sessions'[p][Hitl]) = Holds(sessions[p][Hitl])
      BY <2>1 DEF SameTrajectories
    <3> QED
      BY <2>1, <3>1 DEF OnlineApart, Known
  <2> QED
    BY <1>5, <2>1 DEF OnlineApart, Known
<1>11. FewLeft'
  <2>1. AllSessions' = AllSessions
    BY DEF AllSessions
  <2>2. SessionsLeft' \subseteq SessionsLeft /\ GroupsLeft' \subseteq GroupsLeft
    BY <1>1, <2>1 DEF SessionsLeft, GroupsLeft, SidsOf
  <2>3. faults' = faults \/ faults' = faults + 1
    BY FaultCounted
  <2> QED
    BY <1>4, <2>2, <2>3, FewStayFew
<1> QED
  BY <1>3, <1>4, <1>6, <1>7, <1>8, <1>9, <1>10, <1>11

\* A rewarded trajectory is closed when its delay is over.
LEMMA FinalizeKeeps ==
    ASSUME ServiceInv, NEW p \in Proxies, Finalize(p)
    PROVE  ServiceInv'
<1> USE DEF ServiceInv, TypesInv, SessionsInv
<1>1. PICK sid \in DOMAIN sessions[p] :
         /\ sessions[p][sid].rewarded
         /\ Change(p, sid, MarkReady(sessions[p][sid]))
         /\ UNCHANGED <<mode, delayed, episode, userVars, routerVars, complete,
                        credited, flush, onlineVars, faults>>
  BY DEF Finalize
<1>2. sid \in SessionIds /\ IsSession(sessions[p][sid], Given(sid), delayed)
  BY DEF SessionsGood
<1>3. delayed /\ sessions[p][sid].active # {}
  BY <1>1, <1>2 DEF IsSession
<1>4. IsFiniteSet(Given(sid))
  BY <1>2, GivenIsTyped DEF GivenTyped
<1> DEFINE m == MarkReady(sessions[p][sid])
<1>5. /\ IsSession(m, Given(sid), delayed) /\ Holds(m) = Holds(sessions[p][sid])
      /\ m.active = {} /\ Latest(m) \in DOMAIN m.ready
      /\ m.ready[Latest(m)].content = sessions[p][sid].active
  BY <1>2, <1>3, <1>4, MarkReadyIs
<1>6. SameTrajectories(sessions[p][sid], m)
  BY <1>1, <1>3, <1>5 DEF SameTrajectories, Closed
<1> HIDE DEF m
<1>7. /\ Store'
      /\ DOMAIN sessions'[p] = DOMAIN sessions[p]
      /\ sessions'[p][sid] = m
      /\ \A x \in DOMAIN sessions[p] : x # sid => sessions'[p][x] = sessions[p][x]
      /\ \A q \in Proxies : q # p => sessions'[q] = sessions[q]
  BY <1>1, SessionReplaced DEF SessionsGood, m
<1>8. ASSUME NEW q \in Proxies, NEW x \in DOMAIN sessions[q]
      PROVE  /\ IsSession(sessions'[q][x], Given(x), delayed)
             /\ SameTrajectories(sessions[q][x], sessions'[q][x])
  <2>1. CASE q = p /\ x = sid
    BY <1>5, <1>6, <1>7, <2>1
  <2>2. CASE ~(q = p /\ x = sid)
    BY <1>7, <2>2, SameIsSame DEF SessionsGood
  <2> QED
    BY <2>1, <2>2
<1>9. WaitersTyped' /\ FlushTyped' /\ QueuesGood' /\ waiter' = waiter
  BY <1>1 DEF WaitersTyped, FlushTyped, QueuesGood, onlineVars
<1> QED
  BY <1>1, <1>7, <1>8, <1>9, ProxyFrame

\* A step that changes no session.
LEMMA SessionsUntouched ==
    ASSUME ServiceInv, sessions' = sessions
    PROVE  /\ Store' /\ \A q \in Proxies : DOMAIN sessions'[q] = DOMAIN sessions[q]
           /\ \A q \in Proxies : \A x \in DOMAIN sessions[q] :
                 /\ IsSession(sessions'[q][x], Given(x), delayed)
                 /\ SameTrajectories(sessions[q][x], sessions'[q][x])
BY SameIsSame DEF ServiceInv, SessionsInv, SessionsGood, Store

\* What is pending are trajectories the proxy has.
LEMMA FlushBeginsKeeps ==
    ASSUME ServiceInv, NEW p \in Proxies, FlushBegins(p)
    PROVE  ServiceInv'
<1> USE DEF ServiceInv, TypesInv, SessionsInv
<1>1. /\ flush' = [flush EXCEPT ![p] = [on |-> TRUE, pending |-> Untold(p), told |-> {}]]
      /\ UNCHANGED <<mode, delayed, episode, userVars, routerVars, sessions, complete,
                     credited, onlineVars, faults>>
  BY DEF FlushBegins
<1>2. Untold(p) \subseteq Notices
  <2> SUFFICES ASSUME NEW sid \in DOMAIN sessions[p],
                      NEW t \in DOMAIN sessions[p][sid].ready
               PROVE  <<sid, t>> \in Notices
    BY DEF Untold
  <2>1. sid \in SessionIds /\ IsSession(sessions[p][sid], Given(sid), delayed)
    BY DEF SessionsGood
  <2>2. Cardinality(Given(sid)) \in 0..MaxCalls
    BY <2>1, GivenIsTyped DEF GivenTyped
  <2>3. t \in 0..sessions[p][sid].next - 1
        /\ sessions[p][sid].next \in 0..Cardinality(Given(sid))
    BY <2>1 DEF IsSession
  <2>4. t \in 0..MaxCalls
    BY <2>2, <2>3, ServiceAssumption
  <2> QED
    BY <2>1, <2>4 DEF Notices
<1> DEFINE r == [on |-> TRUE, pending |-> Untold(p), told |-> {}]
<1>3. r \in FlushType /\ r.pending \cap r.told = {}
  BY <1>2 DEF FlushType
<1> HIDE DEF r
<1>4. FlushTyped'
  BY <1>1, <1>3 DEF FlushTyped, r
<1>5. WaitersTyped' /\ QueuesGood' /\ waiter' = waiter
  BY <1>1 DEF WaitersTyped, QueuesGood, onlineVars
<1> QED
  BY <1>1, <1>4, <1>5, SessionsUntouched, ProxyFrame

\* The first waiter is given the trajectory, or the list of results grows within
\* its bound.
LEMMA OnlineReadyIs ==
    ASSUME WaitersTyped, QueuesGood, NEW n \in Notices, OnlineReady(n)
    PROVE  /\ WaitersTyped' /\ QueuesGood'
           /\ \A o \in Waiters : waiter'[o].result = waiter[o].result
           /\ (\A o \in Waiters : waiter[o].pc = "idle") => waiter' = waiter
<1>1. CASE waiting = <<>>
  <2>1. /\ completed' = IF Len(completed) < MaxCompleted THEN Append(completed, n)
                        ELSE Append(Tail(completed), n)
        /\ UNCHANGED <<waiter, waiting>>
    BY <1>1 DEF OnlineReady
  <2>2. completed' \in Seq(Notices) /\ Len(completed') <= MaxCompleted
    <3>1. completed \in Seq(Notices) /\ Len(completed) <= MaxCompleted /\ Len(completed) \in Nat
          /\ MaxCompleted \in Nat \ {0}
      BY ServiceAssumption, LenProperties DEF QueuesGood
    <3>2. CASE Len(completed) < MaxCompleted
      BY <2>1, <3>1, <3>2
    <3>3. CASE ~(Len(completed) < MaxCompleted)
      <4>1. completed # <<>>
        BY <3>1, <3>3
      <4>2. Tail(completed) \in Seq(Notices) /\ Len(Tail(completed)) = Len(completed) - 1
        BY <3>1, <4>1, HeadTailProperties
      <4> QED
        BY <2>1, <3>1, <3>3, <4>2
    <3> QED
      BY <3>2, <3>3
  <2> QED
    BY <2>1, <2>2 DEF WaitersTyped, QueuesGood
<1>2. CASE waiting # <<>>
  <2> DEFINE h == Head(waiting)
  <2>1. /\ waiter' = [waiter EXCEPT ![h].pc = "given", ![h].request = n]
        /\ waiting' = Tail(waiting) /\ UNCHANGED completed
    BY <1>2 DEF OnlineReady
  <2>2. /\ h \in Waiters /\ Tail(waiting) \in Seq(Waiters)
        /\ ToSet(waiting) = ToSet(Tail(waiting)) \cup {h}
        /\ IsInjective(Tail(waiting)) /\ h \notin ToSet(Tail(waiting))
    BY <1>2, HeadTailProperties, TailElements DEF QueuesGood
  <2>3. waiter[h].pc = "waiting"
    BY <2>2 DEF QueuesGood
  <2> HIDE DEF h
  <2> DEFINE r == [waiter[h] EXCEPT !.pc = "given", !.request = n]
  <2>4. /\ r \in WaiterType /\ r.pc = "given" /\ r.result = waiter[h].result
    BY <2>2 DEF WaitersTyped, WaiterType
  <2>5. waiter' = [waiter EXCEPT ![h] = r]
    BY <2>1
  <2> HIDE DEF r
  <2>6. /\ WaitersTyped' /\ waiter'[h] = r
        /\ \A o \in Waiters : o # h => waiter'[o] = waiter[o]
    BY <2>2, <2>4, <2>5 DEF WaitersTyped
  <2>7. ASSUME NEW o \in Waiters
        PROVE  (waiter'[o].pc = "waiting") = (o \in ToSet(Tail(waiting)))
    BY <2>2, <2>4, <2>6 DEF QueuesGood
  <2>8. QueuesGood'
    BY <2>1, <2>2, <2>7 DEF QueuesGood
  <2> QED
    BY <2>2, <2>3, <2>4, <2>6, <2>8
<1> QED
  BY <1>1, <1>2

\* A notice reaches a waiting rollout, the list, or nobody.
LEMMA TellKeeps ==
    ASSUME ServiceInv, NEW p \in Proxies, NEW n, Tell(p, n)
    PROVE  ServiceInv'
<1> USE DEF ServiceInv, TypesInv, SessionsInv
<1>1. /\ n \in flush[p].pending
      /\ UNCHANGED <<mode, delayed, episode, userVars, routerVars, sessions, complete,
                     credited>>
  BY DEF Tell
<1>2. n \in Notices
  BY <1>1 DEF FlushTyped, FlushType
<1>3. OnlineReady(n) \/ UNCHANGED onlineVars
  BY DEF Tell
<1>4. /\ WaitersTyped' /\ QueuesGood'
      /\ \A o \in Waiters : waiter'[o].result = waiter[o].result
      /\ mode = "agent" => waiter' = waiter
  <2>1. CASE OnlineReady(n)
    BY <1>2, <2>1, OnlineReadyIs DEF ModesApart
  <2>2. CASE UNCHANGED onlineVars
    BY <2>2 DEF onlineVars, WaitersTyped, QueuesGood
  <2> QED
    BY <1>3, <2>1, <2>2
<1>5. FlushTyped' /\ (faults' = faults \/ Fault)
  <2>1. flush[p] \in FlushType /\ flush[p].pending \cap flush[p].told = {}
    BY DEF FlushTyped
  <2>2. CASE /\ flush' = [flush EXCEPT ![p].pending = @ \ {n}, ![p].told = @ \cup {n}]
             /\ UNCHANGED faults
    <3> DEFINE r == [flush[p] EXCEPT !.pending = @ \ {n}, !.told = @ \cup {n}]
    <3>1. r \in FlushType /\ r.pending \cap r.told = {}
      BY <1>2, <2>1 DEF FlushType
    <3>2. flush' = [flush EXCEPT ![p] = r]
      BY <2>2
    <3> HIDE DEF r
    <3> QED
      BY <2>2, <3>1, <3>2 DEF FlushTyped
  <2>3. CASE flush' = [flush EXCEPT ![p].pending = @ \ {n}] /\ Fault
    <3> DEFINE r == [flush[p] EXCEPT !.pending = @ \ {n}]
    <3>1. r \in FlushType /\ r.pending \cap r.told = {}
      BY <2>1 DEF FlushType
    <3>2. flush' = [flush EXCEPT ![p] = r]
      BY <2>3
    <3> HIDE DEF r
    <3> QED
      BY <2>3, <3>1, <3>2 DEF FlushTyped
  <2> QED
    BY <2>2, <2>3 DEF Tell
<1> QED
  BY <1>1, <1>4, <1>5, SessionsUntouched, ProxyFrame

\* A delivered trajectory keeps its content.
LEMMA DeliveredIs ==
    ASSUME NEW s, NEW X, NEW T, IsSession(s, X, delayed)
    PROVE  /\ IsSession(Delivered(s, T), X, delayed)
           /\ SameTrajectories(s, Delivered(s, T))
<1> DEFINE y == [t \in DOMAIN s.ready |->
                    IF t \in T THEN [content |-> s.ready[t].content, told |-> TRUE]
                    ELSE s.ready[t]]
           r == [s EXCEPT !.ready = y]
<1>1. s = [born |-> s.born, active |-> s.active, rewarded |-> s.rewarded,
           ready |-> s.ready, next |-> s.next]
  BY DEF IsSession
<1>2. ASSUME NEW t \in DOMAIN s.ready
      PROVE  y[t] \in [content : SUBSET X, told : BOOLEAN] /\ y[t].content = s.ready[t].content
  <2>1. s.ready[t] \in [content : SUBSET X, told : BOOLEAN]
    BY DEF IsSession
  <2> QED
    BY <2>1
<1>3. DOMAIN y = DOMAIN s.ready /\ y \in [DOMAIN s.ready -> [content : SUBSET X, told : BOOLEAN]]
  BY <1>2
<1> HIDE DEF y
<1>4. r = [born |-> s.born, active |-> s.active, rewarded |-> s.rewarded,
           ready |-> y, next |-> s.next]
  BY <1>1
<1>5. /\ r.active = s.active /\ r.ready = y /\ r.next = s.next /\ r.rewarded = s.rewarded
      /\ r = [born |-> r.born, active |-> r.active, rewarded |-> r.rewarded,
              ready |-> r.ready, next |-> r.next]
  BY <1>4
<1> HIDE DEF r
<1>6. IsSession(r, X, delayed)
  BY <1>2, <1>3, <1>5 DEF IsSession
<1>7. Holds(r) = Holds(s)
  BY <1>2, <1>3, <1>5 DEF Holds
<1>8. SameTrajectories(s, r)
  BY <1>2, <1>3, <1>5, <1>7 DEF SameTrajectories, Kept
<1> QED
  BY <1>6, <1>8 DEF r, y, Delivered

\* Trajectories are marked as told.
LEMMA FlushEndsKeeps ==
    ASSUME ServiceInv, NEW p \in Proxies, FlushEnds(p)
    PROVE  ServiceInv'
<1> USE DEF ServiceInv, TypesInv, SessionsInv
<1> DEFINE After(sid) ==
             Delivered(sessions[p][sid], {n[2] : n \in {m \in flush[p].told : m[1] = sid}})
<1>1. /\ flush' = [flush EXCEPT ![p].on = FALSE]
      /\ UNCHANGED <<mode, delayed, episode, userVars, routerVars, complete, credited,
                     onlineVars, faults>>
  BY DEF FlushEnds
<1>2. sessions' = [sessions EXCEPT ![p] = [sid \in DOMAIN sessions[p] |-> After(sid)]]
  BY DEF FlushEnds
<1>3. ASSUME NEW sid \in DOMAIN sessions[p]
      PROVE  /\ IsSession(After(sid), Given(sid), delayed)
             /\ SameTrajectories(sessions[p][sid], After(sid))
  <2>1. IsSession(sessions[p][sid], Given(sid), delayed)
    BY DEF SessionsGood
  <2> QED
    BY <2>1, DeliveredIs
<1> HIDE DEF After
<1>4. /\ Store' /\ \A q \in Proxies : DOMAIN sessions'[q] = DOMAIN sessions[q]
      /\ \A q \in Proxies : q # p => sessions'[q] = sessions[q]
      /\ \A sid \in DOMAIN sessions[p] : sessions'[p][sid] = After(sid)
  BY <1>2 DEF SessionsGood, Store
<1>5. ASSUME NEW q \in Proxies, NEW x \in DOMAIN sessions[q]
      PROVE  /\ IsSession(sessions'[q][x], Given(x), delayed)
             /\ SameTrajectories(sessions[q][x], sessions'[q][x])
  <2>1. CASE q = p
    BY <1>3, <1>4, <2>1
  <2>2. CASE q # p
    BY <1>4, <2>2, SameIsSame DEF SessionsGood
  <2> QED
    BY <2>1, <2>2
<1>6. FlushTyped'
  <2> DEFINE r == [flush[p] EXCEPT !.on = FALSE]
  <2>1. flush[p] \in FlushType /\ flush[p].pending \cap flush[p].told = {}
    BY DEF FlushTyped
  <2>2. r \in FlushType /\ r.pending \cap r.told = {}
    BY <2>1 DEF FlushType
  <2>3. flush' = [flush EXCEPT ![p] = r]
    BY <1>1
  <2> HIDE DEF r
  <2> QED
    BY <2>2, <2>3 DEF FlushTyped
<1>7. WaitersTyped' /\ QueuesGood' /\ waiter' = waiter
  BY <1>1 DEF WaitersTyped, QueuesGood, onlineVars
<1> QED
  BY <1>1, <1>4, <1>5, <1>6, <1>7, ProxyFrame

\* The steps of a proxy keep the invariant.
LEMMA ProxyKeeps ==
    ASSUME ServiceInv, NEW p \in Proxies, ProxyStep(p)
    PROVE  ServiceInv'
BY FinalizeKeeps, FlushBeginsKeeps, FlushEndsKeeps, TellKeeps DEF ProxyStep

-----------------------------------------------------------------------------
(* The steps of the user and of the rollouts that wait for the user. *)

LEMMA UserFrame ==
    ASSUME ServiceInv, mode # "agent", UNCHANGED <<mode, delayed, episode, groups>>,
           WaitersTyped', FlushTyped', CountersTyped', QueuesGood', Placed', OnlineApart',
           Store', AdminProxy' = AdminProxy,
           \A p \in Proxies : DOMAIN sessions'[p] \subseteq {Hitl},
           \A p \in Proxies : Hitl \in DOMAIN sessions'[p] =>
              \/ Hitl \in DOMAIN sessions[p] /\ sessions'[p][Hitl] = sessions[p][Hitl]
              \/ IsSession(sessions'[p][Hitl], Given(Hitl)', delayed),
           Given(Hitl) \subseteq Given(Hitl)',
           \A i \in credited' : i \in credited \/ i[1] = User
    PROVE  ServiceInv'
<1> USE DEF ServiceInv, TypesInv, SessionsInv
<1>1. EpisodesTyped'
  BY DEF EpisodesTyped
<1>2. SessionsGood'
  <2> SUFFICES ASSUME NEW p \in Proxies, Hitl \in DOMAIN sessions'[p]
               PROVE  Hitl \in SessionIds /\ IsSession(sessions'[p][Hitl], Given(Hitl)', delayed')
    BY DEF SessionsGood
  <2>1. Hitl \in SessionIds
    BY DEF SessionIds
  <2>2. CASE Hitl \in DOMAIN sessions[p] /\ sessions'[p][Hitl] = sessions[p][Hitl]
    <3>1. GivenTyped'
      BY <1>1, GivenIsTyped, PTL
    <3>2. IsFiniteSet(Given(Hitl)')
      BY <2>1, <3>1 DEF GivenTyped
    <3>3. IsSession(sessions[p][Hitl], Given(Hitl), delayed)
      BY <2>2 DEF SessionsGood
    <3>4. IsSession(sessions[p][Hitl], Given(Hitl)', delayed)
      BY <3>2, <3>3, SessionGrows
    <3> QED
      BY <2>1, <2>2, <3>4
  <2>3. CASE IsSession(sessions'[p][Hitl], Given(Hitl)', delayed)
    BY <2>1, <2>3
  <2> QED
    BY <2>2, <2>3
<1>3. ModesApart'
  BY DEF ModesApart, Known
<1>4. EpisodesGood'
  <2> SUFFICES ASSUME NEW e \in Episodes PROVE EpisodePlaced(e)' /\ EpisodeCredited(e)'
    BY DEF EpisodesGood
  <2>1. episode[e].pc = "start" /\ episode'[e] = episode[e]
    BY DEF ModesApart
  <2>2. Credited(e) = {}
    BY <2>1 DEF EpisodesGood, EpisodeCredited
  <2>3. Credited(e)' = {}
    <3>1. e # User
      BY NamesDiffer
    <3> QED
      BY <2>2, <3>1 DEF Credited
  <2> QED
    BY <2>1, <2>3 DEF EpisodePlaced, EpisodeCredited
<1>5. FewLeft'
  <2>1. AllSessions' \subseteq {Hitl} /\ groups' = {}
    BY DEF AllSessions, ModesApart
  <2>2. SessionsLeft' = {} /\ GroupsLeft' = {}
    BY <2>1 DEF SessionsLeft, GroupsLeft
  <2>3. faults' \in Nat
    BY ServiceAssumption DEF CountersTyped
  <2>4. AtMost({}, faults')
    BY <2>3, FS_EmptySet DEF AtMost
  <2> QED
    BY <2>2, <2>4 DEF FewLeft
<1> QED
  BY <1>1, <1>2, <1>3, <1>4, <1>5

\* The session of the user, found or new.
LEMMA HitlSessionIs ==
    ASSUME ServiceInv, mode # "agent"
    PROVE  /\ IsFiniteSet(Given(Hitl)) /\ IsSession(HitlSession, Given(Hitl), delayed)
           /\ HitlSession.active \subseteq Given(Hitl)
           /\ \A i \in Given(Hitl) : i[1] = User
           /\ \A o \in Waiters : Holds(HitlSession) \cap waiter[o].result = {}
           /\ \A o \in Waiters : waiter[o].result \subseteq Given(Hitl)
<1> USE DEF ServiceInv, TypesInv, SessionsInv
<1>1. IsFiniteSet(Given(Hitl)) /\ Given(Hitl) \subseteq {User} \X (1..MaxCalls)
  BY GivenIsTyped, NamesDiffer DEF GivenTyped, SessionIds
<1>2. AdminProxy \in Proxies
  BY DEF Placed
<1>3. /\ IsSession(HitlSession, Given(Hitl), delayed)
      /\ \A o \in Waiters : Holds(HitlSession) \cap waiter[o].result = {}
  <2>1. CASE Known(AdminProxy, Hitl)
    <3>1. HitlSession = sessions[AdminProxy][Hitl]
      BY <2>1 DEF HitlSession
    <3>2. IsSession(sessions[AdminProxy][Hitl], Given(Hitl), delayed)
      BY <1>2, <2>1 DEF SessionsGood, Known
    <3>3. \A o \in Waiters : Holds(sessions[AdminProxy][Hitl]) \cap waiter[o].result = {}
      BY <1>2, <2>1 DEF OnlineApart
    <3> QED
      BY <3>1, <3>2, <3>3
  <2>2. CASE ~Known(AdminProxy, Hitl)
    <3>1. HitlSession = NewSession(calls)
      BY <2>2 DEF HitlSession
    <3> QED
      BY <1>1, <3>1, NewIsSession
  <2> QED
    BY <2>1, <2>2
<1>4. \A o \in Waiters : waiter[o].result \subseteq Given(Hitl)
  BY DEF OnlineApart
<1>5. HitlSession.active \subseteq Given(Hitl)
  BY <1>3, SessionHolds
<1> QED
  BY <1>1, <1>3, <1>4, <1>5

\* A step that puts a session of the user in place.
LEMMA HitlChanges ==
    ASSUME ServiceInv, mode # "agent", NEW s, Change(AdminProxy, Hitl, s),
           UNCHANGED <<mode, delayed, episode, groups, flush, onlineVars>>,
           CountersTyped', AdminProxy' = AdminProxy, picked' \in Proxies,
           Hitl \in DOMAIN route', Admin \in DOMAIN route',
           DOMAIN route' = groups \cup {Admin, Hitl},
           \A key \in DOMAIN route' : route'[key] = AdminProxy,
           IsSession(s, Given(Hitl)', delayed), Given(Hitl) \subseteq Given(Hitl)',
           \A o \in Waiters : Holds(s) \cap waiter[o].result = {},
           \A i \in credited' : i \in credited \/ i[1] = User
    PROVE  ServiceInv'
<1> USE DEF ServiceInv, TypesInv, SessionsInv
<1>1. AdminProxy \in Proxies /\ groups \subseteq Sids
  BY DEF Placed
<1>2. /\ Store'
      /\ DOMAIN sessions'[AdminProxy] = DOMAIN sessions[AdminProxy] \cup {Hitl}
      /\ sessions'[AdminProxy][Hitl] = s
      /\ \A q \in Proxies : q # AdminProxy => sessions'[q] = sessions[q]
  BY <1>1, ChangeIs DEF SessionsGood
<1>3. /\ DOMAIN sessions[AdminProxy] \subseteq {Hitl}
      /\ \A q \in Proxies : q # AdminProxy => DOMAIN sessions[q] = {}
  BY <1>1 DEF ModesApart, Placed
<1>4. /\ \A p \in Proxies : DOMAIN sessions'[p] \subseteq {Hitl}
      /\ \A p \in Proxies : Hitl \in DOMAIN sessions'[p] =>
            p = AdminProxy /\ sessions'[p][Hitl] = s
  BY <1>2, <1>3
<1>5. WaitersTyped' /\ FlushTyped' /\ QueuesGood' /\ waiter' = waiter
  BY DEF WaitersTyped, FlushTyped, QueuesGood, onlineVars
<1>6. Placed'
  BY <1>1, <1>2, <1>3 DEF Placed
<1>7. OnlineApart'
  <2>1. \A p \in Proxies : \A o \in Waiters :
           Hitl \in DOMAIN sessions'[p] => Holds(sessions'[p][Hitl]) \cap waiter'[o].result = {}
    BY <1>4, <1>5
  <2>2. \A o \in Waiters : waiter'[o].result \subseteq Given(Hitl)'
    BY <1>5 DEF OnlineApart
  <2> QED
    BY <1>5, <2>1, <2>2 DEF OnlineApart, Known
<1> QED
  BY <1>2, <1>4, <1>5, <1>6, <1>7, UserFrame

\* The user's completion is in the session at once, or, of an external model, nowhere
\* until it is answered.
LEMMA UserAsksKeeps == ServiceInv /\ UserAsks => ServiceInv'
<1> SUFFICES ASSUME ServiceInv, UserAsks PROVE ServiceInv'
  OBVIOUS
<1> USE DEF ServiceInv, TypesInv, SessionsInv
<1> DEFINE i == <<User, calls + 1>>
           s == [HitlSession EXCEPT !.active = IF mode = "user" THEN @ \cup {i} ELSE @]
<1>1. /\ mode # "agent" /\ calls < MaxCalls /\ calls' = calls + 1 /\ RouteAdmin
      /\ asked' = With(asked, i, HitlSession.born)
      /\ Change(AdminProxy, Hitl, s)
      /\ UNCHANGED <<mode, delayed, episode, complete, credited, flush, onlineVars, faults>>
  BY DEF UserAsks
<1>2. /\ IsFiniteSet(Given(Hitl)) /\ IsSession(HitlSession, Given(Hitl), delayed)
      /\ \A o \in Waiters : Holds(HitlSession) \cap waiter[o].result = {}
      /\ \A o \in Waiters : waiter[o].result \subseteq Given(Hitl)
  BY <1>1, HitlSessionIs
<1>3. /\ AdminProxy' = AdminProxy /\ groups' = groups /\ picked' \in Proxies
      /\ DOMAIN route' = groups \cup {Admin, Hitl}
      /\ \A key \in DOMAIN route' : route'[key] = AdminProxy
  BY <1>1, AdminStays
<1>4. DOMAIN asked' = DOMAIN asked \cup {i}
  BY <1>1 DEF With
<1>5. calls \in Nat /\ calls + 1 \in 0..MaxCalls
      /\ DOMAIN asked \subseteq {User} \X (1..calls)
  BY <1>1, ServiceAssumption DEF CountersTyped
<1>6. CountersTyped'
  <2>1. DOMAIN asked' \subseteq {User} \X (1..calls')
    BY <1>1, <1>4, <1>5
  <2> QED
    BY <1>1, <1>5, <2>1 DEF CountersTyped
<1>7. i \notin Given(Hitl)
  BY <1>5, NamesDiffer DEF Given
<1>8. Given(Hitl) \subseteq Given(Hitl)' /\ IsSession(s, Given(Hitl)', delayed)
      /\ Holds(s) \subseteq Holds(HitlSession) \cup {i}
  <2>1. CASE mode = "user"
    <3>1. Given(Hitl)' = Given(Hitl) \cup {i}
      <4>1. Given(Hitl) = {User} \X (1..calls)
        BY <2>1, NamesDiffer DEF Given
      <4>2. Given(Hitl)' = {User} \X (1..calls + 1)
        BY <1>1, <2>1, NamesDiffer DEF Given, Owner, Issued
      <4> QED
        BY <1>5, <4>1, <4>2
    <3> DEFINE h == HitlSession
    <3>2. s = [h EXCEPT !.active = @ \cup {i}]
      BY <2>1
    <3> HIDE DEF i, h, s
    <3>3. /\ IsSession([h EXCEPT !.active = @ \cup {i}], Given(Hitl) \cup {i}, delayed)
          /\ Holds([h EXCEPT !.active = @ \cup {i}]) = Holds(h) \cup {i}
      BY <1>2, <1>7, SessionRecords DEF h
    <3> QED
      BY <3>1, <3>2, <3>3 DEF h
  <2>2. CASE mode # "user"
    <3>1. Given(Hitl)' = Given(Hitl)
      <4>1. mode = "external"
        BY <1>1, <2>2 DEF CountersTyped
      <4>2. Given(Hitl) = ({User} \X (1..calls)) \ DOMAIN asked
        BY <4>1, NamesDiffer DEF Given
      <4>3. Given(Hitl)' = ({User} \X (1..calls + 1)) \ DOMAIN asked'
        BY <1>1, <4>1, NamesDiffer DEF Given, Owner, Issued
      <4> QED
        BY <1>4, <1>5, <4>2, <4>3
    <3> DEFINE h == HitlSession
    <3>2. s = [h EXCEPT !.active = h.active]
      BY <2>2
    <3>3. h = [born |-> h.born, active |-> h.active, rewarded |-> h.rewarded,
               ready |-> h.ready, next |-> h.next]
      BY <1>2 DEF IsSession
    <3> HIDE DEF h, s
    <3>4. s = h
      BY <3>2, <3>3
    <3> QED
      BY <1>2, <3>1, <3>4 DEF h
  <2> QED
    BY <2>1, <2>2
<1>9. \A o \in Waiters : Holds(s) \cap waiter[o].result = {}
  <2> HIDE DEF s, i
  <2> QED
    BY <1>2, <1>7, <1>8
<1>10. UNCHANGED <<mode, delayed, episode, groups, flush, onlineVars>>
       /\ \A j \in credited' : j \in credited \/ j[1] = User
  BY <1>1, <1>3
<1> HIDE DEF s, i
<1> QED
  BY <1>1, <1>3, <1>6, <1>8, <1>9, <1>10, HitlChanges

\* The user sets a reward.
LEMMA UserRewardsKeeps == ServiceInv /\ UserRewards => ServiceInv'
<1> SUFFICES ASSUME ServiceInv, UserRewards PROVE ServiceInv'
  OBVIOUS
<1> USE DEF ServiceInv, TypesInv, SessionsInv
<1> DEFINE s == Rewarded(HitlSession)
<1>1. /\ mode # "agent" /\ RouteAdmin
      /\ Change(AdminProxy, Hitl, s)
      /\ credited' = credited \cup (HitlSession.active \cap complete)
      /\ UNCHANGED <<mode, delayed, episode, userVars, complete, flush, onlineVars, faults>>
  BY DEF UserRewards
<1>2. /\ IsFiniteSet(Given(Hitl)) /\ IsSession(HitlSession, Given(Hitl), delayed)
      /\ HitlSession.active \subseteq Given(Hitl) /\ \A i \in Given(Hitl) : i[1] = User
      /\ \A o \in Waiters : Holds(HitlSession) \cap waiter[o].result = {}
  BY <1>1, HitlSessionIs
<1>3. /\ AdminProxy' = AdminProxy /\ groups' = groups /\ picked' \in Proxies
      /\ DOMAIN route' = groups \cup {Admin, Hitl}
      /\ \A key \in DOMAIN route' : route'[key] = AdminProxy
  BY <1>1, AdminStays
<1>4. CountersTyped'
  BY <1>1 DEF CountersTyped, userVars
<1>5. Given(Hitl)' = Given(Hitl)
  BY <1>1 DEF Given, Owner, Issued, userVars
<1>6. delayed \in BOOLEAN
  BY DEF CountersTyped
<1>7. IsSession(s, Given(Hitl), delayed) /\ Holds(s) = Holds(HitlSession)
  BY <1>2, <1>6, RewardedIs
<1>8. \A i \in credited' : i \in credited \/ i[1] = User
  BY <1>1, <1>2
<1>9. UNCHANGED <<mode, delayed, episode, groups, flush, onlineVars>>
  BY <1>1, <1>3
<1> HIDE DEF s
<1>10. /\ IsSession(s, Given(Hitl)', delayed) /\ Given(Hitl) \subseteq Given(Hitl)'
       /\ \A o \in Waiters : Holds(s) \cap waiter[o].result = {}
  BY <1>2, <1>5, <1>7
<1> QED
  BY <1>1, <1>3, <1>4, <1>8, <1>9, <1>10, HitlChanges

\* A step of the user's side that leaves the sessions, or takes some away.
LEMMA HitlStays ==
    ASSUME ServiceInv, mode # "agent",
           UNCHANGED <<mode, delayed, episode, routerVars, credited, flush>>,
           CountersTyped', WaitersTyped', QueuesGood', Store',
           \A p \in Proxies :
              /\ DOMAIN sessions'[p] \subseteq DOMAIN sessions[p]
              /\ \A x \in DOMAIN sessions'[p] : sessions'[p][x] = sessions[p][x],
           Given(Hitl) \subseteq Given(Hitl)', OnlineApart'
    PROVE  ServiceInv'
<1> USE DEF ServiceInv, TypesInv, SessionsInv
<1>1. route' = route /\ groups' = groups /\ picked' = picked
  BY DEF routerVars
<1>2. AdminProxy' = AdminProxy
  BY <1>1 DEF AdminProxy
<1>3. FlushTyped'
  BY DEF FlushTyped
<1>4. /\ \A p \in Proxies : DOMAIN sessions'[p] \subseteq {Hitl}
      /\ \A p \in Proxies : Hitl \in DOMAIN sessions'[p] =>
            Hitl \in DOMAIN sessions[p] /\ sessions'[p][Hitl] = sessions[p][Hitl]
  BY DEF ModesApart
<1>5. Placed'
  <2>1. /\ picked \in Proxies /\ groups \subseteq Sids
        /\ \A key \in DOMAIN route : route[key] = AdminProxy
        /\ AdminProxy \in Proxies
        /\ DOMAIN route = groups \cup (IF Admin \in DOMAIN route THEN {Admin, Hitl} ELSE {})
    BY DEF Placed
  <2>2. Admin \notin DOMAIN route =>
          /\ groups = {} /\ \A e \in Episodes : episode[e].pc = "start"
          /\ \A p \in Proxies : DOMAIN sessions'[p] = {}
    BY DEF Placed
  <2>3. \A p \in Proxies \ {AdminProxy} : DOMAIN sessions'[p] = {}
    BY DEF Placed
  <2> QED
    BY <1>1, <1>2, <2>1, <2>2, <2>3 DEF Placed
<1> QED
  BY <1>1, <1>2, <1>3, <1>4, <1>5, UserFrame

\* The answer of an external model is put into the session or dropped; until then
\* neither a session nor a result held it.
LEMMA UserIsAnsweredKeeps ==
    ASSUME ServiceInv, NEW i, UserIsAnswered(i)
    PROVE  ServiceInv'
<1> USE DEF ServiceInv, TypesInv, SessionsInv
<1>1. /\ i \in DOMAIN asked /\ asked' = Without(asked, {i})
      /\ complete' = complete \cup {i}
      /\ UNCHANGED <<mode, delayed, episode, calls, routerVars, credited, flush,
                     onlineVars, faults>>
  BY DEF UserIsAnswered
<1>2. DOMAIN asked' = DOMAIN asked \ {i}
  BY <1>1 DEF Without
<1>3. i \in {User} \X (1..calls) /\ calls \in Nat /\ calls <= MaxCalls
  BY <1>1, ServiceAssumption DEF CountersTyped
<1>4. CountersTyped'
  <2>1. i \in Interactions
    BY <1>3, ServiceAssumption DEF Interactions
  <2> QED
    BY <1>1, <1>2, <2>1 DEF CountersTyped
<1>5. /\ Given(Hitl) = ({User} \X (1..calls)) \ (IF mode = "external" THEN DOMAIN asked ELSE {})
      /\ Given(Hitl)' = ({User} \X (1..calls)) \ (IF mode = "external" THEN DOMAIN asked' ELSE {})
  BY <1>1, NamesDiffer DEF Given, Owner, Issued
<1>6. /\ mode = "external" => Given(Hitl)' = Given(Hitl) \cup {i} /\ i \notin Given(Hitl)
      /\ mode # "external" => Given(Hitl)' = Given(Hitl)
  BY <1>1, <1>2, <1>3, <1>5
<1>7. /\ WaitersTyped' /\ QueuesGood' /\ waiter' = waiter
      /\ route' = route /\ groups' = groups /\ picked' = picked
  BY <1>1 DEF WaitersTyped, QueuesGood, onlineVars, routerVars
<1>8. mode \in {"agent", "user", "external"}
  BY DEF CountersTyped
<1>9. CASE mode = "agent"
  <2>1. sessions' = sessions
    BY <1>9 DEF UserIsAnswered
  <2>2. EpisodesTyped' /\ AdminProxy' = AdminProxy /\ FewLeft' /\ Placed'
    BY <1>1, <1>7, <2>1 DEF EpisodesTyped, AdminProxy, FewLeft, Placed, SessionsLeft, GroupsLeft,
       AllSessions, SidsOf
  <2>3. \A x : Given(x)' = Given(x)
    BY <1>1, <1>9 DEF Given, Owner, Issued
  <2>4. SessionsGood' /\ FlushTyped' /\ ModesApart' /\ OnlineApart'
    BY <1>1, <1>7, <1>9, <2>1, <2>3 DEF SessionsGood, Store, FlushTyped, ModesApart, OnlineApart, Known
  <2>5. EpisodesGood'
    <3>1. \A e \in Episodes : EpisodePlaced(e) /\ EpisodeCredited(e)
      BY DEF EpisodesGood
    <3> QED
      BY <1>1, <1>7, <2>1, <2>2, <3>1 
         DEF EpisodesGood, EpisodePlaced, EpisodeCredited, Credited, Known, Fresh, Uncut, Cut, Latest
  <2> QED
    BY <1>4, <1>7, <2>2, <2>4, <2>5
<1>10. CASE mode # "agent" /\ sessions' = sessions
  <2>1. OnlineApart'
    BY <1>6, <1>7, <1>10 DEF OnlineApart, Known
  <2>2. Store'
    BY <1>10 DEF Store, SessionsGood
  <2> QED
    BY <1>1, <1>4, <1>6, <1>7, <1>10, <2>1, <2>2, HitlStays
<1>11. CASE /\ mode = "external" /\ Known(AdminProxy, Hitl)
            /\ Change(AdminProxy, Hitl, [HitlSession EXCEPT !.active = @ \cup {i}])
  <2> DEFINE h == HitlSession
             s == [h EXCEPT !.active = @ \cup {i}]
  <2>1. /\ IsFiniteSet(Given(Hitl)) /\ IsSession(h, Given(Hitl), delayed)
        /\ \A o \in Waiters : Holds(h) \cap waiter[o].result = {}
        /\ \A o \in Waiters : waiter[o].result \subseteq Given(Hitl)
    BY <1>11, HitlSessionIs
  <2>2. IsSession(s, Given(Hitl) \cup {i}, delayed) /\ Holds(s) = Holds(h) \cup {i}
    <3> HIDE DEF h
    <3> QED
      BY <1>6, <1>11, <2>1, SessionRecords
  <2>3. Admin \in DOMAIN route /\ AdminProxy \in Proxies
    BY <1>11 DEF Placed, Known
  <2>4. /\ AdminProxy' = AdminProxy /\ picked' \in Proxies
        /\ DOMAIN route' = groups \cup {Admin, Hitl}
        /\ \A key \in DOMAIN route' : route'[key] = AdminProxy
    BY <1>7, <2>3 DEF AdminProxy, Placed
  <2> HIDE DEF h, s
  <2>5. \A o \in Waiters : Holds(s) \cap waiter[o].result = {}
    BY <1>6, <1>11, <2>1, <2>2
  <2>6. IsSession(s, Given(Hitl)', delayed) /\ Given(Hitl) \subseteq Given(Hitl)'
    BY <1>6, <1>11, <2>2
  <2>7. Change(AdminProxy, Hitl, s)
    BY <1>11 DEF s, h
  <2> QED
    BY <1>1, <1>4, <1>7, <1>11, <2>4, <2>5, <2>6, <2>7, HitlChanges
<1> QED
  BY <1>8, <1>9, <1>10, <1>11 DEF UserIsAnswered

\* What is known of one waiting rollout.
LEMMA WaiterIs ==
    ASSUME WaitersTyped, NEW o \in Waiters
    PROVE  waiter[o] \in WaiterType
BY DEF WaitersTyped

\* A rollout changes, the others stay.
LEMMA WaiterSet ==
    ASSUME WaitersTyped, NEW o \in Waiters, NEW r \in WaiterType,
           waiter' = [waiter EXCEPT ![o] = r]
    PROVE  WaitersTyped' /\ waiter'[o] = r
           /\ \A x \in Waiters : x # o => waiter'[x] = waiter[x]
BY DEF WaitersTyped

\* A rollout that moves in the lists and keeps its result.
LEMMA WaiterMoves ==
    ASSUME ServiceInv, NEW o \in Waiters, mode # "agent", NEW r \in WaiterType,
           waiter' = [waiter EXCEPT ![o] = r], r.result = waiter[o].result,
           UNCHANGED <<mode, delayed, episode, userVars, routerVars, complete, credited, flush,
                       sessions>>,
           faults' = faults \/ Fault, QueuesGood'
    PROVE  ServiceInv'
<1> USE DEF ServiceInv, TypesInv, SessionsInv
<1>1. /\ WaitersTyped' /\ waiter'[o] = r
      /\ \A x \in Waiters : x # o => waiter'[x] = waiter[x]
  BY WaiterSet
<1>2. \A x \in Waiters : waiter'[x].result = waiter[x].result
  BY <1>1
<1>3. CountersTyped'
  BY FaultCounted DEF CountersTyped, userVars
<1>4. Given(Hitl)' = Given(Hitl)
  BY DEF Given, Owner, Issued, userVars
<1>5. OnlineApart'
  BY <1>2, <1>4 DEF OnlineApart, Known
<1>6. Store'
  BY DEF Store, SessionsGood
<1> QED
  BY <1>1, <1>3, <1>4, <1>5, <1>6, HitlStays

\* A rollout takes a result from the list or waits.
LEMMA WaitOnlineKeeps ==
    ASSUME ServiceInv, NEW o \in Waiters, WaitOnline(o)
    PROVE  ServiceInv'
<1> USE DEF ServiceInv, TypesInv, SessionsInv
<1>1. /\ mode # "agent" /\ waiter[o].pc = "idle"
      /\ UNCHANGED <<mode, delayed, episode, userVars, routerVars, complete, credited, flush,
                     sessions, faults>>
  BY DEF WaitOnline, Online
<1>2. waiter[o] \in WaiterType
  BY WaiterIs
<1>3. /\ waiting \in Seq(Waiters) /\ IsInjective(waiting)
      /\ \A x \in Waiters : (waiter[x].pc = "waiting") = (x \in ToSet(waiting))
      /\ completed \in Seq(Notices) /\ Len(completed) <= MaxCompleted
  BY DEF QueuesGood
<1>4. CASE completed # <<>>
  <2> DEFINE n == Head(completed)
             r == [waiter[o] EXCEPT !.pc = "export", !.request = n]
  <2>1. /\ n \in Notices /\ Tail(completed) \in Seq(Notices)
        /\ Len(Tail(completed)) = Len(completed) - 1 /\ Len(completed) \in Nat
    BY <1>3, <1>4, HeadTailProperties, LenProperties
  <2>2. waiter' = [waiter EXCEPT ![o] = r] /\ completed' = Tail(completed)
        /\ UNCHANGED waiting
    BY <1>4 DEF WaitOnline
  <2> HIDE DEF n
  <2>3. r \in WaiterType /\ r.pc = "export" /\ r.result = waiter[o].result
    BY <1>2, <2>1 DEF WaiterType
  <2> HIDE DEF r
  <2>4. QueuesGood'
    <3>1. /\ waiter'[o] = r /\ \A x \in Waiters : x # o => waiter'[x] = waiter[x]
      BY <2>2, <2>3, WaiterSet
    <3>2. Len(completed') <= MaxCompleted
      BY <1>3, <2>1, <2>2, ServiceAssumption
    <3>3. \A x \in Waiters : (waiter'[x].pc = "waiting") = (x \in ToSet(waiting'))
      BY <1>1, <1>3, <2>2, <2>3, <3>1
    <3> QED
      BY <1>3, <2>1, <2>2, <3>2, <3>3 DEF QueuesGood
  <2> QED
    BY <1>1, <2>2, <2>3, <2>4, WaiterMoves
<1>5. CASE completed = <<>>
  <2> DEFINE r == [waiter[o] EXCEPT !.pc = "waiting"]
  <2>1. waiter' = [waiter EXCEPT ![o] = r] /\ waiting' = Append(waiting, o)
        /\ UNCHANGED completed
    BY <1>5 DEF WaitOnline
  <2>2. r \in WaiterType /\ r.pc = "waiting" /\ r.result = waiter[o].result
    BY <1>2 DEF WaiterType
  <2> HIDE DEF r
  <2>3. o \notin ToSet(waiting)
    BY <1>1, <1>3
  <2>4. /\ waiting' \in Seq(Waiters) /\ ToSet(waiting') = ToSet(waiting) \cup {o}
        /\ IsInjective(waiting')
    BY <1>3, <2>1, <2>3, AppendElements
  <2>5. QueuesGood'
    <3>1. /\ waiter'[o] = r /\ \A x \in Waiters : x # o => waiter'[x] = waiter[x]
      BY <2>1, <2>2, WaiterSet
    <3>2. \A x \in Waiters : (waiter'[x].pc = "waiting") = (x \in ToSet(waiting'))
      BY <1>3, <2>2, <2>4, <3>1
    <3> QED
      BY <1>3, <2>1, <2>4, <3>2 DEF QueuesGood
  <2> QED
    BY <1>1, <2>1, <2>2, <2>5, WaiterMoves
<1> QED
  BY <1>4, <1>5

\* A rollout that was given a result goes on to export it.
LEMMA WakesKeeps ==
    ASSUME ServiceInv, NEW o \in Waiters, Wakes(o)
    PROVE  ServiceInv'
<1> USE DEF ServiceInv, TypesInv, SessionsInv
<1> DEFINE r == [waiter[o] EXCEPT !.pc = "export"]
<1>1. /\ mode # "agent" /\ waiter[o].pc = "given" /\ waiter' = [waiter EXCEPT ![o] = r]
      /\ UNCHANGED <<mode, delayed, episode, userVars, routerVars, complete, credited, flush,
                     sessions, faults, waiting, completed>>
  BY DEF Wakes, Online
<1>2. r \in WaiterType /\ r.pc = "export" /\ r.result = waiter[o].result
  BY WaiterIs DEF WaiterType
<1> HIDE DEF r
<1>3. QueuesGood'
  <2>1. /\ waiter'[o] = r /\ \A x \in Waiters : x # o => waiter'[x] = waiter[x]
    BY <1>1, <1>2, WaiterSet
  <2>2. \A x \in Waiters : (waiter'[x].pc = "waiting") = (x \in ToSet(waiting))
    BY <1>1, <1>2, <2>1 DEF QueuesGood
  <2> QED
    BY <1>1, <2>2 DEF QueuesGood
<1> QED
  BY <1>1, <1>2, <1>3, WaiterMoves

\* A rollout that times out waits no more.
LEMMA TimesOutKeeps ==
    ASSUME ServiceInv, NEW o \in Waiters, TimesOut(o)
    PROVE  ServiceInv'
<1> USE DEF ServiceInv, TypesInv, SessionsInv
<1> DEFINE r == [waiter[o] EXCEPT !.pc = "idle"]
<1>1. /\ mode # "agent" /\ waiter' = [waiter EXCEPT ![o] = r]
      /\ waiting' = WithoutWaiter(o) /\ Fault
      /\ UNCHANGED <<mode, delayed, episode, userVars, routerVars, complete, credited, flush,
                     sessions, completed>>
  BY DEF TimesOut, Online
<1>2. r \in WaiterType /\ r.pc = "idle" /\ r.result = waiter[o].result
  BY WaiterIs DEF WaiterType
<1> HIDE DEF r
<1>3. QueuesGood'
  <2>1. /\ waiter'[o] = r /\ \A x \in Waiters : x # o => waiter'[x] = waiter[x]
    BY <1>1, <1>2, WaiterSet
  <2>2. /\ waiting' \in Seq(Waiters) /\ IsInjective(waiting')
        /\ ToSet(waiting') = ToSet(waiting) \ {o}
    BY <1>1, WaiterRemoved DEF QueuesGood
  <2>3. \A x \in Waiters : (waiter'[x].pc = "waiting") = (x \in ToSet(waiting'))
    BY <1>2, <2>1, <2>2 DEF QueuesGood
  <2> QED
    BY <1>1, <2>2, <2>3 DEF QueuesGood
<1> QED
  BY <1>1, <1>2, <1>3, WaiterMoves

\* The trajectory leaves the session and comes into one result; the others the
\* session held are lost.
LEMMA ExportOnlineKeeps ==
    ASSUME ServiceInv, NEW o \in Waiters, ExportOnline(o)
    PROVE  ServiceInv'
<1> USE DEF ServiceInv, TypesInv, SessionsInv
<1> DEFINE sid == waiter[o].request[1]
           tid == waiter[o].request[2]
<1>1. PICK p \in Proxies :
         /\ Export(p, sid)
         /\ \/ /\ waiter' = [waiter EXCEPT ![o].pc = "idle",
                     ![o].result = @ \cup Exported(p, sid, tid)]
               /\ UNCHANGED faults
            \/ Fault /\ UNCHANGED waiter
  BY DEF ExportOnline
<1>2. /\ mode # "agent" /\ waiter[o].pc = "export"
      /\ UNCHANGED <<mode, delayed, episode, userVars, routerVars, complete, credited, flush,
                     waiting, completed>>
  BY DEF ExportOnline, Online
<1> DEFINE out == Exported(p, sid, tid)
<1>3. /\ out # {} => sid = Hitl /\ Hitl \in DOMAIN sessions[p] /\ p = AdminProxy
      /\ out \subseteq Given(Hitl)
      /\ out # {} => out \subseteq Holds(sessions[p][Hitl])
  <2>1. CASE out = {}
    BY <2>1
  <2>2. CASE out # {}
    <3>1. Known(p, sid) /\ out \subseteq Given(sid) /\ out \subseteq Holds(sessions[p][sid])
      BY <2>2, ExportedIs
    <3>2. sid = Hitl
      BY <1>2, <3>1 DEF ModesApart, Known
    <3>3. p = AdminProxy
      BY <3>1 DEF Placed, Known
    <3> QED
      BY <3>1, <3>2, <3>3 DEF Known
  <2> QED
    BY <2>1, <2>2
<1> HIDE DEF out
<1>4. /\ Store'
      /\ DOMAIN sessions'[p] = DOMAIN sessions[p] \ {sid}
      /\ \A x \in DOMAIN sessions'[p] : sessions'[p][x] = sessions[p][x]
      /\ \A q \in Proxies : q # p => sessions'[q] = sessions[q]
  BY <1>1, ExportIs DEF SessionsGood
<1>5. \A q \in Proxies : /\ DOMAIN sessions'[q] \subseteq DOMAIN sessions[q]
                         /\ \A x \in DOMAIN sessions'[q] : sessions'[q][x] = sessions[q][x]
  BY <1>4
<1>6. CountersTyped'
  BY <1>1, <1>2, FaultCounted DEF CountersTyped, userVars
<1>7. Given(Hitl)' = Given(Hitl)
  BY <1>2 DEF Given, Owner, Issued, userVars
<1>8. CASE waiter' = waiter
  <2>1. WaitersTyped' /\ QueuesGood'
    BY <1>2, <1>8 DEF WaitersTyped, QueuesGood
  <2>2. OnlineApart'
    BY <1>2, <1>5, <1>7, <1>8 DEF OnlineApart, Known
  <2> QED
    BY <1>2, <1>4, <1>5, <1>6, <1>7, <2>1, <2>2, HitlStays
<1>9. CASE waiter' = [waiter EXCEPT ![o].pc = "idle", ![o].result = @ \cup out]
  <2> DEFINE r == [waiter[o] EXCEPT !.pc = "idle", !.result = @ \cup out]
  <2>1. out \subseteq Interactions
    BY <1>3, GivenIsTyped DEF GivenTyped, SessionIds
  <2>2. waiter[o] \in WaiterType
    BY WaiterIs
  <2>3. r \in WaiterType /\ r.pc = "idle" /\ r.result = waiter[o].result \cup out
    BY <2>1, <2>2 DEF WaiterType
  <2>4. waiter' = [waiter EXCEPT ![o] = r]
    BY <1>9
  <2> HIDE DEF r
  <2>5. /\ WaitersTyped' /\ waiter'[o] = r
        /\ \A x \in Waiters : x # o => waiter'[x] = waiter[x]
    BY <2>3, <2>4, WaiterSet
  <2>6. QueuesGood'
    <3>1. \A x \in Waiters : (waiter'[x].pc = "waiting") = (x \in ToSet(waiting))
      BY <1>2, <2>3, <2>5 DEF QueuesGood
    <3> QED
      BY <1>2, <3>1 DEF QueuesGood
  <2>7. /\ \A x \in Waiters : waiter[x].result \subseteq Given(Hitl)
        /\ \A x \in Waiters : \A q \in Proxies :
              Hitl \in DOMAIN sessions[q] => Holds(sessions[q][Hitl]) \cap waiter[x].result = {}
        /\ \A x, y \in Waiters : x # y => waiter[x].result \cap waiter[y].result = {}
    BY <1>2 DEF OnlineApart, Known
  <2>8. \A x \in Waiters : waiter'[x].result \subseteq Given(Hitl)'
    BY <1>3, <1>7, <2>3, <2>5, <2>7
  <2>9. ASSUME NEW x \in Waiters, NEW y \in Waiters, x # y
        PROVE  waiter'[x].result \cap waiter'[y].result = {}
    <3>1. \A z \in Waiters : out \cap waiter[z].result = {}
      <4>1. CASE out = {}
        BY <4>1
      <4>2. CASE out # {}
        BY <1>3, <2>7, <4>2
      <4> QED
        BY <4>1, <4>2
    <3> QED
      BY <2>3, <2>5, <2>7, <2>9, <3>1
  <2>10. ASSUME NEW x \in Waiters, NEW q \in Proxies, Hitl \in DOMAIN sessions'[q]
         PROVE  Holds(sessions'[q][Hitl]) \cap waiter'[x].result = {}
    <3>1. Hitl \in DOMAIN sessions[q] /\ sessions'[q][Hitl] = sessions[q][Hitl]
      BY <1>5, <2>10
    <3>2. CASE out = {}
      BY <2>3, <2>5, <2>7, <3>1, <3>2
    <3>3. CASE out # {}
      <4>1. q = AdminProxy
        BY <3>1 DEF Placed
      <4> QED
        BY <1>3, <1>4, <2>10, <3>3, <4>1
    <3> QED
      BY <3>2, <3>3
  <2>11. OnlineApart'
    BY <2>8, <2>9, <2>10 DEF OnlineApart, Known
  <2> QED
    BY <1>2, <1>4, <1>5, <1>6, <1>7, <2>5, <2>6, <2>11, HitlStays
<1> QED
  BY <1>1, <1>8, <1>9 DEF out

\* The steps of a waiting rollout keep the invariant.
LEMMA WaiterKeeps ==
    ASSUME ServiceInv, NEW o \in Waiters, WaiterStep(o)
    PROVE  ServiceInv'
BY WaitOnlineKeeps, WakesKeeps, TimesOutKeeps, ExportOnlineKeeps DEF WaiterStep

-----------------------------------------------------------------------------
(* The invariant of the service. *)

\* The service starts without sessions, groups and rollouts.
LEMMA InitService == Init => ServiceInv
<1> SUFFICES ASSUME Init
             PROVE  ServiceInv
  OBVIOUS
<1>1. /\ mode \in {"agent", "user", "external"} /\ delayed \in BOOLEAN
      /\ asked = Nothing /\ calls = 0 /\ route = Nothing /\ groups = {} /\ picked = 0
      /\ sessions = [p \in Proxies |-> Nothing] /\ complete = {} /\ credited = {}
      /\ waiting = <<>> /\ completed = <<>> /\ faults = 0
  BY DEF Init
<1>2. /\ MaxFaults \in Nat /\ MaxCalls \in Nat /\ MaxCompleted \in Nat
      /\ 0 \in Proxies /\ DOMAIN Nothing = {}
  BY ServiceAssumption DEF Proxies, Nothing
<1>3. \A p \in Proxies : DOMAIN sessions[p] = {}
  BY <1>1, <1>2
<1>4. \A e \in Episodes : /\ episode[e].pc = "start" /\ episode[e].sid = <<e, 0>>
                          /\ episode[e].result = {}
  BY DEF Init
<1>5. \A o \in Waiters : waiter[o].pc = "idle" /\ waiter[o].result = {}
  BY DEF Init
<1>6. EpisodesTyped
  <2>1. \A e \in Episodes : <<e, 0>> \in Sids
    BY <1>2 DEF Sids
  <2>2. \A e \in Episodes :
           [pc |-> "start", proxy |-> 0, sid |-> <<e, 0>>, calls |-> 0, lost |-> FALSE,
            result |-> {}] \in EpisodeType
    <3>1. FALSE \in BOOLEAN
      OBVIOUS
    <3>2. 0 \in 0..MaxCalls
      BY <1>2
    <3>3. "start" \in EpisodePcs
      BY DEF EpisodePcs
    <3> QED
      BY <1>2, <2>1, <3>1, <3>2, <3>3, Zenon DEF EpisodeType
  <2>3. episode \in [Episodes -> EpisodeType]
    BY <2>2 DEF Init
  <2> QED
    BY <1>4, <2>3 DEF EpisodesTyped
<1>7. WaitersTyped
  <2>1. <<Hitl, 0>> \in Notices
    BY <1>2 DEF Notices, SessionIds
  <2>2. [pc |-> "idle", request |-> <<Hitl, 0>>, result |-> {}] \in WaiterType
    BY <2>1 DEF WaiterType
  <2> QED
    BY <2>2 DEF Init, WaitersTyped
<1>8. FlushTyped
  <2>1. [on |-> FALSE, pending |-> {}, told |-> {}] \in FlushType
    BY DEF FlushType
  <2> QED
    BY <2>1 DEF Init, FlushTyped
<1>9. CountersTyped
  BY <1>1, <1>2 DEF CountersTyped
<1>10. QueuesGood
  BY <1>1, <1>2, <1>5 DEF QueuesGood, IsInjective, ToSet
<1>11. SessionsGood
  BY <1>1, <1>3 DEF SessionsGood, Store
<1>12. ModesApart
  BY <1>1, <1>3, <1>4, <1>5 DEF ModesApart, Known
<1>13. Placed
  <2>1. Admin \notin DOMAIN route /\ DOMAIN route = {}
    BY <1>1, <1>2
  <2>2. AdminProxy \in Proxies
    BY <1>1, <2>1, ServiceAssumption DEF AdminProxy, Proxies
  <2> QED
    BY <1>1, <1>2, <1>3, <1>4, <2>1, <2>2 DEF Placed
<1>14. EpisodesGood
  <2>1. \A e \in Episodes : EpisodePlaced(e)
    BY <1>4 DEF EpisodePlaced
  <2>2. \A e \in Episodes : EpisodeCredited(e)
    BY <1>1, <1>4 DEF EpisodeCredited, Credited
  <2> QED
    BY <2>1, <2>2 DEF EpisodesGood
<1>15. OnlineApart
  BY <1>3, <1>5 DEF OnlineApart, Known
<1>16. FewLeft
  <2>1. SessionsLeft = {} /\ GroupsLeft = {}
    BY <1>1, <1>3 DEF SessionsLeft, AllSessions, GroupsLeft
  <2>2. IsFiniteSet({}) /\ Cardinality({}) = 0
    BY FS_EmptySet
  <2> QED
    BY <1>1, <2>1, <2>2 DEF FewLeft, AtMost
<1> QED
  BY <1>6, <1>7, <1>8, <1>9, <1>10, <1>11, <1>12, <1>13, <1>14, <1>15, <1>16
     DEF ServiceInv, TypesInv, SessionsInv

\* Every step keeps the invariant.
LEMMA NextService == ServiceInv /\ [Next]_vars => ServiceInv'
<1> SUFFICES ASSUME ServiceInv, [Next]_vars
             PROVE  ServiceInv'
  OBVIOUS
<1>1. CASE \E e \in Episodes : EpisodeStep(e)
  BY <1>1, EpisodeKeeps
<1>2. CASE UserAsks
  BY <1>2, UserAsksKeeps
<1>3. CASE \E i \in DOMAIN asked : UserIsAnswered(i)
  BY <1>3, UserIsAnsweredKeeps
<1>4. CASE UserRewards
  BY <1>4, UserRewardsKeeps
<1>5. CASE \E p \in Proxies : ProxyStep(p)
  BY <1>5, ProxyKeeps
<1>6. CASE \E o \in Waiters : WaiterStep(o)
  BY <1>6, WaiterKeeps
<1>7. CASE UNCHANGED vars
  <2>1. UNCHANGED <<mode, delayed, episode, userVars, routerVars, complete, credited, flush,
                    onlineVars, sessions, faults>>
    BY <1>7 DEF vars, proxyVars
  <2>2. /\ Store' /\ \A q \in Proxies : DOMAIN sessions'[q] = DOMAIN sessions[q]
        /\ \A q \in Proxies : \A x \in DOMAIN sessions[q] :
              /\ IsSession(sessions'[q][x], Given(x), delayed)
              /\ SameTrajectories(sessions[q][x], sessions'[q][x])
    BY <2>1, SessionsUntouched
  <2>3. FlushTyped' /\ WaitersTyped' /\ QueuesGood'
    BY <2>1 DEF ServiceInv, TypesInv, FlushTyped, WaitersTyped, QueuesGood, onlineVars
  <2> QED
    BY <2>1, <2>2, <2>3, ProxyFrame DEF onlineVars
<1> QED
  BY <1>1, <1>2, <1>3, <1>4, <1>5, <1>6, <1>7 DEF Next

\* The parts of the invariant hold in every state of the service: the sessions, the
\* groups, the results and what a fault leaves behind stay as they describe them.
THEOREM ServiceInvariant == Spec => []ServiceInv
<1>1. Init => ServiceInv
  BY InitService
<1>2. ServiceInv /\ [Next]_vars => ServiceInv'
  BY NextService
<1> QED
  BY <1>1, <1>2, PTL DEF Spec

-----------------------------------------------------------------------------
(* What it says of the service. *)

\* The types are part of the invariant.
LEMMA TypesFollow == ServiceInv => TypeOK
<1> SUFFICES ASSUME ServiceInv
             PROVE  TypeOK
  OBVIOUS
<1>1. /\ EpisodesTyped /\ WaitersTyped /\ FlushTyped /\ CountersTyped /\ QueuesGood
      /\ SessionsGood /\ Placed /\ GivenTyped
  BY GivenIsTyped DEF ServiceInv, TypesInv, SessionsInv
<1>2. ASSUME NEW e \in Episodes
      PROVE  /\ episode[e].pc \in {"start", "create", "register", "agent", "asked",
                                   "reward", "export", "revoke", "done"}
             /\ episode[e].proxy \in Proxies /\ episode[e].sid \in Sids
             /\ episode[e].calls \in 0..MaxCalls /\ episode[e].result \subseteq Interactions
  BY <1>1, EpisodeIs DEF EpisodeType, EpisodePcs
<1>3. ASSUME NEW o \in Waiters
      PROVE  /\ waiter[o].pc \in {"idle", "waiting", "given", "export"}
             /\ waiter[o].request \in Notices /\ waiter[o].result \subseteq Interactions
             /\ (waiter[o].pc = "waiting") = (\E k \in DOMAIN waiting : waiting[k] = o)
  <2>1. waiter[o] \in WaiterType
    BY <1>1, WaiterIs
  <2>2. o \in ToSet(waiting) <=> \E k \in DOMAIN waiting : waiting[k] = o
    BY DEF ToSet
  <2>3. waiter[o].pc = "waiting" <=> o \in ToSet(waiting)
    BY <1>1 DEF QueuesGood
  <2>4. (waiter[o].pc = "waiting") = (\E k \in DOMAIN waiting : waiting[k] = o)
    BY <2>2, <2>3
  <2> QED
    BY <2>1, <2>4 DEF WaiterType
<1>4. /\ DOMAIN route \subseteq SessionIds \cup {Admin} /\ groups \subseteq Sids
      /\ \A key \in DOMAIN route : route[key] \in Proxies
      /\ picked \in Proxies
  BY <1>1 DEF Placed, SessionIds
<1>5. ASSUME NEW p \in Proxies
      PROVE  /\ DOMAIN sessions[p] \subseteq SessionIds
             /\ \A sid \in DOMAIN sessions[p] :
                   /\ sessions[p][sid].active \subseteq Interactions
                   /\ DOMAIN sessions[p][sid].ready \subseteq 0..sessions[p][sid].next - 1
             /\ flush[p].pending \cup flush[p].told \subseteq Notices
             /\ flush[p].pending \cap flush[p].told = {}
  <2>1. flush[p] \in FlushType /\ flush[p].pending \cap flush[p].told = {}
    BY <1>1 DEF FlushTyped
  <2>2. ASSUME NEW sid \in DOMAIN sessions[p]
        PROVE  /\ sid \in SessionIds /\ sessions[p][sid].active \subseteq Interactions
               /\ DOMAIN sessions[p][sid].ready \subseteq 0..sessions[p][sid].next - 1
    BY <1>1 DEF SessionsGood, IsSession, GivenTyped
  <2> QED
    BY <2>1, <2>2 DEF FlushType
<1>6. complete \subseteq Interactions /\ credited \subseteq Interactions
      /\ mode \in {"agent", "user", "external"} /\ delayed \in BOOLEAN
      /\ calls \in 0..MaxCalls /\ faults \in 0..MaxFaults
  BY <1>1 DEF CountersTyped
<1>7. Len(completed) <= MaxCompleted /\ \A k \in DOMAIN completed : completed[k] \in Notices
  BY <1>1 DEF QueuesGood
<1> QED
  BY <1>2, <1>3, <1>4, <1>5, <1>6, <1>7 DEF TypeOK

\* A result has what was credited or is empty, and shares nothing with another.
LEMMA ResultsFollow == ServiceInv => RewardedIsReturned /\ ReturnedOnce
<1> SUFFICES ASSUME ServiceInv
             PROVE  RewardedIsReturned /\ ReturnedOnce
  OBVIOUS
<1>1. RewardedIsReturned
  BY DEF ServiceInv, SessionsInv, EpisodesGood, EpisodeCredited, Credited, RewardedIsReturned
<1>2. \A e \in Episodes : episode[e].result \subseteq {e} \X (1..MaxCalls)
  BY DEF ServiceInv, TypesInv, EpisodesTyped
<1>3. ASSUME NEW o1 \in Waiters, NEW o2 \in Waiters, o1 # o2
      PROVE  waiter[o1].result \cap waiter[o2].result = {}
  <2>1. CASE mode = "agent"
    BY <2>1 DEF ServiceInv, SessionsInv, ModesApart
  <2>2. CASE mode # "agent"
    BY <1>3, <2>2 DEF ServiceInv, OnlineApart
  <2> QED
    BY <2>1, <2>2
<1> QED
  BY <1>1, <1>2, <1>3 DEF ReturnedOnce

\* What no episode uses is among what no episode will export or revoke.
LEMMA LeaksFollow == ServiceInv => LeakBound
<1> SUFFICES ASSUME ServiceInv
             PROVE  LeakBound
  OBVIOUS
<1> DEFINE A == (UNION {DOMAIN sessions[p] : p \in Proxies}) \ (InUse \cup {Hitl})
           B == DOMAIN route \ (InUse \cup {Hitl, Admin})
           C == groups \ InUse
<1>1. SidsOf(Served) \subseteq InUse /\ SidsOf(Listed) \subseteq InUse
  <2> SUFFICES ASSUME NEW sid \in Sids, episode[sid[1]].sid = sid,
                      episode[sid[1]].pc \in Served \cup Listed
               PROVE  sid \in InUse
    BY DEF SidsOf
  <2>1. sid[1] \in Episodes /\ episode[sid[1]].pc # "done"
    BY DEF Sids, Served, Listed
  <2> QED
    BY <2>1 DEF InUse
<1>2. A \subseteq SessionsLeft /\ C \subseteq GroupsLeft
  BY <1>1 DEF SessionsLeft, GroupsLeft, AllSessions
<1>3. B \subseteq GroupsLeft
  <2>1. DOMAIN route \subseteq groups \cup {Admin, Hitl}
    BY DEF ServiceInv, SessionsInv, Placed
  <2> QED
    BY <1>2, <2>1
<1>4. AtMost(SessionsLeft, faults) /\ AtMost(GroupsLeft, faults) /\ faults \in Nat
  BY ServiceAssumption DEF ServiceInv, FewLeft, TypesInv, CountersTyped
<1> HIDE DEF A, B, C
<1>5. AtMost(A, faults) /\ AtMost(B, faults) /\ AtMost(C, faults)
  BY <1>2, <1>3, <1>4, StillFew
<1>6. Cardinality(A) <= faults /\ Cardinality(B) <= faults /\ Cardinality(C) <= faults
  BY <1>5 DEF AtMost
<1> QED
  BY <1>6 DEF LeakBound, A, B, C

\* Every variable has its type, the list of results is bounded, and a rollout is in
\* the list of waiters exactly while it waits.
THEOREM ServiceTypes == Spec => []TypeOK
BY ServiceInvariant, TypesFollow, PTL

\* What the reward of an episode was set on is in its result, for any number of calls
\* that were asked for twice and any answers lost elsewhere than in the export; with a
\* delayed reward the result may be empty instead, and is then never a part.
THEOREM RewardsAreReturned == Spec => []RewardedIsReturned
BY ServiceInvariant, ResultsFollow, PTL

\* No two rollouts return the same interaction, however the notices of the proxies,
\* the timeouts of the waiters and the exports interleave.
THEOREM InteractionsReturnedOnce == Spec => []ReturnedOnce
BY ServiceInvariant, ResultsFollow, PTL

\* The sessions, routes and groups that are left when no episode uses them are at most
\* as many as there were faults, for any number of episodes.
THEOREM LeaksAreBounded == Spec => []LeakBound
BY ServiceInvariant, LeaksFollow, PTL

=============================================================================
