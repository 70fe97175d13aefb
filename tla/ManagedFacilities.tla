--------------------------- MODULE ManagedFacilities ---------------------------
(***************************************************************************)
(* The wiring of MultiTransportRemoteFacilityManagingUtils::                *)
(* SetupRemoteFacilities::run, for one distinguished (Designated) and one  *)
(* non-distinguished (Random) facility.  The heartbeat parser emits, per   *)
(* change, an array with one action per facility; the array is cloned to  *)
(* the distinguished branch and to the non-distinguished branch.  The     *)
(* distinguished facility's self-loop applies its action and, for a       *)
(* Register, primes the new session and passes the array on              *)
(* (nextTriggeringSource) only when the initial reply has come back.      *)
(* synchronizer2 pairs each such trigger with the next non-distinguished  *)
(* array, which then reaches the Random facility.  Every facility opens   *)
(* its sessions with the hooks it was constructed with.                   *)
(*                                                                         *)
(* The heartbeatParser is the HeartbeatTracker (spec 4.2) fed by the     *)
(* servers' heartbeats and the check timer; each server advertises its    *)
(* facility at its own locator.  The tracker, HeartbeatMessageToRemote-    *)
(* FacilityCommandConverter, setupVIEFacilitySelfLoopAndWait and the       *)
(* facilities' action handling are not under src/ and are modelled from   *)
(* the spec (4.2-4.4).                                                     *)
(***************************************************************************)
EXTENDS Naturals, Sequences

CONSTANTS
  DLocs,           \* servers of the distinguished facility's channel
  NLocs,           \* servers of the non-distinguished facility's channel
  Hooks,           \* hook pairs a factory can return
  NoHook,          \* std::nullopt: raw bytes both ways
  HookPairFactory, \* the hookPairFactory given to run(): [{"d","n"} \X Locs -> Hooks \cup {NoHook}]
  AllowCrash,      \* whether a distinguished server may die while primed
  TTL,             \* the ttl given to run()
  MaxTime,         \* bound on the clock
  MaxTicks         \* bound on the arrays the heartbeat parser emits

VARIABLES
  now, lastSeen, order, registered, \* HeartbeatTracker state
  cmds,         \* history of the parser's output arrays
  dQ,           \* distinguished branch: arrays waiting for the self-loop
  syncQ,        \* non-distinguished branch: arrays waiting in synchronizer2
  trig,         \* triggers from nextTriggeringSource waiting in synchronizer2
  nAct,         \* synchronized arrays waiting for the Random facility
  dSess, nSess, \* open sessions: locator -> hooks it was opened with
  waiting,      \* locator whose initial reply the self-loop waits for, or NoLoc
  up,           \* distinguished servers that are running
  dDone, nHist  \* arrays the self-loop has passed on; actions the Random facility applied

vars == <<now, lastSeen, order, registered, cmds, dQ, syncQ, trig, nAct, dSess, nSess, waiting, up, dDone, nHist>>

NoLoc == "none"
Actions(L) == [type : {"Register", "Deregister"}, loc : L] \cup {[type |-> "NoChange"]}
NoChange == [type |-> "NoChange"]

HT == INSTANCE HeartbeatTracker
        WITH Keys <- DLocs \cup NLocs, TTL <- TTL, MaxTime <- MaxTime,
             now <- now, lastSeen <- lastSeen, order <- order, registered <- registered
Arrays == [d : Actions(DLocs), n : Actions(NLocs)]

\* Open or close a session of a facility's live set.
Apply(sess, a, hook) ==
  CASE a.type = "Register"   -> [x \in DOMAIN sess \cup {a.loc} |-> IF x = a.loc THEN hook ELSE sess[x]]
    [] a.type = "Deregister" -> [x \in DOMAIN sess \ {a.loc} |-> sess[x]]
    [] OTHER                 -> sess

\* distinguishedSpecInputBrancher and nonDistinguishedSpecInputBrancher.
\* mutant of NonDistinguishedBranch: the wrong element of the pair is taken
NonDistinguishedBranchSwapped(arr) == [n |-> arr.d]
NonDistinguishedBranch(arr) == [n |-> arr.n]
DistinguishedBranch(arr) == [d |-> arr.d]

\* vieInputInject and getOneAction: the facility's own element of the array.
VieInputInject(arr) == arr.d
GetOneAction(arr) == arr.n

\* The hooks each facility opens a session with.  The Designated facility
\* is constructed without the factory; run() builds the Random facilities
\* without passing it on, so they get the default factory.
DesignatedHooks(l) == NoHook
DefaultHookPairFactory(f, l) == NoHook
RandomHooks(l) == DefaultHookPairFactory("n", l)

-----------------------------------------------------------------------------
\* HeartbeatMessageToRemoteFacilityCommandConverter: one array per tracker
\* action, the action at its facility's index and NoChange elsewhere.
ToArray(a) ==
  IF a.loc \in DLocs THEN [d |-> a, n |-> NoChange] ELSE [d |-> NoChange, n |-> a]

\* A running server's heartbeat reaches the heartbeat parser.
Heartbeat(l) ==
  /\ l \in DLocs => up[l]
  /\ HT!Heartbeat(l)
  /\ UNCHANGED <<cmds, dQ, syncQ, trig, nAct, dSess, nSess, waiting, up, dDone, nHist>>

\* The check timer fires: the parser's arrays are cloned into both
\* branchers, in the tracker's order.
Tick ==
  /\ LET arrs == [i \in DOMAIN HT!TickActions |-> ToArray(HT!TickActions[i])] IN
       /\ Len(cmds) + Len(arrs) <= MaxTicks
       /\ cmds' = cmds \o arrs
       /\ dQ' = dQ \o [i \in DOMAIN arrs |-> DistinguishedBranch(arrs[i])]
       /\ syncQ' = syncQ \o [i \in DOMAIN arrs |-> NonDistinguishedBranch(arrs[i])]
  /\ HT!TickUpdate
  /\ UNCHANGED <<trig, nAct, dSess, nSess, waiting, up, dDone, nHist>>

\* Time passes between inputs.
Advance ==
  /\ HT!Advance
  /\ UNCHANGED <<cmds, dQ, syncQ, trig, nAct, dSess, nSess, waiting, up, dDone, nHist>>

\* A distinguished server dies: its heartbeats stop.
Crash(l) ==
  /\ AllowCrash
  /\ up[l]
  /\ up' = [up EXCEPT ![l] = FALSE]
  /\ UNCHANGED <<now, lastSeen, order, registered, cmds, dQ, syncQ, trig, nAct, dSess, nSess, waiting, dDone, nHist>>

\* The self-loop takes the next action of the distinguished facility when
\* it is not waiting.  A Register opens the session and primes it, and the
\* array waits for the initial reply; otherwise it is passed on at once.
DApply ==
  /\ waiting = NoLoc
  /\ dQ # <<>>
  /\ LET a == VieInputInject(Head(dQ)) IN
       /\ dSess' = Apply(dSess, a, DesignatedHooks(a.loc))
       /\ IF a.type = "Register"
            THEN /\ waiting' = a.loc
                 /\ UNCHANGED <<trig, dDone>>
            ELSE /\ trig' = trig + 1
                 /\ dDone' = dDone + 1
                 /\ UNCHANGED waiting
  /\ dQ' = Tail(dQ)
  /\ UNCHANGED <<now, lastSeen, order, registered, cmds, syncQ, nAct, nSess, up, nHist>>

\* The primed server answers; the initial-callback filter accepts the reply
\* and nextTriggeringSource emits the array.
DInitialReply ==
  /\ waiting # NoLoc
  /\ up[waiting]
  /\ waiting' = NoLoc
  /\ trig' = trig + 1
  /\ dDone' = dDone + 1
  /\ UNCHANGED <<now, lastSeen, order, registered, cmds, dQ, syncQ, nAct, dSess, nSess, up, nHist>>

\* mutant of Synchronize: a latest-value synchronizer that keeps only the
\* newest waiting array
SynchronizeKeepLast ==
  /\ trig > 0
  /\ syncQ # <<>>
  /\ nAct' = Append(nAct, syncQ[Len(syncQ)])
  /\ syncQ' = <<>>
  /\ trig' = trig - 1
  /\ UNCHANGED <<now, lastSeen, order, registered, cmds, dQ, dSess, nSess, waiting, up, dDone, nHist>>

\* mutant of Synchronize: a trigger is only consumed once a second one waits
SynchronizeLate ==
  /\ trig > 1
  /\ syncQ # <<>>
  /\ nAct' = Append(nAct, Head(syncQ))
  /\ syncQ' = Tail(syncQ)
  /\ trig' = trig - 1
  /\ UNCHANGED <<now, lastSeen, order, registered, cmds, dQ, dSess, nSess, waiting, up, dDone, nHist>>

\* mutant of Synchronize: the non-distinguished array is not paired
SynchronizeUnpaired ==
  /\ syncQ # <<>>
  /\ nAct' = Append(nAct, Head(syncQ))
  /\ syncQ' = Tail(syncQ)
  /\ trig' = IF trig > 0 THEN trig - 1 ELSE 0
  /\ UNCHANGED <<now, lastSeen, order, registered, cmds, dQ, dSess, nSess, waiting, up, dDone, nHist>>

\* synchronizer2: one trigger (synchronizerInput maps the array to a
\* VoidStruct) and one non-distinguished array are consumed together.
Synchronize ==
  /\ trig > 0
  /\ syncQ # <<>>
  /\ nAct' = Append(nAct, Head(syncQ))
  /\ syncQ' = Tail(syncQ)
  /\ trig' = trig - 1
  /\ UNCHANGED <<now, lastSeen, order, registered, cmds, dQ, dSess, nSess, waiting, up, dDone, nHist>>

\* The Random facility applies its element of the array.
NApply ==
  /\ nAct # <<>>
  /\ LET a == GetOneAction(Head(nAct)) IN
       /\ nSess' = Apply(nSess, a, RandomHooks(a.loc))
       /\ nHist' = Append(nHist, a)
  /\ nAct' = Tail(nAct)
  /\ UNCHANGED <<now, lastSeen, order, registered, cmds, dQ, syncQ, trig, dSess, waiting, up, dDone>>

Init ==
  /\ HT!TrackerInit
  /\ cmds = <<>> /\ dQ = <<>> /\ syncQ = <<>> /\ nAct = <<>>
  /\ trig = 0
  /\ dSess = <<>> /\ nSess = <<>>
  /\ waiting = NoLoc
  /\ up = [l \in DLocs |-> TRUE]
  /\ dDone = 0 /\ nHist = <<>>

Next ==
  \/ \E l \in DLocs \cup NLocs : Heartbeat(l)
  \/ \E l \in DLocs : Crash(l)
  \/ Tick \/ Advance
  \/ DApply \/ DInitialReply \/ Synchronize \/ NApply

\* The dataflow threads run, and a running server answers its priming
\* request; nothing forces the tracker or a crash.
Fairness ==
  /\ WF_vars(DApply) /\ WF_vars(DInitialReply)
  /\ WF_vars(Synchronize) /\ WF_vars(NApply)

Spec == Init /\ [][Next]_vars /\ Fairness

-----------------------------------------------------------------------------
TypeOK ==
  /\ now \in 0..MaxTime /\ lastSeen \in [DOMAIN lastSeen -> 0..MaxTime]
  /\ DOMAIN lastSeen \subseteq DLocs \cup NLocs
  /\ registered \subseteq DLocs \cup NLocs
  /\ order \in Seq(DLocs \cup NLocs)
  /\ cmds \in Seq(Arrays)
  /\ dQ \in Seq([d : Actions(DLocs)])
  /\ syncQ \in Seq([n : Actions(NLocs)]) /\ nAct \in Seq([n : Actions(NLocs)])
  /\ trig \in 0..MaxTicks
  /\ DOMAIN dSess \subseteq DLocs /\ DOMAIN nSess \subseteq NLocs
  /\ waiting \in DLocs \cup {NoLoc}
  /\ up \in [DLocs -> BOOLEAN]
  /\ dDone \in 0..MaxTicks /\ nHist \in Seq(Actions(NLocs))

\* Safety (synchronizer2 in run()): the non-distinguished facilities get the
\* arrays in the parser's order, and the array of a change is released to
\* them only after the distinguished self-loop has finished with it (its
\* initial reply included).
NonDistinguishedAfterDistinguished ==
  /\ Len(nHist) + Len(nAct) <= dDone
  /\ \A k \in 1..Len(nHist) : nHist[k] = cmds[k].n

\* Liveness (self-loop chain and synchronizer2): every array the heartbeat
\* parser emits is eventually applied by the non-distinguished facility.
AllTicksApplied ==
  \A k \in 1..MaxTicks : (Len(cmds) >= k) ~> (Len(nHist) >= k)

\* Liveness with dying servers (self-loop chain and synchronizer2): every
\* array the parser emits is eventually applied by the non-distinguished
\* facility, unless the self-loop waits for the initial reply of a primed
\* distinguished server that has died; nothing else may hold changes back.
ProgressUnlessPrimedServerDied ==
  \A k \in 1..MaxTicks :
    (Len(cmds) >= k) ~> (Len(nHist) >= k \/ (waiting # NoLoc /\ ~up[waiting]))

\* The dataflow holds no array anywhere: both branches, synchronizer2 and
\* the self-loop are idle.
Quiescent ==
  dQ = <<>> /\ syncQ = <<>> /\ nAct = <<>> /\ waiting = NoLoc

\* Safety (spec 3, FacilityLiveSet; tracker, branchers, self-loop and
\* synchronizer2 together): whenever no array is in flight, each
\* facility's live set holds exactly the servers whose last action from
\* the tracker was Register.
LiveSetsFollowTracker ==
  Quiescent => /\ DOMAIN dSess = registered \cap DLocs
               /\ DOMAIN nSess = registered \cap NLocs

\* Safety (run(), facility construction): every session is opened with the
\* hooks the hookPairFactory given to run() returns for its facility and
\* locator (spec 6: the factory is called once per session-open).
SessionsUseFactoryHooks ==
  /\ \A l \in DOMAIN dSess : dSess[l] = HookPairFactory[<<"d", l>>]
  /\ \A l \in DOMAIN nSess : nSess[l] = HookPairFactory[<<"n", l>>]

=============================================================================
