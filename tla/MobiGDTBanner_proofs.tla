------------------------ MODULE MobiGDTBanner_proofs ------------------------
(***************************************************************************)
(* Proofs about MobiGDTBanner for every length of the waterfall and every  *)
(* number of config requests in flight.                                    *)
(***************************************************************************)
EXTENDS MobiGDTBanner, MobiWaterfall_proofs, TLAPS

\* A block b is on the queue q.
In(b, q) == \E i \in DOMAIN q : q[i] = b

\* Blocks are appended at one end of the queue and taken from the other.
LEMMA InAppend ==
    ASSUME NEW q \in Seq(Blocks), NEW b \in Blocks, NEW c \in Blocks
    PROVE  /\ In(b, Append(q, b))
           /\ In(c, q) => In(c, Append(q, b))
           /\ Append(q, b) \in Seq(Blocks) /\ Append(q, b) # <<>>
<1>1. Append(q, b)[Len(q) + 1] = b /\ Len(q) + 1 \in DOMAIN Append(q, b)
  OBVIOUS
<1>2. ASSUME NEW i \in DOMAIN q, q[i] = c
      PROVE  i \in DOMAIN Append(q, b) /\ Append(q, b)[i] = c
  BY <1>2
<1>3. Append(q, b) \in Seq(Blocks) /\ Append(q, b) # <<>>
  <2>1. Len(Append(q, b)) = Len(q) + 1 /\ Append(q, b) \in Seq(Blocks)
    OBVIOUS
  <2>2. Len(q) + 1 # 0
    OBVIOUS
  <2> QED BY <2>1, <2>2
<1> QED BY <1>1, <1>2, <1>3 DEF In

LEMMA InTail ==
    ASSUME NEW q \in Seq(Blocks), q # <<>>, NEW b \in Blocks,
           Head(q) # b, In(b, q)
    PROVE  In(b, Tail(q))
<1>1. PICK i \in DOMAIN q : q[i] = b
  BY DEF In
<1>2. i # 1
  BY <1>1
<1>3. i - 1 \in DOMAIN Tail(q) /\ Tail(q)[i - 1] = b
  BY <1>1, <1>2
<1> QED BY <1>3 DEF In

\* What a walk leaves behind: a failure that has been reported, or a new
\* adapter with a block on the queue that will ask it.
WalkOutcome(kept, queue) ==
    /\ remaining' \in Seq(Kinds) /\ Len(remaining') < MaxConfigs
    /\ \/ /\ requesting' \in {kept, "nil"}
          /\ mainQueue' = queue
          /\ io' = {"didFail"}
          /\ refreshTimer' = Scheduled
       \/ /\ requesting' = "new"
          /\ mainQueue' = Append(queue, "getAd")
          /\ io' = {}
          /\ refreshTimer' = refreshTimer

LEMMA WalkOutcomes ==
    ASSUME NEW cs \in Seq(Kinds), Len(cs) <= MaxConfigs, NEW kept, NEW queue,
           Walk(cs, kept, queue)
    PROVE  WalkOutcome(kept, queue)
<1>1. CASE /\ Exhausted(cs)
           /\ remaining' = <<>>
           /\ requesting' = IF cs = <<>> THEN kept ELSE "nil"
           /\ mainQueue' = queue
           /\ DidFailToLoadAdapter
  <2>1. remaining' \in Seq(Kinds) /\ Len(remaining') < MaxConfigs
    BY <1>1, NothingLeft
  <2> QED BY <1>1, <2>1 DEF WalkOutcome, DidFailToLoadAdapter
<1>2. ASSUME NEW k \in 1..Len(cs),
             remaining' = Rest(cs, k),
             \/ /\ cs[k] = "stop"
                /\ requesting' = IF k = 1 THEN kept ELSE "nil"
                /\ mainQueue' = queue
                /\ DidFailToLoadAdapter
             \/ /\ cs[k] = "gdt"
                /\ requesting' = "new"
                /\ mainQueue' = Append(queue, "getAd")
                /\ io' = {}
                /\ UNCHANGED refreshTimer
      PROVE  WalkOutcome(kept, queue)
  <2>1. remaining' \in Seq(Kinds) /\ Len(remaining') < MaxConfigs
    BY <1>2, RestType, MaxConfigsAssumption
  <2> QED BY <1>2, <2>1 DEF WalkOutcome, DidFailToLoadAdapter
<1> QED BY <1>1, <1>2 DEF Walk

----------------------------------------------------------------------------
(* The steps, seen from the load and from the screen.                      *)

\* A request has gone out, and its task runs or has outrun loadURL: and is in
\* its handler.
RequestOut ==
    /\ requesting' = "nil"
    /\ communicator' \in Communicators
    /\ \/ communicator'.task
       \/ communicator'.outrun /\ communicator'.handler # "idle"

\* A request has gone out, or the call has been ignored.
RequestOutcome ==
    \/ /\ Loading
       /\ requesting' = requesting /\ communicator' = communicator
    \/ RequestOut

LEMMA LoadAdWithURLOutcome ==
    ASSUME TypeOK, LoadAdWithURL
    PROVE  RequestOut
<1>1. Cancelled \in Nat
  BY DEF TypeOK, Communicators, Cancelled
<1>2. CASE communicator' = [communicator EXCEPT
              !.loading = TRUE, !.task = TRUE, !.cancelled = Cancelled,
              !.outrun = FALSE]
  BY <1>1, <1>2 DEF TypeOK, LoadAdWithURL, Communicators, RequestOut
<1>3. ASSUME NEW h \in {"answered", "failed"},
             communicator' = [communicator EXCEPT
               !.loading = TRUE, !.task = FALSE, !.cancelled = Cancelled,
               !.handler = h, !.outrun = TRUE]
      PROVE  RequestOut
  BY <1>1, <1>3
     DEF TypeOK, LoadAdWithURL, Communicators, Handlers, RequestOut
<1> QED BY <1>2, <1>3 DEF LoadAdWithURL, LoadURL

LEMMA LoadAdWithTargetingOutcome ==
    ASSUME TypeOK, NEW events \in SUBSET {"load"},
           LoadAdWithTargeting(events)
    PROVE  RequestOutcome /\ hasRequested' = TRUE
           /\ io' \subseteq {"load", "request"}
BY LoadAdWithURLOutcome DEF LoadAdWithTargeting, RequestOutcome

\* A banner that can be seen or is being closed is a typed adapter.
LEMMA VisibleBanner ==
    ASSUME TypeOK, onscreen # NoBanner
    PROVE  onscreen \in Banners
BY DEF TypeOK

\* The values that steps give the refresh timer.
LEMMA TimerTypes ==
    ASSUME TypeOK
    PROVE  Paused \in TimerStates /\ Scheduled \in TimerStates
BY DEF TypeOK, Paused, Scheduled, TimerStates

----------------------------------------------------------------------------
(* Types.                                                                  *)

LEMMA WalkType ==
    ASSUME TypeOK, NEW kept \in Requesting, NEW queue \in Seq(Blocks),
           WalkOutcome(kept, queue),
           onscreen' = onscreen, auto' = auto, hasRequested' = hasRequested,
           communicator' = communicator, active' = active
    PROVE  TypeOK'
<1>1. mainQueue' \in Seq(Blocks)
  BY InAppend DEF WalkOutcome, Blocks
<1>2. requesting' \in Requesting
  BY DEF WalkOutcome, Requesting
<1>3. refreshTimer' \in TimerStates
  BY TimerTypes DEF WalkOutcome, TypeOK
<1> QED BY <1>1, <1>2, <1>3 DEF WalkOutcome, TypeOK

LEMMA OnScreenFailedType ==
    ASSUME TypeOK, OnScreenFailed, remaining' = remaining,
           refreshTimer' = refreshTimer, auto' = auto,
           mainQueue' = mainQueue, active' = active
    PROVE  TypeOK'
<1>1. RequestOutcome /\ hasRequested' = TRUE /\ io' \subseteq {"load", "request"}
  BY LoadAdWithTargetingOutcome DEF OnScreenFailed
<1> QED BY <1>1 DEF RequestOutcome, RequestOut, OnScreenFailed, TypeOK, Requesting

LEMMA TypeStep == TypeOK /\ [Next]_vars => TypeOK'
<1> SUFFICES ASSUME TypeOK, [Next]_vars PROVE TypeOK'
  OBVIOUS
<1>1. CASE LoadAd
  <2>1. RequestOutcome /\ hasRequested' = TRUE
        /\ io' \subseteq {"load", "request"}
    BY <1>1, LoadAdWithTargetingOutcome DEF LoadAd
  <2> QED BY <1>1, <2>1 DEF LoadAd, RequestOutcome, RequestOut, TypeOK, Requesting
<1>2. CASE ForceRefreshAd
  BY <1>2, LoadAdWithURLOutcome
     DEF ForceRefreshAd, RequestOut, TypeOK, Requesting, refreshVars
<1>3. CASE StopRefreshing \/ StartRefreshing \/ DidEnterBackground
  BY <1>3, TimerTypes
     DEF StopRefreshing, StartRefreshing, DidEnterBackground, TypeOK,
         TimerStates
<1>4. CASE WillEnterForeground
  BY <1>4, LoadAdWithURLOutcome
     DEF WillEnterForeground, RequestOut, TypeOK, Requesting, refreshVars
<1>5. CASE RefreshTimerFires
  <2>1. CASE Loading
    BY <1>5, <2>1 DEF RefreshTimerFires, TypeOK, TimerStates
  <2>2. CASE ~Loading
    <3>1. RequestOutcome /\ hasRequested' = TRUE
          /\ io' \subseteq {"load", "request"}
      BY <1>5, <2>2, LoadAdWithTargetingOutcome DEF RefreshTimerFires
    <3> QED BY <1>5, <3>1
            DEF RefreshTimerFires, RequestOutcome, RequestOut, TypeOK,
                Requesting, TimerStates
  <2> QED BY <2>1, <2>2
<1>6. CASE TaskEnds \/ CancelledTaskEnds \/ HandlerFails
  <2>1. communicator.cancelled > 0 => communicator.cancelled - 1 \in Nat
    BY DEF TypeOK, Communicators
  <2>2. communicator' \in Communicators
    BY <1>6, <2>1
       DEF TaskEnds, CancelledTaskEnds, HandlerFails, TypeOK, Communicators,
           Handlers
  <2> QED BY <1>6, <2>2
          DEF TaskEnds, CancelledTaskEnds, HandlerFails, TypeOK, refreshVars
<1>7. CASE HandlerDispatches
  <2>1. mainQueue' \in Seq(Blocks)
    BY <1>7, InAppend DEF HandlerDispatches, TypeOK, Blocks
  <2>2. communicator' \in Communicators
    BY <1>7 DEF HandlerDispatches, TypeOK, Communicators, Handlers
  <2> QED BY <1>7, <2>1, <2>2 DEF HandlerDispatches, TypeOK, refreshVars
<1>8. CASE CommunicatorDidReceive
  <2>1. PICK cs \in Configs : Walk(cs, requesting, Tail(mainQueue))
    BY <1>8 DEF CommunicatorDidReceive
  <2>2. WalkOutcome(requesting, Tail(mainQueue))
    BY <2>1, ConfigsType, WalkOutcomes
  <2>3. Tail(mainQueue) \in Seq(Blocks)
    BY <1>8 DEF CommunicatorDidReceive, TypeOK
  <2> QED BY <1>8, <2>2, <2>3, WalkType DEF CommunicatorDidReceive, TypeOK
<1>9. CASE CommunicatorDidFail
  BY <1>9, TimerTypes
     DEF CommunicatorDidFail, DidFailToLoadAdapter, TypeOK
<1>10. CASE GetAd
  <2>1. Tail(mainQueue) \in Seq(Blocks)
    BY <1>10 DEF GetAd, TypeOK
  <2>2. ASSUME NEW kept \in {"failed"} \cup ({requesting} \ {"new"}),
               Walk(remaining, kept, Tail(mainQueue))
        PROVE  TypeOK'
    <3>1. Len(remaining) <= MaxConfigs
      BY MaxConfigsAssumption DEF TypeOK
    <3>2. WalkOutcome(kept, Tail(mainQueue))
      BY <2>2, <3>1, WalkOutcomes DEF TypeOK
    <3>3. kept \in Requesting
      BY <2>2 DEF TypeOK, Requesting
    <3> QED BY <1>10, <2>1, <3>2, <3>3, WalkType DEF GetAd
  <2> QED BY <1>10, <2>1, <2>2 DEF GetAd, TypeOK, Requesting
<1>11. CASE GDTDidLoad
  <2>1. PresentedBanner \in Banners
    BY DEF PresentedBanner, Banners
  <2> QED BY <1>11, <2>1, NothingLeft
          DEF GDTDidLoad, TypeOK, Requesting, refreshVars
<1>12. CASE GDTFailedToLoad
  <2>1. Len(remaining) <= MaxConfigs
    BY MaxConfigsAssumption DEF TypeOK
  <2>2. WalkOutcome("failed", mainQueue)
    BY <1>12, <2>1, WalkOutcomes DEF GDTFailedToLoad, TypeOK
  <2> QED BY <1>12, <2>2, WalkType DEF GDTFailedToLoad, TypeOK, Requesting
<1>13. CASE GDTSwitched
  <2>2. CASE onscreen.view = "gone"
    BY <1>13, <2>2, OnScreenFailedType DEF GDTSwitched
  <2>3. CASE onscreen.view # "gone"
    BY <1>13, <2>3 DEF GDTSwitched, TypeOK
  <2> QED BY <2>2, <2>3
<1>14. CASE GDTSwitchFailed
  BY <1>14, OnScreenFailedType DEF GDTSwitchFailed
<1>15. CASE GDTWillClose \/ CloseCompletes
  <2>1. onscreen \in Banners
    BY <1>15, VisibleBanner
       DEF GDTWillClose, CloseCompletes, NoBanner
  <2>2. onscreen' \in Banners
    BY <1>15, <2>1 DEF GDTWillClose, CloseCompletes, Banners
  <2> QED BY <1>15, <2>2
          DEF GDTWillClose, CloseCompletes, TypeOK, refreshVars
<1>16. CASE GDTWillLeaveApplication
  <2>1. onscreen \in Banners
    BY <1>16, VisibleBanner DEF GDTWillLeaveApplication, NoBanner
  <2>2. onscreen' \in Banners
    <3>1. onscreen.clicks + 1 \in Nat
      BY <2>1 DEF Banners
    <3> QED BY <1>16, <2>1, <3>1 DEF GDTWillLeaveApplication, Banners
  <2> QED BY <1>16, <2>2 DEF GDTWillLeaveApplication, TypeOK, refreshVars
<1>17. CASE ImpressionTimerFires
  <2>1. onscreen \in Banners
    BY <1>17, VisibleBanner DEF ImpressionTimerFires, NoBanner
  <2>2. onscreen' \in Banners
    <3>1. onscreen.impressions + 1 \in Nat
      BY <2>1 DEF Banners
    <3> QED BY <1>17, <2>1, <3>1 DEF ImpressionTimerFires, Banners
  <2> QED BY <1>17, <2>2, TimerTypes DEF ImpressionTimerFires, TypeOK
<1>18. CASE UNCHANGED vars
  BY <1>18 DEF vars, refreshVars, TypeOK
<1> QED
  BY <1>1, <1>2, <1>3, <1>4, <1>5, <1>6, <1>7, <1>8, <1>9, <1>10, <1>11,
     <1>12, <1>13, <1>14, <1>15, <1>16, <1>17, <1>18
     DEF Next, AppCalls, SessionRuns, MainQueueRuns, GDTCallbacks

LEMMA InitType == Init => TypeOK
<1> SUFFICES ASSUME Init PROVE TypeOK
  OBVIOUS
<1>1. remaining \in Seq(Kinds) /\ Len(remaining) < MaxConfigs
  BY NothingLeft DEF Init
<1>2. mainQueue \in Seq(Blocks)
  BY DEF Init
<1>3. communicator \in Communicators
  BY DEF Init, Communicators, Handlers
<1> QED BY <1>1, <1>2, <1>3 DEF Init, TypeOK, Requesting, TimerStates

\* Every variable has its type, and the configuration being fetched is no
\* longer in the manager's list, for waterfalls of every length.
THEOREM BannerTypeCorrect == Spec => []TypeOK
BY InitType, TypeStep, PTL DEF Spec

----------------------------------------------------------------------------
(* What is under way.                                                      *)

\* The communicator says loading only of a task that has not ended, or of one
\* that outran loadURL:, and a new adapter has its block on the queue, behind
\* whatever else is there.
LoadInv ==
    /\ communicator.loading => communicator.task \/ communicator.outrun
    /\ requesting = "new" => In("getAd", mainQueue)

LEMMA RequestLoadInv ==
    ASSUME LoadInv, RequestOutcome, mainQueue' = mainQueue
    PROVE  LoadInv'
BY DEF LoadInv, RequestOutcome, RequestOut, In

\* A walk that leaves the adapter it was given finds its block behind the
\* head of the queue.
LEMMA WalkLoadInv ==
    ASSUME TypeOK, LoadInv, NEW kept, NEW queue \in Seq(Blocks),
           kept = "new" => In("getAd", queue),
           WalkOutcome(kept, queue), communicator' = communicator
    PROVE  LoadInv'
<1>1. CASE requesting' \in {kept, "nil"} /\ mainQueue' = queue
  BY <1>1 DEF LoadInv, In
<1>2. CASE mainQueue' = Append(queue, "getAd")
  <2>1. In("getAd", Append(queue, "getAd"))
    BY InAppend DEF Blocks
  <2> QED BY <1>2, <2>1 DEF LoadInv, In
<1> QED BY <1>1, <1>2 DEF WalkOutcome

LEMMA LoadStep == TypeOK /\ LoadInv /\ [Next]_vars => LoadInv'
<1> SUFFICES ASSUME TypeOK, LoadInv, [Next]_vars PROVE LoadInv'
  OBVIOUS
<1>1. CASE LoadAd
  BY <1>1, LoadAdWithTargetingOutcome, RequestLoadInv DEF LoadAd
<1>2. CASE ForceRefreshAd
  BY <1>2, LoadAdWithURLOutcome, RequestLoadInv
     DEF ForceRefreshAd, RequestOutcome
<1>3. CASE StopRefreshing \/ StartRefreshing \/ DidEnterBackground
  BY <1>3 DEF StopRefreshing, StartRefreshing, DidEnterBackground, LoadInv, In
<1>4. CASE WillEnterForeground
  <2>1. CASE auto /\ hasRequested
    BY <1>4, <2>1, LoadAdWithURLOutcome, RequestLoadInv
       DEF WillEnterForeground, RequestOutcome
  <2>2. CASE ~(auto /\ hasRequested)
    BY <1>4, <2>2 DEF WillEnterForeground, LoadInv, In
  <2> QED BY <2>1, <2>2
<1>5. CASE RefreshTimerFires
  <2>1. CASE Loading
    BY <1>5, <2>1 DEF RefreshTimerFires, LoadInv, In
  <2>2. CASE ~Loading
    BY <1>5, <2>2, LoadAdWithTargetingOutcome, RequestLoadInv
       DEF RefreshTimerFires
  <2> QED BY <2>1, <2>2
<1>6. CASE TaskEnds \/ CancelledTaskEnds \/ HandlerFails
  <2>1. ~communicator'.loading
    BY <1>6
       DEF TaskEnds, CancelledTaskEnds, HandlerFails, TypeOK, Communicators
  <2> QED BY <1>6, <2>1
          DEF TaskEnds, CancelledTaskEnds, HandlerFails, LoadInv, In
<1>7. CASE HandlerDispatches
  <2>1. PICK b \in Blocks : mainQueue' = Append(mainQueue, b)
    BY <1>7 DEF HandlerDispatches, Blocks
  <2>2. In("getAd", mainQueue) => In("getAd", mainQueue')
    BY <2>1, InAppend DEF TypeOK, Blocks
  <2>3. /\ communicator'.loading = communicator.loading
        /\ communicator'.task = communicator.task
        /\ communicator'.outrun = communicator.outrun
        /\ requesting' = requesting
    BY <1>7 DEF HandlerDispatches, TypeOK, Communicators
  <2> QED BY <2>2, <2>3 DEF LoadInv, In
<1>8. CASE CommunicatorDidReceive
  <2>1. PICK cs \in Configs : Walk(cs, requesting, Tail(mainQueue))
    BY <1>8 DEF CommunicatorDidReceive
  <2>2. WalkOutcome(requesting, Tail(mainQueue))
    BY <2>1, ConfigsType, WalkOutcomes
  <2>3. Tail(mainQueue) \in Seq(Blocks)
    BY <1>8 DEF CommunicatorDidReceive, TypeOK
  <2>4. requesting = "new" => In("getAd", Tail(mainQueue))
    BY <1>8, InTail DEF CommunicatorDidReceive, LoadInv, TypeOK, Blocks
  <2> QED BY <1>8, <2>2, <2>3, <2>4, WalkLoadInv DEF CommunicatorDidReceive
<1>9. CASE CommunicatorDidFail
  <2>1. requesting = "new" => In("getAd", Tail(mainQueue))
    BY <1>9, InTail DEF CommunicatorDidFail, LoadInv, TypeOK, Blocks
  <2> QED BY <1>9, <2>1 DEF CommunicatorDidFail, LoadInv, In
<1>10. CASE GetAd
  <2>1. Tail(mainQueue) \in Seq(Blocks)
    BY <1>10 DEF GetAd, TypeOK
  <2>2. ASSUME NEW kept \in {"failed"} \cup ({requesting} \ {"new"}),
               Walk(remaining, kept, Tail(mainQueue))
        PROVE  LoadInv'
    <3>1. Len(remaining) <= MaxConfigs
      BY MaxConfigsAssumption DEF TypeOK
    <3>2. WalkOutcome(kept, Tail(mainQueue))
      BY <2>2, <3>1, WalkOutcomes DEF TypeOK
    <3>3. kept # "new"
      BY <2>2
    <3> QED BY <1>10, <2>1, <3>2, <3>3, WalkLoadInv DEF GetAd
  <2> QED BY <1>10, <2>2 DEF GetAd, LoadInv
<1>11. CASE GDTDidLoad
  BY <1>11 DEF GDTDidLoad, LoadInv
<1>12. CASE GDTFailedToLoad
  <2>1. Len(remaining) <= MaxConfigs
    BY MaxConfigsAssumption DEF TypeOK
  <2>2. WalkOutcome("failed", mainQueue)
    BY <1>12, <2>1, WalkOutcomes DEF GDTFailedToLoad, TypeOK
  <2> QED BY <1>12, <2>2, WalkLoadInv DEF GDTFailedToLoad, TypeOK
<1>13. CASE GDTSwitched
  <2>1. CASE onscreen.view = "gone"
    BY <1>13, <2>1, LoadAdWithTargetingOutcome, RequestLoadInv
       DEF GDTSwitched, OnScreenFailed
  <2>2. CASE onscreen.view # "gone"
    BY <1>13, <2>2 DEF GDTSwitched, LoadInv, In
  <2> QED BY <2>1, <2>2
<1>14. CASE GDTSwitchFailed
  BY <1>14, LoadAdWithTargetingOutcome, RequestLoadInv
     DEF GDTSwitchFailed, OnScreenFailed
<1>15. CASE \/ GDTWillClose \/ CloseCompletes
            \/ GDTWillLeaveApplication \/ ImpressionTimerFires
            \/ UNCHANGED vars
  BY <1>15
     DEF GDTWillClose, CloseCompletes, GDTWillLeaveApplication,
         ImpressionTimerFires, vars, LoadInv, In
<1> QED
  BY <1>1, <1>2, <1>3, <1>4, <1>5, <1>6, <1>7, <1>8, <1>9, <1>10, <1>11,
     <1>12, <1>13, <1>14, <1>15
     DEF Next, AppCalls, SessionRuns, MainQueueRuns, GDTCallbacks

LEMMA AlwaysLoadInv == Spec => [](TypeOK /\ LoadInv)
<1>1. Init => LoadInv
  BY DEF Init, LoadInv
<1> QED BY <1>1, InitType, TypeStep, LoadStep, PTL DEF Spec

LEMMA LoadInvMeansReal == TypeOK /\ LoadInv => LoadingIsReal
<1> SUFFICES ASSUME TypeOK, LoadInv PROVE LoadingIsReal
  OBVIOUS
<1>1. ASSUME In("getAd", mainQueue)
      PROVE  Queued("getAd") # {} /\ mainQueue # <<>>
  BY <1>1 DEF In, Queued, TypeOK
<1> QED BY <1>1
        DEF LoadInv, LoadingIsReal, Loading, InFlight, TypeOK, Requesting

\* Whichever requests are cancelled and whichever blocks run late, a manager
\* that ignores loads has something under way, a failed adapter on its hands,
\* or the loading of a task that outran loadURL:.
THEOREM LoadingTellsTheTruth == Spec => []LoadingIsReal
BY AlwaysLoadInv, LoadInvMeansReal, PTL

\* Which steps can take the view of a banner off the screen.
LEMMA ViewGoes ==
    ASSUME TypeOK, [Next]_vars, onscreen.view # onscreen'.view,
           onscreen'.view \in {"gone", "none"}
    PROVE  \/ onscreen.view = "closing" /\ onscreen'.view = "gone"
           \/ GDTSwitched /\ onscreen.view = "gone"
           \/ GDTSwitchFailed
<1>1. onscreen' # onscreen
  OBVIOUS
<1>2. ASSUME onscreen # NoBanner
      PROVE  ~(GDTWillClose \/ GDTWillLeaveApplication
               \/ ImpressionTimerFires)
  <2>1. onscreen \in Banners
    BY <1>2, VisibleBanner
  <2> QED BY <2>1
          DEF GDTWillClose, GDTWillLeaveApplication, ImpressionTimerFires,
              Banners
<1>3. ~(GDTWillClose \/ GDTWillLeaveApplication \/ ImpressionTimerFires)
  BY <1>2
     DEF GDTWillClose, GDTWillLeaveApplication, ImpressionTimerFires, NoBanner
<1>4. CloseCompletes => onscreen.view = "closing" /\ onscreen'.view = "gone"
  <2> SUFFICES ASSUME CloseCompletes
               PROVE  onscreen.view = "closing" /\ onscreen'.view = "gone"
    OBVIOUS
  <2>1. onscreen \in Banners
    BY VisibleBanner DEF CloseCompletes, NoBanner
  <2> QED BY <2>1 DEF CloseCompletes, Banners
<1>5. ~GDTDidLoad
  BY DEF GDTDidLoad, PresentedBanner
<1>6. GDTSwitched => onscreen.view = "gone"
  BY <1>1 DEF GDTSwitched
<1> QED
  BY <1>1, <1>3, <1>4, <1>5, <1>6
     DEF Next, AppCalls, SessionRuns, MainQueueRuns, GDTCallbacks, LoadAd,
         ForceRefreshAd, StopRefreshing, StartRefreshing,
         DidEnterBackground, WillEnterForeground, TaskEnds,
         CancelledTaskEnds, HandlerFails, HandlerDispatches,
         CommunicatorDidReceive, CommunicatorDidFail, GetAd,
         GDTFailedToLoad, RefreshTimerFires, vars

\* The view of the banner on the screen goes only when the user closes it or
\* when GDT fails it, and then another is on its way, or the manager is stuck
\* with a failed adapter or with the loading of a task that outran loadURL:.
THEOREM BannerStays == Spec => BannerIsReplaced
<1> DEFINE Kept ==
      onscreen.view # onscreen'.view /\ onscreen'.view \in {"gone", "none"} =>
        \/ onscreen.view = "closing" /\ onscreen'.view = "gone"
        \/ InFlight' \/ requesting = "failed" \/ communicator.outrun
<1>1. ASSUME TypeOK, LoadInv, [Next]_vars PROVE Kept
  <2> SUFFICES ASSUME \/ GDTSwitched /\ onscreen.view = "gone"
                      \/ GDTSwitchFailed
               PROVE  InFlight' \/ requesting = "failed"
                        \/ communicator.outrun
    BY <1>1, ViewGoes
  <2>1. RequestOutcome /\ mainQueue' = mainQueue
    BY <1>1, LoadAdWithTargetingOutcome
       DEF GDTSwitched, GDTSwitchFailed, OnScreenFailed
  <2>2. LoadingIsReal
    BY <1>1, LoadInvMeansReal
  <2> QED BY <2>1, <2>2
          DEF RequestOutcome, RequestOut, LoadingIsReal, InFlight
<1>2. TypeOK /\ LoadInv /\ [Next]_vars => [Kept]_vars
  BY <1>1
<1> QED BY <1>2, AlwaysLoadInv, PTL DEF Spec, BannerIsReplaced

----------------------------------------------------------------------------
(* Billing.                                                                *)

\* The counters follow the flags: a banner whose impression timer still ticks
\* has not been billed, and every billed click has set hasTrackedClick.
BillInv ==
    onscreen # NoBanner =>
      /\ onscreen.impressions <= 1
      /\ onscreen.impressionTimer => onscreen.impressions = 0
      /\ onscreen.clicks <= 1
      /\ ~onscreen.hasTrackedClick => onscreen.clicks = 0

LEMMA BillStep == TypeOK /\ BillInv /\ [Next]_vars => BillInv'
<1> SUFFICES ASSUME TypeOK, BillInv, [Next]_vars PROVE BillInv'
  OBVIOUS
<1>1. CASE UNCHANGED onscreen
  BY <1>1 DEF BillInv
<1>2. CASE GDTDidLoad
  BY <1>2 DEF GDTDidLoad, PresentedBanner, BillInv
<1>3. CASE onscreen' = NoBanner
  BY <1>3 DEF BillInv
<1>4. ASSUME onscreen # NoBanner,
             \E v \in {"closing", "gone"} :
               onscreen' = [onscreen EXCEPT !.view = v]
      PROVE  BillInv'
  <2>1. onscreen \in Banners
    BY <1>4, VisibleBanner
  <2>2. /\ onscreen'.impressions = onscreen.impressions
        /\ onscreen'.impressionTimer = onscreen.impressionTimer
        /\ onscreen'.clicks = onscreen.clicks
        /\ onscreen'.hasTrackedClick = onscreen.hasTrackedClick
    BY <1>4, <2>1 DEF Banners
  <2> QED BY <1>4, <2>2 DEF BillInv
<1>5. CASE GDTSwitched
  BY <1>1, <1>3, <1>5 DEF GDTSwitched, OnScreenFailed
<1>6. CASE GDTWillClose \/ CloseCompletes
  <2>1. onscreen # NoBanner
    BY <1>6 DEF GDTWillClose, CloseCompletes, NoBanner
  <2> QED BY <1>4, <1>6, <2>1 DEF GDTWillClose, CloseCompletes
<1>7. CASE GDTWillLeaveApplication
  <2>1. onscreen # NoBanner
    BY <1>7 DEF GDTWillLeaveApplication, NoBanner
  <2>2. onscreen \in Banners
    BY <2>1, VisibleBanner
  <2>3. CASE onscreen.hasTrackedClick
    BY <1>1, <1>7, <2>3 DEF GDTWillLeaveApplication
  <2>4. CASE ~onscreen.hasTrackedClick
    <3>1. onscreen.clicks = 0
      BY <2>1, <2>4 DEF BillInv
    <3>2. /\ onscreen'.impressions = onscreen.impressions
          /\ onscreen'.impressionTimer = onscreen.impressionTimer
          /\ onscreen'.clicks = onscreen.clicks + 1
          /\ onscreen'.hasTrackedClick
      BY <1>7, <2>2, <2>4 DEF GDTWillLeaveApplication, Banners
    <3> QED BY <2>1, <3>1, <3>2 DEF BillInv
  <2> QED BY <2>3, <2>4
<1>8. CASE ImpressionTimerFires
  <2>1. onscreen # NoBanner
    BY <1>8 DEF ImpressionTimerFires, NoBanner
  <2>2. onscreen \in Banners
    BY <2>1, VisibleBanner
  <2>3. onscreen.impressions = 0
    BY <1>8, <2>1 DEF ImpressionTimerFires, BillInv
  <2>4. /\ onscreen'.impressions = onscreen.impressions + 1
        /\ ~onscreen'.impressionTimer
        /\ onscreen'.clicks = onscreen.clicks
        /\ onscreen'.hasTrackedClick = onscreen.hasTrackedClick
    BY <1>8, <2>2 DEF ImpressionTimerFires, Banners
  <2> QED BY <2>1, <2>3, <2>4 DEF BillInv
<1>9. CASE GDTSwitchFailed
  BY <1>3, <1>9 DEF GDTSwitchFailed, OnScreenFailed
<1> QED
  BY <1>1, <1>2, <1>5, <1>6, <1>7, <1>8, <1>9
     DEF Next, AppCalls, SessionRuns, MainQueueRuns, GDTCallbacks, LoadAd,
         ForceRefreshAd, StopRefreshing, StartRefreshing,
         DidEnterBackground, WillEnterForeground, TaskEnds,
         CancelledTaskEnds, HandlerFails, HandlerDispatches,
         CommunicatorDidReceive, CommunicatorDidFail, GetAd,
         GDTFailedToLoad, RefreshTimerFires, vars

\* However often GDT switches the ad in the view and the user taps it, one
\* impression and one click are billed for one load.
THEOREM BannerBilling == Spec => []BilledOnce
<1>1. Init => BillInv
  BY DEF Init, BillInv
<1>2. BillInv => BilledOnce
  BY DEF BillInv, BilledOnce
<1> QED BY <1>1, <1>2, InitType, TypeStep, BillStep, PTL DEF Spec

----------------------------------------------------------------------------
(* The refresh timer.                                                      *)

\* Something is left that will schedule the refresh timer, or put a new
\* banner on the screen.
WillSchedule ==
    \/ communicator.task \/ communicator.cancelled > 0
    \/ communicator.handler # "idle" \/ requesting # "nil"
    \/ In("didReceive", mainQueue) \/ In("didFail", mainQueue)

\* A banner that has been seen is on the screen, and no timer is left that
\* will refresh it.
Unarmed ==
    /\ auto /\ refreshTimer = "spent"
    /\ onscreen # NoBanner /\ onscreen.impressions > 0

\* A refresh that is ignored for the loading of a task that outran loadURL:
\* is lost.
RefreshInv == Unarmed => WillSchedule \/ communicator.outrun

\* Outside the callbacks that change it, a banner that has been seen was seen
\* before.
SameBanner ==
    \/ onscreen' = onscreen
    \/ onscreen' = NoBanner
    \/ onscreen # NoBanner /\ onscreen'.impressions = onscreen.impressions

LEMMA KeptRefresh ==
    ASSUME RefreshInv, SameBanner, auto' = auto,
           refreshTimer' = refreshTimer, communicator' = communicator,
           WillSchedule => WillSchedule'
    PROVE  RefreshInv'
BY DEF RefreshInv, SameBanner, Unarmed

LEMMA RequestRefresh ==
    ASSUME TypeOK, LoadInv, RequestOutcome, mainQueue' = mainQueue
    PROVE  WillSchedule' \/ communicator'.outrun
BY DEF RequestOutcome, RequestOut, WillSchedule, Loading, LoadInv

\* A walk schedules the timer with its failure or leaves a new adapter.
LEMMA WalkRefresh ==
    ASSUME NEW kept, NEW queue, WalkOutcome(kept, queue), auto' = auto
    PROVE  RefreshInv'
BY DEF WalkOutcome, RefreshInv, Unarmed, WillSchedule, Scheduled

LEMMA RefreshStep ==
    TypeOK /\ LoadInv /\ RefreshInv /\ [Next]_vars => RefreshInv'
<1> SUFFICES ASSUME TypeOK, LoadInv, RefreshInv, [Next]_vars
             PROVE  RefreshInv'
  OBVIOUS
<1>1. CASE LoadAd
  BY <1>1, LoadAdWithTargetingOutcome, RequestRefresh DEF LoadAd, RefreshInv
<1>2. CASE ForceRefreshAd
  BY <1>2, LoadAdWithURLOutcome
     DEF ForceRefreshAd, RequestOut, RefreshInv, WillSchedule
<1>3. CASE StopRefreshing \/ StartRefreshing
  BY <1>3 DEF StopRefreshing, StartRefreshing, RefreshInv, Unarmed
<1>4. CASE DidEnterBackground
  BY <1>4 DEF DidEnterBackground, Paused, RefreshInv, Unarmed, WillSchedule, In
<1>5. CASE WillEnterForeground
  <2>1. CASE auto /\ hasRequested
    BY <1>5, <2>1, LoadAdWithURLOutcome
       DEF WillEnterForeground, RequestOut, RefreshInv, WillSchedule
  <2>2. CASE ~(auto /\ hasRequested)
    BY <1>5, <2>2, KeptRefresh
       DEF WillEnterForeground, SameBanner, WillSchedule, In, refreshVars
  <2> QED BY <2>1, <2>2
<1>6. CASE RefreshTimerFires
  <2>1. CASE Loading
    BY <1>6, <2>1
       DEF RefreshTimerFires, Loading, LoadInv, RefreshInv, WillSchedule
  <2>2. CASE ~Loading
    BY <1>6, <2>2, LoadAdWithTargetingOutcome, RequestRefresh
       DEF RefreshTimerFires, RefreshInv
  <2> QED BY <2>1, <2>2
<1>7. CASE TaskEnds \/ CancelledTaskEnds \/ HandlerFails
  <2>1. communicator'.handler # "idle"
    BY <1>7
       DEF TaskEnds, CancelledTaskEnds, HandlerFails, TypeOK, Communicators
  <2> QED BY <2>1 DEF RefreshInv, WillSchedule
<1>8. CASE HandlerDispatches
  <2>1. PICK b \in {"didReceive", "didFail"} :
          mainQueue' = Append(mainQueue, b)
    BY <1>8 DEF HandlerDispatches
  <2>2. In(b, mainQueue')
    BY <2>1, InAppend DEF TypeOK, Blocks
  <2> QED BY <2>1, <2>2 DEF RefreshInv, WillSchedule, In
<1>9. CASE CommunicatorDidReceive
  <2>1. PICK cs \in Configs : Walk(cs, requesting, Tail(mainQueue))
    BY <1>9 DEF CommunicatorDidReceive
  <2>2. WalkOutcome(requesting, Tail(mainQueue))
    BY <2>1, ConfigsType, WalkOutcomes
  <2> QED BY <1>9, <2>2, WalkRefresh DEF CommunicatorDidReceive
<1>10. CASE CommunicatorDidFail
  BY <1>10
     DEF CommunicatorDidFail, DidFailToLoadAdapter, Scheduled, RefreshInv,
         Unarmed
<1>11. CASE GetAd
  <2>1. ASSUME NEW kept, Walk(remaining, kept, Tail(mainQueue))
        PROVE  RefreshInv'
    <3>1. Len(remaining) <= MaxConfigs
      BY MaxConfigsAssumption DEF TypeOK
    <3>2. WalkOutcome(kept, Tail(mainQueue))
      BY <2>1, <3>1, WalkOutcomes DEF TypeOK
    <3> QED BY <1>11, <3>2, WalkRefresh DEF GetAd
  <2>2. CASE requesting' = "loading"
    BY <2>2 DEF RefreshInv, WillSchedule
  <2>3. CASE /\ requesting' = requesting /\ refreshTimer' = refreshTimer
             /\ mainQueue' = Tail(mainQueue)
    <3>1. ASSUME NEW b \in {"didReceive", "didFail"}, In(b, mainQueue)
          PROVE  In(b, mainQueue')
      <4>1. b \in Blocks /\ Head(mainQueue) # b /\ mainQueue # <<>>
        BY <1>11, <3>1 DEF GetAd, Blocks
      <4>2. In(b, Tail(mainQueue))
        BY <3>1, <4>1, InTail DEF TypeOK
      <4> QED BY <2>3, <4>2
    <3>2. WillSchedule => WillSchedule'
      BY <1>11, <2>3, <3>1 DEF GetAd, WillSchedule, In
    <3> QED BY <1>11, <2>3, <3>2, KeptRefresh DEF GetAd, SameBanner
  <2> QED BY <1>11, <2>1, <2>2, <2>3 DEF GetAd
<1>12. CASE GDTDidLoad
  BY <1>12 DEF GDTDidLoad, PresentedBanner, RefreshInv, Unarmed
<1>13. CASE GDTFailedToLoad
  <2>1. Len(remaining) <= MaxConfigs
    BY MaxConfigsAssumption DEF TypeOK
  <2>2. WalkOutcome("failed", mainQueue)
    BY <1>13, <2>1, WalkOutcomes DEF GDTFailedToLoad, TypeOK
  <2> QED BY <1>13, <2>2, WalkRefresh DEF GDTFailedToLoad
<1>14. CASE OnScreenFailed
  BY <1>14 DEF OnScreenFailed, RefreshInv, Unarmed
<1>15. CASE GDTSwitched /\ onscreen.view # "gone"
  BY <1>15, KeptRefresh DEF GDTSwitched, SameBanner, WillSchedule, In
<1>16. CASE GDTWillClose \/ CloseCompletes
            \/ GDTWillLeaveApplication
  <2>1. onscreen # NoBanner
    BY <1>16
       DEF GDTWillClose, CloseCompletes, NoBanner,
           GDTWillLeaveApplication
  <2>2. onscreen \in Banners
    BY <2>1, VisibleBanner
  <2>3. SameBanner
    BY <1>16, <2>1, <2>2
       DEF GDTWillClose, CloseCompletes, SameBanner, Banners,
           GDTWillLeaveApplication
  <2> QED BY <1>16, <2>3, KeptRefresh
          DEF GDTWillClose, CloseCompletes, WillSchedule, In,
              GDTWillLeaveApplication, refreshVars
<1>17. CASE ImpressionTimerFires
  BY <1>17 DEF ImpressionTimerFires, Scheduled, RefreshInv, Unarmed
<1>18. CASE UNCHANGED vars
  BY <1>18, KeptRefresh DEF vars, refreshVars, SameBanner, WillSchedule, In
<1> QED
  BY <1>1, <1>2, <1>3, <1>4, <1>5, <1>6, <1>7, <1>8, <1>9, <1>10, <1>11,
     <1>12, <1>13, <1>14, <1>15, <1>16, <1>17, <1>18
     DEF Next, AppCalls, SessionRuns, MainQueueRuns, GDTCallbacks, GDTSwitched,
         GDTSwitchFailed

\* When everything has come to rest below a banner that has been seen, a
\* manager that ever had a refresh timer, and is stuck neither with a failed
\* adapter nor with the loading of a task that outran loadURL:, still has it.
THEOREM RefreshGoesOn == Spec => []RefreshIsArmed
<1>1. Init => RefreshInv
  BY DEF Init, RefreshInv, Unarmed
<1>2. TypeOK /\ RefreshInv => RefreshIsArmed
  <2> SUFFICES ASSUME TypeOK, RefreshInv, auto, ~InFlight,
                      communicator.cancelled = 0, requesting = "nil",
                      ~communicator.outrun, onscreen # NoBanner,
                      onscreen.impressions > 0, refreshTimer # "nil"
               PROVE  refreshTimer \in {"counting", "paused"}
    BY DEF RefreshIsArmed
  <2>1. /\ ~communicator.task /\ communicator.handler = "idle"
        /\ mainQueue = <<>>
    BY DEF InFlight
  <2>2. ~WillSchedule
    BY <2>1 DEF WillSchedule, In
  <2> QED BY <2>2 DEF RefreshInv, Unarmed, TypeOK, TimerStates
<1> QED BY <1>1, <1>2, AlwaysLoadInv, RefreshStep, PTL DEF Spec
=============================================================================
