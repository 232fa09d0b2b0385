---------------------------- MODULE MobiGDTBanner ----------------------------
(***************************************************************************)
(* Banner ads through GDT: the objects behind one MPAdView.                *)
(*                                                                         *)
(*   app -> MPAdView -> MPBannerAdManager -> MPBannerCustomEventAdapter    *)
(*       -> MobiGDTBannerCustomEvent -> GDTUnifiedBannerView               *)
(*                                                                         *)
(* The manager keeps two adapters, one on the screen and one that loads    *)
(* its successor, and refreshes by a timer.  Unlike the other formats it   *)
(* cancels config requests, and it asks an adapter for its ad in a block   *)
(* put on the main queue, which is therefore part of the state.  One       *)
(* action is one entry on the main thread with every call it makes, or one *)
(* step of a completion handler on the queue of the HTTP session, which    *)
(* writes the communicator's loading without a lock.                       *)
(*                                                                         *)
(* A "refused" configuration is here one without a custom event class; one *)
(* with a wrong class or without an adunit fails only when it is asked.    *)
(***************************************************************************)
EXTENDS MobiWaterfall

CONSTANT MaxRequests  \* bound on the config requests not answered yet

ASSUME MaxRequestsAssumption == MaxRequests \in Nat \ {0}

VARIABLES
    requesting,    \* requestingAdapter and what its custom event is doing
    onscreen,      \* onscreenAdapter
    remaining,     \* the configurations the manager has not tried yet
    refreshTimer,
    auto,          \* automaticallyRefreshesContents
    hasRequested,  \* hasRequestedAtLeastOneAd
    communicator,  \* the config server client
    mainQueue,     \* blocks dispatched to the main queue
    active,        \* the application is not in the background
    io             \* calls, requests and callbacks of the last step

refreshVars == <<refreshTimer, auto, hasRequested>>
vars == <<requesting, onscreen, remaining, refreshVars, communicator,
          mainQueue, active, io>>

\* The custom event of requestingAdapter: not there yet, loading its
\* GDTUnifiedBannerView, or failed; "nil": there is no such adapter.
Requesting == {"nil", "new", "loading", "failed"}

Banners == [
    view : {"shown", "closing", "gone"},  \* "gone": bannerView is nil
    impressionTimer : BOOLEAN, \* ticking
    impressions : Nat,         \* impressions reported to the tracker
    hasTrackedClick : BOOLEAN,
    clicks : Nat]              \* clicks reported to the tracker

NoBanner == [view |-> "none"]

\* presentRequestingAdapter with didDisplayAd, which starts the timer.
PresentedBanner == [view |-> "shown", impressionTimer |-> TRUE,
                    impressions |-> 0, hasTrackedClick |-> FALSE, clicks |-> 0]

\* "spent": fired or invalidated, and still held by the manager.
TimerStates == {"nil", "counting", "paused", "spent"}

\* The completion handler on the session's serial queue, which has cleared
\* loading and not yet dispatched its result.
Handlers == {"idle", "answered", "failed"}

Communicators == [
    loading : BOOLEAN,
    task : BOOLEAN,      \* the HTTP task has not ended
    cancelled : Nat,     \* cancelled tasks that have not ended
    handler : Handlers,
    outrun : BOOLEAN]    \* history: the task's handler cleared loading before
                         \* loadURL: set it, and nothing has cleared it since

Blocks == {"didReceive", "didFail", "getAd"}

Queued(b) == {i \in DOMAIN mainQueue : mainQueue[i] = b}

NoAnswerYet ==
    (IF communicator.task THEN 1 ELSE 0) + communicator.cancelled
    + (IF communicator.handler # "idle" THEN 1 ELSE 0)
    + Len(SelectSeq(mainQueue, LAMBDA b : b # "getAd"))

Init ==
    /\ requesting = "nil" /\ onscreen = NoBanner
    /\ remaining = <<>>
    /\ refreshTimer = "nil" /\ auto = TRUE /\ hasRequested = FALSE
    /\ communicator = [loading |-> FALSE, task |-> FALSE, cancelled |-> 0,
                       handler |-> "idle", outrun |-> FALSE]
    /\ mainQueue = <<>>
    /\ active = TRUE
    /\ io = {}

----------------------------------------------------------------------------
(* The manager.                                                            *)

\* loading.
Loading == communicator.loading \/ requesting # "nil"

\* The tasks that will end late once cancel has been called.
Cancelled == communicator.cancelled + (IF communicator.task THEN 1 ELSE 0)

\* loadURL: cancels the task and starts another.  It sets loading after it has
\* resumed the new task: a handler that runs in between clears loading first,
\* and loading stays set for a task that has ended.
LoadURL ==
    \/ communicator' = [communicator EXCEPT
           !.loading = TRUE, !.task = TRUE, !.cancelled = Cancelled,
           !.outrun = FALSE]
    \/ /\ communicator.handler = "idle"
       /\ \E h \in {"answered", "failed"} :
            communicator' = [communicator EXCEPT
              !.loading = TRUE, !.task = FALSE, !.cancelled = Cancelled,
              !.handler = h, !.outrun = TRUE]

\* loadAdWithURL: drops the load under way.
LoadAdWithURL ==
    /\ NoAnswerYet < MaxRequests
    /\ requesting' = "nil"
    /\ LoadURL

\* loadAdWithTargeting:, which ignores a call while it is loading.
LoadAdWithTargeting(events) ==
    /\ hasRequested' = TRUE
    /\ IF Loading
         THEN UNCHANGED <<requesting, communicator>> /\ io' = events
         ELSE LoadAdWithURL /\ io' = events \cup {"request"}

\* pauseRefreshTimer.
Paused == IF refreshTimer = "counting" THEN "paused" ELSE refreshTimer

\* scheduleRefreshTimer; its interval is the SDK's default, not 0.
Scheduled == CASE auto -> "counting"
               [] ~auto /\ refreshTimer = "nil" -> "nil"
               [] OTHER -> "spent"

\* didFailToLoadAdapterWithError:
DidFailToLoadAdapter ==
    /\ io' = {"didFail"}
    /\ refreshTimer' = Scheduled

\* Mutant: a configuration that the ad server is still warming up ends the
\* load without a word.
WalkSilentStop(cs, kept, queue) ==
    \/ /\ Exhausted(cs)
       /\ remaining' = <<>>
       /\ requesting' = IF cs = <<>> THEN kept ELSE "nil"
       /\ mainQueue' = queue
       /\ DidFailToLoadAdapter
    \/ \E k \in 1..Len(cs) :
         /\ StopsAt(cs, k)
         /\ remaining' = Rest(cs, k)
         /\ \/ /\ cs[k] = "stop"
               /\ requesting' = IF k = 1 THEN kept ELSE "nil"
               /\ mainQueue' = queue
               /\ io' = {}
               /\ UNCHANGED refreshTimer
            \/ /\ cs[k] = "gdt"
               /\ requesting' = "new"
               /\ mainQueue' = Append(queue, "getAd")
               /\ io' = {}
               /\ UNCHANGED refreshTimer

\* fetchAdWithConfiguration: and the fetches that follow a failure within it;
\* cs are the configurations left, kept is requestingAdapter as it stays if
\* no configuration replaces it, queue the main queue without this block.
Walk(cs, kept, queue) ==
    \/ /\ Exhausted(cs)
       /\ remaining' = <<>>
       /\ requesting' = IF cs = <<>> THEN kept ELSE "nil"
       /\ mainQueue' = queue
       /\ DidFailToLoadAdapter
    \/ \E k \in 1..Len(cs) :
         /\ StopsAt(cs, k)
         /\ remaining' = Rest(cs, k)
         /\ \/ /\ cs[k] = "stop"
               /\ requesting' = IF k = 1 THEN kept ELSE "nil"
               /\ mainQueue' = queue
               /\ DidFailToLoadAdapter
            \/ /\ cs[k] = "gdt"
               /\ requesting' = "new"
               /\ mainQueue' = Append(queue, "getAd")
               /\ io' = {}
               /\ UNCHANGED refreshTimer

\* Mutant: the banner is taken away and no other is asked for.
OnScreenFailedNoReload ==
    /\ onscreen' = NoBanner
    /\ io' = {}
    /\ UNCHANGED <<requesting, communicator, hasRequested>>

\* adapter:didFailToLoadAdWithError: of onscreenAdapter.  No adapter waits to
\* be presented: that takes an action in progress, and the custom event
\* reports none.
OnScreenFailed ==
    /\ onscreen' = NoBanner
    /\ LoadAdWithTargeting({})

----------------------------------------------------------------------------
(* The app.                                                                *)

\* loadAd.
LoadAd ==
    /\ LoadAdWithTargeting({"load"})
    /\ UNCHANGED <<onscreen, remaining, refreshTimer, auto, mainQueue, active>>

\* forceRefreshAd.
ForceRefreshAd ==
    /\ LoadAdWithURL
    /\ io' = {"load", "request"}
    /\ UNCHANGED <<onscreen, remaining, refreshVars, mainQueue, active>>

\* stopAutomaticallyRefreshingContents.
StopRefreshing ==
    /\ auto' = FALSE
    /\ refreshTimer' = Paused
    /\ io' = {}
    /\ UNCHANGED <<requesting, onscreen, remaining, hasRequested,
                   communicator, mainQueue, active>>

\* Mutant: a timer that has fired is not replaced.
StartRefreshingResumes ==
    /\ auto' = TRUE
    /\ refreshTimer' = IF refreshTimer = "paused" THEN "counting"
                       ELSE refreshTimer
    /\ io' = {}
    /\ UNCHANGED <<requesting, onscreen, remaining, hasRequested,
                   communicator, mainQueue, active>>

\* startAutomaticallyRefreshingContents, which leaves a timer that was never
\* made alone.
StartRefreshing ==
    /\ auto' = TRUE
    /\ refreshTimer' = IF refreshTimer = "nil" THEN "nil" ELSE "counting"
    /\ io' = {}
    /\ UNCHANGED <<requesting, onscreen, remaining, hasRequested,
                   communicator, mainQueue, active>>

\* applicationDidEnterBackground.
DidEnterBackground ==
    /\ active
    /\ active' = FALSE
    /\ refreshTimer' = Paused
    /\ io' = {}
    /\ UNCHANGED <<requesting, onscreen, remaining, auto, hasRequested,
                   communicator, mainQueue>>

\* applicationWillEnterForeground.
WillEnterForeground ==
    /\ ~active
    /\ active' = TRUE
    /\ IF auto /\ hasRequested
         THEN LoadAdWithURL /\ io' = {"request"}
         ELSE UNCHANGED <<requesting, communicator>> /\ io' = {}
    /\ UNCHANGED <<onscreen, remaining, refreshVars, mainQueue>>

\* refreshTimerDidFire; the timer does not repeat.
RefreshTimerFires ==
    /\ refreshTimer = "counting"
    /\ refreshTimer' = "spent"
    /\ IF Loading
         THEN UNCHANGED <<requesting, communicator, hasRequested>> /\ io' = {}
         ELSE LoadAdWithTargeting({})
    /\ UNCHANGED <<onscreen, remaining, auto, mainQueue, active>>

----------------------------------------------------------------------------
(* The config server: the handler of a task that has ended runs on the     *)
(* session's serial queue, and its result waits on the main queue.         *)

\* Mutant: the end of a task leaves loading set.
TaskEndsStillLoading ==
    /\ communicator.task /\ communicator.handler = "idle"
    /\ \E h \in {"answered", "failed"} :
         communicator' = [communicator EXCEPT !.task = FALSE, !.handler = h]
    /\ io' = {}
    /\ UNCHANGED <<requesting, onscreen, remaining, refreshVars, mainQueue,
                   active>>

\* didFinishLoadingWithData: or didFailWithError: up to where they clear
\* loading.
TaskEnds ==
    /\ communicator.task /\ communicator.handler = "idle"
    /\ \E h \in {"answered", "failed"} :
         communicator' = [communicator EXCEPT !.task = FALSE, !.handler = h,
                            !.loading = FALSE, !.outrun = FALSE]
    /\ io' = {}
    /\ UNCHANGED <<requesting, onscreen, remaining, refreshVars, mainQueue,
                   active>>

\* The same for a task that was cancelled, with an error or with the answer
\* that had already come; it clears loading although that is about the newer
\* task.
CancelledTaskEnds ==
    /\ communicator.cancelled > 0 /\ communicator.handler = "idle"
    /\ \E h \in {"answered", "failed"} :
         communicator' = [communicator EXCEPT !.cancelled = @ - 1,
                            !.handler = h, !.loading = FALSE,
                            !.outrun = FALSE]
    /\ io' = {}
    /\ UNCHANGED <<requesting, onscreen, remaining, refreshVars, mainQueue,
                   active>>

\* An answer that does not parse, has a code or no ads goes on to
\* didFailWithError:, which clears loading again.
HandlerFails ==
    /\ communicator.handler = "answered"
    /\ communicator' = [communicator EXCEPT !.handler = "failed",
                          !.loading = FALSE, !.outrun = FALSE]
    /\ io' = {}
    /\ UNCHANGED <<requesting, onscreen, remaining, refreshVars, mainQueue,
                   active>>

\* The handler dispatches its result and is done.
HandlerDispatches ==
    /\ communicator.handler # "idle"
    /\ mainQueue' = Append(mainQueue, IF communicator.handler = "answered"
                                        THEN "didReceive" ELSE "didFail")
    /\ communicator' = [communicator EXCEPT !.handler = "idle"]
    /\ io' = {}
    /\ UNCHANGED <<requesting, onscreen, remaining, refreshVars, active>>

CommunicatorDidReceive ==
    /\ mainQueue # <<>> /\ Head(mainQueue) = "didReceive"
    /\ \E cs \in Configs : Walk(cs, requesting, Tail(mainQueue))
    /\ UNCHANGED <<onscreen, auto, hasRequested, communicator, active>>

CommunicatorDidFail ==
    /\ mainQueue # <<>> /\ Head(mainQueue) = "didFail"
    /\ mainQueue' = Tail(mainQueue)
    /\ DidFailToLoadAdapter
    /\ UNCHANGED <<requesting, onscreen, remaining, auto, hasRequested,
                   communicator, active>>

\* The block of fetchAdWithConfiguration: asks the adapter that the manager
\* has by then.  Its class may be wrong, which leaves a custom event that the
\* adapter already has alone, or the adunit missing: both fail at once.
GetAd ==
    /\ mainQueue # <<>> /\ Head(mainQueue) = "getAd"
    /\ \/ /\ requesting = "nil"
          /\ mainQueue' = Tail(mainQueue)
          /\ io' = {}
          /\ UNCHANGED <<requesting, remaining, refreshTimer>>
       \/ /\ requesting # "nil"
          /\ requesting' = "loading"
          /\ mainQueue' = Tail(mainQueue)
          /\ io' = {}
          /\ UNCHANGED <<remaining, refreshTimer>>
       \/ /\ requesting # "nil"
          /\ \E kept \in {"failed"} \cup ({requesting} \ {"new"}) :
               Walk(remaining, kept, Tail(mainQueue))
    /\ UNCHANGED <<onscreen, auto, hasRequested, communicator, active>>

----------------------------------------------------------------------------
(* GDT's callbacks to the custom events.                                   *)

\* unifiedBannerViewDidLoad: of the adapter that loads: it takes the place of
\* the one on the screen.
GDTDidLoad ==
    /\ requesting = "loading"
    /\ requesting' = "nil"
    /\ onscreen' = PresentedBanner
    /\ remaining' = <<>>
    /\ io' = {"didLoad"}
    /\ UNCHANGED <<refreshVars, communicator, mainQueue, active>>

\* unifiedBannerViewFailedToLoad:error: of the adapter that loads.
GDTFailedToLoad ==
    /\ requesting = "loading"
    /\ Walk(remaining, "failed", mainQueue)
    /\ UNCHANGED <<onscreen, auto, hasRequested, communicator, active>>

\* unifiedBannerViewDidLoad: of the view on the screen, which loads its next ad
\* every autoSwitchInterval and may have begun to before it was closed.  The
\* manager ignores it, unless bannerView has been cleared by a close: an ad
\* that is nil is a failure.
GDTSwitched ==
    /\ onscreen # NoBanner
    /\ IF onscreen.view = "gone"
         THEN OnScreenFailed
         ELSE /\ io' = {}
              /\ UNCHANGED <<requesting, onscreen, communicator, hasRequested>>
    /\ UNCHANGED <<remaining, refreshTimer, auto, mainQueue, active>>

\* unifiedBannerViewFailedToLoad:error: of the view on the screen.
GDTSwitchFailed ==
    /\ onscreen # NoBanner
    /\ OnScreenFailed
    /\ UNCHANGED <<remaining, refreshTimer, auto, mainQueue, active>>

\* Mutant: the timer goes on ticking.
ImpressionTimerTicksOn ==
    /\ active
    /\ onscreen.view \in {"shown", "closing"} /\ onscreen.impressionTimer
    /\ onscreen' = [onscreen EXCEPT !.impressions = @ + 1]
    /\ refreshTimer' = Scheduled
    /\ io' = {}
    /\ UNCHANGED <<requesting, remaining, auto, hasRequested, communicator,
                   mainQueue, active>>

\* The tick at which the banner has been visible for long enough, with
\* trackImpression and adapterDidTrackImpressionForAd:  A view that fades out
\* is still visible to it.
ImpressionTimerFires ==
    /\ active
    /\ onscreen.view \in {"shown", "closing"} /\ onscreen.impressionTimer
    /\ onscreen' = [onscreen EXCEPT !.impressionTimer = FALSE,
                                    !.impressions = @ + 1]
    /\ refreshTimer' = Scheduled
    /\ io' = {}
    /\ UNCHANGED <<requesting, remaining, auto, hasRequested, communicator,
                   mainQueue, active>>

\* unifiedBannerViewWillLeaveApplication:, with trackClickOnce; what it tells
\* the app is not part of io.  The callbacks
\* for an exposure, a click and a close go to selectors that the adapter does
\* not have.
GDTWillLeaveApplication ==
    /\ onscreen.view = "shown"
    /\ onscreen' = IF onscreen.hasTrackedClick THEN onscreen
                   ELSE [onscreen EXCEPT !.hasTrackedClick = TRUE,
                                         !.clicks = @ + 1]
    /\ io' = {}
    /\ UNCHANGED <<requesting, remaining, refreshVars, communicator,
                   mainQueue, active>>

\* unifiedBannerViewWillClose: begins to fade the view out.
GDTWillClose ==
    /\ onscreen.view = "shown"
    /\ onscreen' = [onscreen EXCEPT !.view = "closing"]
    /\ io' = {}
    /\ UNCHANGED <<requesting, remaining, refreshVars, communicator,
                   mainQueue, active>>

\* The completion block of that animation.
CloseCompletes ==
    /\ onscreen.view = "closing"
    /\ onscreen' = [onscreen EXCEPT !.view = "gone"]
    /\ io' = {}
    /\ UNCHANGED <<requesting, remaining, refreshVars, communicator,
                   mainQueue, active>>

----------------------------------------------------------------------------
AppCalls ==
    \/ LoadAd \/ ForceRefreshAd \/ StopRefreshing \/ StartRefreshing
    \/ DidEnterBackground \/ WillEnterForeground

SessionRuns ==
    TaskEnds \/ CancelledTaskEnds \/ HandlerFails \/ HandlerDispatches

MainQueueRuns == CommunicatorDidReceive \/ CommunicatorDidFail \/ GetAd

GDTCallbacks ==
    \/ GDTDidLoad \/ GDTFailedToLoad \/ GDTSwitched \/ GDTSwitchFailed
    \/ GDTWillLeaveApplication \/ GDTWillClose

Next ==
    \/ AppCalls \/ SessionRuns \/ MainQueueRuns \/ GDTCallbacks
    \/ RefreshTimerFires \/ ImpressionTimerFires \/ CloseCompletes

\* The HTTP session ends every task, cancelled ones included, its queue runs
\* every handler to its end, and the run loop drains the main queue.  The app,
\* the user and GDT owe nothing.
Spec ==
    /\ Init /\ [][Next]_vars
    /\ WF_vars(TaskEnds) /\ WF_vars(CancelledTaskEnds)
    /\ WF_vars(HandlerDispatches) /\ WF_vars(MainQueueRuns)

----------------------------------------------------------------------------
(* Properties.                                                             *)

\* Something is under way that will be heard of: a task, its handler, a block
\* on the main queue, or a GDT load.
InFlight ==
    \/ communicator.task \/ communicator.handler # "idle"
    \/ mainQueue # <<>> \/ requesting = "loading"

\* Every variable has its type; the configuration being fetched is no longer
\* in the manager's list.
TypeOK ==
    /\ requesting \in Requesting
    /\ onscreen \in Banners \cup {NoBanner}
    /\ remaining \in Seq(Kinds) /\ Len(remaining) < MaxConfigs
    /\ refreshTimer \in TimerStates
    /\ auto \in BOOLEAN
    /\ hasRequested \in BOOLEAN
    /\ communicator \in Communicators
    /\ mainQueue \in Seq(Blocks)
    /\ active \in BOOLEAN
    /\ io \subseteq {"load", "request", "didLoad", "didFail"}

\* While the manager ignores loads because it is loading, something is under
\* way, or it is left with the failed adapter of an exhausted waterfall, or
\* with the loading of a task that outran loadURL:.  A new adapter is never
\* forgotten, whichever blocks and cancelled tasks come first.
LoadingIsReal ==
    /\ Loading =>
         InFlight \/ requesting = "failed" \/ communicator.outrun
    /\ requesting = "new" => Queued("getAd") # {}

\* When nothing is under way and the banner on the screen has been seen, the
\* refresh timer runs or is paused, if refreshing is on, unless the manager
\* has been left with a failed adapter or with the loading of a task that
\* outran loadURL:, or has never had a timer.
RefreshIsArmed ==
    auto /\ ~InFlight /\ communicator.cancelled = 0 /\ requesting = "nil"
      /\ ~communicator.outrun
      /\ onscreen # NoBanner /\ onscreen.impressions > 0
      /\ refreshTimer # "nil"
    => refreshTimer \in {"counting", "paused"}

\* However often GDT switches the ad in the view and the user taps it, one
\* impression and one click are billed for one load.
BilledOnce ==
    onscreen # NoBanner => onscreen.impressions <= 1 /\ onscreen.clicks <= 1

\* A banner's view is taken off the screen with nothing in its place only by
\* the user who closes it, or when GDT fails it; in the second case something
\* is on its way, unless the manager has been left with a failed adapter or
\* with the loading of a task that outran loadURL:.
BannerIsReplaced ==
    [][LET from == onscreen.view
           to == onscreen'.view
       IN  from # to /\ to \in {"gone", "none"} =>
             \/ from = "closing" /\ to = "gone"
             \/ InFlight' \/ requesting = "failed" \/ communicator.outrun]_vars

\* A config request comes to an answer to the app or to a load at GDT, unless
\* a newer request takes its place; cancelled tasks do not get in its way.
\* The failure of a cancelled task counts as an answer: the manager cannot
\* tell it from the request's own.
RequestIsAnswered ==
    communicator.task \/ communicator.handler # "idle"
      ~> (\/ io \cap {"didLoad", "didFail", "request"} # {}
          \/ requesting = "loading")

\* A load is ignored only if an ad is being loaded; the loads ignored because
\* a task outran loadURL: are left out here.
LoadIsIgnoredOnlyWhileLoading ==
    [][("load" \in io' /\ "request" \notin io')
         => InFlight \/ communicator.outrun]_vars
=============================================================================
