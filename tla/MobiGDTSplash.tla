---------------------------- MODULE MobiGDTSplash ----------------------------
(***************************************************************************)
(* Splash ads through GDT: the objects behind one posid.                   *)
(*                                                                         *)
(*   app -> MobiSplash -> MobiSplashAdManager -> MobiSplashAdapter         *)
(*       -> MobiGDTSplashCustomEvent -> GDTSplashAd                        *)
(*                                                                         *)
(* The app asks once to load and show: MobiSplash covers the window with a *)
(* launch image and presents the ad as soon as the manager has loaded it.  *)
(* One action is one entry on the main thread with every call it makes,    *)
(* except for the block that MobiSplash queues to take the launch image    *)
(* away again, which is an action of its own.                              *)
(***************************************************************************)
EXTENDS MobiWaterfall

CONSTANT MaxRequests  \* bound on the config requests in flight

ASSUME MaxRequestsAssumption == MaxRequests \in Nat \ {0}

VARIABLES
    ready,        \* the manager holds an ad that may be shown
    loading,      \* the manager has a load under way
    playedAd,     \* the manager's ad has been played
    remaining,    \* the configurations the manager has not tried yet
    requests,     \* config requests not yet answered, cancelled ones included
    adapter,      \* the manager's current adapter
    gdt,          \* its custom event's GDTSplashAd (external)
    launchImage,  \* a launch image covers the window
    removal,      \* the block that takes launch images away is queued
    io,           \* calls and callbacks at the interfaces, last step
    stopped,      \* history: the app's last call was stop, not load
    overlapped    \* history: the app has loaded while an ad was on screen

managerVars == <<ready, loading, playedAd, remaining>>
screenVars == <<launchImage, removal>>
historyVars == <<stopped, overlapped>>
vars == <<managerVars, requests, adapter, gdt, screenVars, io, historyVars>>

Adapters == [
    attached : BOOLEAN,              \* delegate # nil
    timeoutTimer : BOOLEAN,          \* scheduled
    expirationTimer : BOOLEAN,       \* scheduled
    hasSuccessfullyLoaded : BOOLEAN,
    hasExpired : BOOLEAN,
    hasTrackedImpression : BOOLEAN,
    hasTrackedClick : BOOLEAN,
    impressions : Nat,               \* impressions reported to the tracker
    clicks : Nat]                    \* clicks reported to the tracker

\* Mutant: startTimeoutTimer has not been called.
NewAdapterNoTimer == [
    attached |-> TRUE, timeoutTimer |-> FALSE, expirationTimer |-> FALSE,
    hasSuccessfullyLoaded |-> FALSE, hasExpired |-> FALSE,
    hasTrackedImpression |-> FALSE, hasTrackedClick |-> FALSE,
    impressions |-> 0, clicks |-> 0]

\* An adapter just created by fetchAdWithConfiguration:, its load timer set.
NewAdapter == [
    attached |-> TRUE, timeoutTimer |-> TRUE, expirationTimer |-> FALSE,
    hasSuccessfullyLoaded |-> FALSE, hasExpired |-> FALSE,
    hasTrackedImpression |-> FALSE, hasTrackedClick |-> FALSE,
    impressions |-> 0, clicks |-> 0]

\* An adapter whose load failed inside getAd: no custom event, no timer.
RefusedAdapter == [NewAdapter EXCEPT !.timeoutTimer = FALSE]

Phases == {"none", "loading", "loaded", "presented", "visible", "exposed",
           "closing", "closed"}

Ads == [phase : Phases,      \* "none": there is no custom event
        adValid : BOOLEAN]

NoAd == [phase |-> "none", adValid |-> FALSE]

\* requestSplashWithCustomEventInfo: with an adunit.
RequestedAd == [phase |-> "loading", adValid |-> FALSE]

OnScreenPhases == {"presented", "visible", "exposed", "closing"}
OnScreen == gdt.phase \in OnScreenPhases

Init ==
    /\ ready = FALSE /\ loading = FALSE /\ playedAd = FALSE
    /\ remaining = <<>>
    /\ requests = 0
    /\ adapter = [RefusedAdapter EXCEPT !.attached = FALSE]
    /\ gdt = NoAd
    /\ launchImage = FALSE /\ removal = FALSE
    /\ io = {}
    /\ stopped = FALSE /\ overlapped = FALSE

----------------------------------------------------------------------------
(* The adapter's callbacks, and the manager's and MobiSplash's side.       *)

\* Mutant: the load timer is not invalidated.
DidStopLoadingKeepsTimer(a) == a

\* didStopLoading.
DidStopLoading(a) == [a EXCEPT !.timeoutTimer = FALSE]

\* Mutant: the launch images are taken away at once.
TellFailureAtOnce(calls) ==
    /\ launchImage' = ("load" \in calls)
    /\ io' = calls \cup {"failToPresent"}
    /\ UNCHANGED removal

\* splashAdFailToPresentForManager:withError: of MobiSplash.  A load adds its
\* launch image after this has returned.
TellFailure(calls) ==
    /\ removal' = TRUE
    /\ launchImage' = (launchImage \/ "load" \in calls)
    /\ io' = calls \cup {"failToPresent"}

\* Nothing fails: calls are made, and a load adds its launch image.
NoFailure(calls) ==
    /\ launchImage' = (launchImage \/ "load" \in calls)
    /\ io' = calls
    /\ UNCHANGED removal

\* splashAdFailToPresentForAdapter: of the manager, and the fetches it goes
\* on with.  cs are the configurations left; the adapter and its ad are kept
\* if no other is created.
Walk(cs, kept, ad, calls) ==
    /\ UNCHANGED playedAd
    /\ \/ /\ Exhausted(cs)
          /\ ready' = FALSE
          /\ loading' = FALSE
          /\ remaining' = <<>>
          /\ adapter' = IF cs = <<>> THEN kept ELSE RefusedAdapter
          /\ gdt' = IF cs = <<>> THEN ad ELSE NoAd
          /\ TellFailure(calls)
       \/ \E k \in 1..Len(cs) :
            /\ StopsAt(cs, k)
            /\ remaining' = Rest(cs, k)
            /\ UNCHANGED ready
            /\ \/ /\ cs[k] = "stop"
                  /\ loading' = FALSE
                  /\ adapter' = IF k = 1 THEN kept ELSE RefusedAdapter
                  /\ gdt' = IF k = 1 THEN ad ELSE NoAd
                  /\ TellFailure(calls)
               \/ /\ cs[k] = "gdt"
                  /\ adapter' = NewAdapter
                  /\ gdt' = RequestedAd
                  /\ NoFailure(calls)
                  /\ UNCHANGED loading

\* Mutant: a failure after the load is not passed on.
FailToPresentUntold(calls) ==
    IF adapter.attached /\ ~adapter.hasSuccessfullyLoaded
      THEN Walk(remaining, DidStopLoading(adapter), NoAd, calls)
      ELSE /\ adapter' = DidStopLoading(adapter)
           /\ gdt' = NoAd
           /\ NoFailure(calls)
           /\ UNCHANGED managerVars

\* splashAdFailToPresentForCustomEvent:withError: the adapter drops its
\* custom event, and with it the GDT ad, whatever that is doing.
FailToPresent(calls) ==
    IF adapter.attached
      THEN Walk(remaining, DidStopLoading(adapter), NoAd, calls)
      ELSE /\ adapter' = DidStopLoading(adapter)
           /\ gdt' = NoAd
           /\ NoFailure(calls)
           /\ UNCHANGED managerVars

\* Mutant: the manager does not reset ready.
DidExpireKeepsReady(a) ==
    /\ adapter' = [a EXCEPT !.hasExpired = TRUE]
    /\ io' = IF adapter.attached /\ ~adapter.hasExpired THEN {"didExpire"}
             ELSE {}
    /\ UNCHANGED <<managerVars, screenVars>>

\* splashAdDidExpireForCustomEvent: once per adapter, up to MobiSplash; a is
\* the adapter as the handler has left it.
DidExpire(a) ==
    /\ adapter' = [a EXCEPT !.hasExpired = TRUE]
    /\ IF adapter.attached /\ ~adapter.hasExpired
         THEN ready' = FALSE /\ io' = {"didExpire"}
         ELSE UNCHANGED ready /\ io' = {}
    /\ UNCHANGED <<loading, playedAd, remaining, screenVars>>

\* A callback that adapter, manager and MobiSplash only pass on to the app.
PassOn(events) ==
    /\ io' = IF adapter.attached THEN events ELSE {}
    /\ UNCHANGED <<managerVars, screenVars>>

----------------------------------------------------------------------------
(* The app.                                                                *)

\* loadSplashAdAndShowWithWindow: while the manager has an ad, which reports
\* it as loaded; MobiSplash presents it.
LoadWhenReady ==
    /\ ready /\ ~playedAd
    /\ \/ /\ gdt.phase = "none"
          /\ NoFailure({"load"})
          /\ UNCHANGED <<managerVars, adapter, gdt>>
       \/ /\ gdt.phase # "none" /\ gdt.adValid
          /\ gdt' = [phase |-> "presented", adValid |-> FALSE]
          /\ NoFailure({"load", "showAd"})
          /\ UNCHANGED <<managerVars, adapter>>
       \/ /\ gdt.phase # "none" /\ ~gdt.adValid
          /\ FailToPresent({"load"})
    /\ stopped' = FALSE
    /\ overlapped' = (overlapped \/ OnScreen)
    /\ UNCHANGED requests

\* loadSplashAdAndShowWithWindow: otherwise, with loadAdWithURL:.  A request
\* in flight is cancelled, which the communicator reports as a failure.
Load ==
    /\ ~(ready /\ ~playedAd)
    /\ playedAd' = FALSE
    /\ loading' = TRUE
    /\ loading \/ requests < MaxRequests
    /\ requests' = IF loading THEN requests ELSE requests + 1
    /\ NoFailure({"load"})
    /\ stopped' = FALSE
    /\ overlapped' = (overlapped \/ OnScreen)
    /\ UNCHANGED <<ready, remaining, adapter, gdt>>

\* stopSplashAdWithPosid:
Stop ==
    /\ ready' = FALSE
    /\ io' = {"stop"}
    /\ stopped' = TRUE
    /\ UNCHANGED <<loading, playedAd, remaining, requests, adapter, gdt,
                   screenVars, overlapped>>

\* handleAdPlayedForCustomEventNetwork: another placement of the network has
\* played its ad.
HandleAdPlayed ==
    /\ ready
    /\ gdt.phase # "none" /\ ~gdt.adValid
    /\ DidExpire(adapter)
    /\ UNCHANGED <<requests, gdt, historyVars>>

----------------------------------------------------------------------------
(* The config server, the timers and the main queue.                       *)

CommunicatorDidReceive ==
    /\ requests > 0
    /\ requests' = requests - 1
    /\ \E cs \in Configs : Walk(cs, adapter, gdt, {})
    /\ UNCHANGED historyVars

CommunicatorDidFail ==
    /\ requests > 0
    /\ requests' = requests - 1
    /\ ready' = FALSE
    /\ loading' = FALSE
    /\ TellFailure({})
    /\ UNCHANGED <<playedAd, remaining, adapter, gdt, historyVars>>

\* timeout: the load failed, and the adapter is cut off from the manager.
Timeout ==
    /\ adapter.timeoutTimer
    /\ Walk(remaining, [adapter EXCEPT !.timeoutTimer = FALSE,
                                       !.attached = FALSE], gdt, {})
    /\ UNCHANGED <<requests, historyVars>>

\* The block of expirationTimer.
ExpirationTimerFires ==
    /\ adapter.expirationTimer
    /\ ~adapter.hasTrackedImpression
    /\ DidExpire([adapter EXCEPT !.expirationTimer = FALSE])
    /\ UNCHANGED <<requests, gdt, historyVars>>

\* The blocks queued by splashAdFailToPresentForManager: run.
RemoveLaunchImages ==
    /\ removal
    /\ removal' = FALSE
    /\ launchImage' = FALSE
    /\ io' = {}
    /\ UNCHANGED <<managerVars, requests, adapter, gdt, historyVars>>

----------------------------------------------------------------------------
(* GDT's callbacks to the custom event.                                    *)

\* splashAdDidLoad: up to MobiSplash, which presents the ad before the
\* adapter starts its expiry timer.  The app is not told (the check before
\* splashAdDidLoad: names a selector apps do not implement).  Shown ads are
\* no longer valid; whether a loaded ad is valid is GDT's to say (external).
GDTDidLoad ==
    /\ gdt.phase = "loading"
    /\ adapter' = [DidStopLoading(adapter) EXCEPT
                     !.hasSuccessfullyLoaded = TRUE,
                     !.expirationTimer = TRUE]
    /\ \E valid \in BOOLEAN :
         IF ~adapter.attached
           THEN /\ gdt' = [phase |-> "loaded", adValid |-> valid]
                /\ NoFailure({})
                /\ UNCHANGED managerVars
           ELSE /\ remaining' = <<>>
                /\ loading' = FALSE
                /\ UNCHANGED playedAd
                /\ \/ /\ playedAd
                      /\ ready' = TRUE
                      /\ gdt' = [phase |-> "loaded", adValid |-> valid]
                      /\ TellFailure({})
                   \/ /\ ~playedAd /\ valid
                      /\ ready' = TRUE
                      /\ gdt' = [phase |-> "presented", adValid |-> FALSE]
                      /\ NoFailure({"showAd"})
                   \/ /\ ~playedAd /\ ~valid
                      /\ ready' = FALSE
                      /\ gdt' = NoAd
                      /\ TellFailure({})
    /\ UNCHANGED <<requests, historyVars>>

\* splashAdDidLoad: again, for a cached ad: the adapter returns at once.
GDTDidLoadAgain ==
    /\ gdt.phase \in {"loaded"} \cup OnScreenPhases
    /\ PassOn({})
    /\ UNCHANGED <<requests, adapter, gdt, historyVars>>

\* splashAdFailToPresent:withError: the request or the presentation failed.
GDTFailToPresent ==
    /\ gdt.phase \in {"loading", "presented"}
    /\ FailToPresent({})
    /\ UNCHANGED <<requests, historyVars>>

\* splashAdSuccessPresentScreen:
GDTSuccessPresent ==
    /\ gdt.phase = "presented"
    /\ gdt' = [gdt EXCEPT !.phase = "visible"]
    /\ PassOn({"successPresent"})
    /\ UNCHANGED <<requests, adapter, historyVars>>

\* Mutant: hasTrackedImpression is not looked at.
GDTExposuredTracksAll ==
    /\ gdt.phase \in {"visible", "exposed"}
    /\ gdt' = [gdt EXCEPT !.phase = "exposed"]
    /\ adapter' = [adapter EXCEPT !.hasTrackedImpression = TRUE,
                                  !.expirationTimer = FALSE,
                                  !.impressions = @ + 1]
    /\ PassOn({"successPresent"})
    /\ UNCHANGED <<requests, historyVars>>

\* splashAdExposured:, with trackImpression; the adapter passes it on as
\* another splashAdSuccessPresentScreen.
GDTExposured ==
    /\ gdt.phase \in {"visible", "exposed"}
    /\ gdt' = [gdt EXCEPT !.phase = "exposed"]
    /\ adapter' = IF adapter.hasTrackedImpression THEN adapter
                  ELSE [adapter EXCEPT !.hasTrackedImpression = TRUE,
                                       !.expirationTimer = FALSE,
                                       !.impressions = @ + 1]
    /\ PassOn({"successPresent"})
    /\ UNCHANGED <<requests, historyVars>>

\* splashAdClicked:, with trackClick.
GDTClicked ==
    /\ gdt.phase = "exposed"
    /\ adapter' = IF adapter.hasTrackedClick THEN adapter
                  ELSE [adapter EXCEPT !.hasTrackedClick = TRUE,
                                       !.clicks = @ + 1]
    /\ PassOn({"clicked"})
    /\ UNCHANGED <<requests, gdt, historyVars>>

\* splashAdWillClosed:
GDTWillClosed ==
    /\ gdt.phase \in {"visible", "exposed"}
    /\ gdt' = [gdt EXCEPT !.phase = "closing"]
    /\ PassOn({"willClosed"})
    /\ UNCHANGED <<requests, adapter, historyVars>>

\* splashAdClosed:
GDTClosed ==
    /\ gdt.phase = "closing"
    /\ gdt' = [gdt EXCEPT !.phase = "closed"]
    /\ IF adapter.attached
         THEN ready' = FALSE /\ playedAd' = TRUE /\ io' = {"closed"}
         ELSE UNCHANGED <<ready, playedAd>> /\ io' = {}
    /\ UNCHANGED <<loading, remaining, requests, adapter, screenVars,
                   historyVars>>

\* The callbacks about the full-screen modal page, the app going to the
\* background and the time left change nothing on their way to the app.
GDTInforms ==
    /\ gdt.phase \in {"visible", "exposed"}
    /\ PassOn({"inform"})
    /\ UNCHANGED <<requests, adapter, gdt, historyVars>>

----------------------------------------------------------------------------
AppCalls == LoadWhenReady \/ Load \/ Stop \/ HandleAdPlayed

ServerAnswers == CommunicatorDidReceive \/ CommunicatorDidFail

GDTCallbacks ==
    \/ GDTDidLoad \/ GDTDidLoadAgain \/ GDTFailToPresent
    \/ GDTSuccessPresent \/ GDTExposured \/ GDTClicked \/ GDTWillClosed
    \/ GDTClosed \/ GDTInforms

Next ==
    \/ AppCalls \/ ServerAnswers \/ Timeout \/ ExpirationTimerFires
    \/ RemoveLaunchImages \/ GDTCallbacks

\* The HTTP session answers every task, the run loop fires scheduled timers
\* and drains the main queue.  The app, the user and GDT owe nothing.
Spec ==
    /\ Init /\ [][Next]_vars
    /\ WF_vars(ServerAnswers) /\ WF_vars(Timeout)
    /\ WF_vars(RemoveLaunchImages)

----------------------------------------------------------------------------
(* Properties.                                                             *)

\* Every variable has its type; the configuration being fetched is no longer
\* in the manager's list.
TypeOK ==
    /\ ready \in BOOLEAN
    /\ loading \in BOOLEAN
    /\ playedAd \in BOOLEAN
    /\ remaining \in Seq(Kinds) /\ Len(remaining) < MaxConfigs
    /\ requests \in 0..MaxRequests
    /\ adapter \in Adapters
    /\ gdt \in Ads
    /\ launchImage \in BOOLEAN
    /\ removal \in BOOLEAN
    /\ io \subseteq {
         "load", "stop", "showAd", "failToPresent", "successPresent",
         "clicked", "willClosed", "closed", "didExpire", "inform"}
    /\ stopped \in BOOLEAN
    /\ overlapped \in BOOLEAN

\* Unless the app loads over an ad on screen, the manager is loading exactly
\* while one thing is sure to end the load: the answer to its only config
\* request, or the load timer of an adapter it listens to.
OneAnswerDue ==
    ~overlapped =>
      /\ requests <= 1
      /\ loading <=> (requests = 1 \/ adapter.timeoutTimer)
      /\ ~(requests = 1 /\ adapter.timeoutTimer)
      /\ adapter.timeoutTimer => adapter.attached

\* Unless the app loads over an ad on screen, a ready ad is the unplayed ad
\* on screen, and its callbacks reach the app.
ReadyMeansOnScreen ==
    ~overlapped /\ ready => /\ OnScreen /\ ~playedAd
                            /\ adapter.attached /\ ~adapter.hasExpired

\* The app never loses track of an ad on screen without being told that the
\* presentation failed.
OnScreenAdIsKept ==
    [][~overlapped' /\ OnScreen /\ gdt'.phase \in {"none", "loading"}
         => "failToPresent" \in io']_vars

\* An ad is billed at most one impression and one click, and does not expire
\* once it has been seen.
BilledOnce ==
    /\ adapter.impressions <= 1 /\ adapter.clicks <= 1
    /\ adapter.hasTrackedImpression => ~adapter.expirationTimer

\* Whoever asks for a splash gets one on screen or is told that there is
\* none, unless the app loads over an ad on screen: then a response can find
\* a manager that has stopped waiting for it, and a later load is swallowed
\* by a manager that calls an ad ready which its adapter has dropped.
LoadIsAnswered ==
    ("load" \in io /\ ~overlapped)
      ~> (overlapped \/ io \cap {"showAd", "failToPresent"} # {})

\* Once the app is told that there is no splash, the launch image goes: also
\* when the failure came before loadSplashAdAndShow... had added it.
LaunchImageGoes == ("failToPresent" \in io) ~> ~launchImage

\* A splash that the app has stopped is not shown.
StopPreventsShow == [][stopped => "showAd" \notin io']_vars
=============================================================================
