----------------------------- MODULE MobiGDTFeed -----------------------------
(***************************************************************************)
(* Feed (native express) ads through GDT: the objects behind one posid.    *)
(*                                                                         *)
(*   app -> MobiFeed -> MobiFeedAdManager -> MobiFeedAdapter               *)
(*       -> MobiGDTFeedCustomEvent -> GDTNativeExpressAd                   *)
(*                                                                         *)
(* One load yields several views, which the app puts into its feed; each   *)
(* is rendered, exposed, clicked and closed on its own, and all of them    *)
(* report through the one custom event of that load.  One action is one    *)
(* entry on the main thread with every call it makes.                      *)
(***************************************************************************)
EXTENDS MobiWaterfall

CONSTANT Views  \* the views GDT may return from one load

VARIABLES
    ready,      \* the manager holds an ad
    loading,    \* the manager has a load under way
    playedAd,   \* a view of the manager's ad has been closed
    remaining,  \* the configurations the manager has not tried yet
    requested,  \* a config request has not been answered yet
    adapter,    \* the manager's current adapter
    gdt,        \* its custom event's GDTNativeExpressAd (external)
    io,         \* calls and callbacks between app and SDK, last step
    crossed     \* history: a view has been closed while a load was under way

managerVars == <<ready, loading, playedAd, remaining>>
vars == <<managerVars, requested, adapter, gdt, io, crossed>>

Answers == {"didLoad", "didFailToLoad"}

Adapters == [
    attached : BOOLEAN,              \* delegate # nil
    timeoutTimer : BOOLEAN,          \* scheduled
    expirationTimer : BOOLEAN,       \* scheduled
    hasSuccessfullyLoaded : BOOLEAN,
    hasExpired : BOOLEAN,
    hasTrackedImpression : BOOLEAN,
    hasTrackedClick : BOOLEAN,
    impressions : Nat,               \* impressions reported to the tracker
    clicks : Nat]                    \* clicks reported to the tracker

\* Mutant: startTimeoutTimer has not been called.
NewAdapterNoTimer == [
    attached |-> TRUE, timeoutTimer |-> FALSE, expirationTimer |-> FALSE,
    hasSuccessfullyLoaded |-> FALSE, hasExpired |-> FALSE,
    hasTrackedImpression |-> FALSE, hasTrackedClick |-> FALSE,
    impressions |-> 0, clicks |-> 0]

\* An adapter whose custom event has been found, its load timer set.
NewAdapter == [
    attached |-> TRUE, timeoutTimer |-> TRUE, expirationTimer |-> FALSE,
    hasSuccessfullyLoaded |-> FALSE, hasExpired |-> FALSE,
    hasTrackedImpression |-> FALSE, hasTrackedClick |-> FALSE,
    impressions |-> 0, clicks |-> 0]

\* An adapter whose load failed inside getAd: no custom event, no timer.
RefusedAdapter == [NewAdapter EXCEPT !.timeoutTimer = FALSE]

\* The life of a GDTNativeExpressAdView; "absent": the load has not returned
\* it.
ViewStates == {"absent", "rendering", "rendered", "renderFailed", "exposed",
               "closed"}

Ads == [phase : {"none", "loading", "loaded"},  \* "none": no custom event
        views : [Views -> ViewStates]]

NoViews == [v \in Views |-> "absent"]

NoAd == [phase |-> "none", views |-> NoViews]

\* requestFeedWithCustomEventInfo: with an adunit.
RequestedAd == [phase |-> "loading", views |-> NoViews]

ViewsThatAre(state) == {v \in Views : gdt.views[v] = state}

Init ==
    /\ ready = FALSE /\ loading = FALSE /\ playedAd = FALSE
    /\ remaining = <<>>
    /\ requested = FALSE
    /\ adapter = [RefusedAdapter EXCEPT !.attached = FALSE]
    /\ gdt = NoAd
    /\ io = {}
    /\ crossed = FALSE

----------------------------------------------------------------------------
(* The adapter's callbacks and the manager's side.                         *)

\* Mutant: the load timer is not invalidated.
DidStopLoadingKeepsTimer(a) == a

\* didStopLoading.
DidStopLoading(a) == [a EXCEPT !.timeoutTimer = FALSE]

\* nativeExpressAdFailToLoadForAdapter:error: of the manager, and the fetches
\* it goes on with.  cs are the configurations left; the adapter and its ad
\* are kept if no other is created.
Walk(cs, kept, ad) ==
    /\ UNCHANGED playedAd
    /\ \/ /\ Exhausted(cs)
          /\ ready' = FALSE
          /\ loading' = FALSE
          /\ remaining' = <<>>
          /\ adapter' = IF cs = <<>> THEN kept ELSE RefusedAdapter
          /\ gdt' = IF cs = <<>> THEN ad ELSE NoAd
          /\ io' = {"didFailToLoad"}
       \/ \E k \in 1..Len(cs) :
            /\ StopsAt(cs, k)
            /\ remaining' = Rest(cs, k)
            /\ UNCHANGED ready
            /\ \/ /\ cs[k] = "stop"
                  /\ loading' = FALSE
                  /\ adapter' = IF k = 1 THEN kept ELSE RefusedAdapter
                  /\ gdt' = IF k = 1 THEN ad ELSE NoAd
                  /\ io' = {"didFailToLoad"}
               \/ /\ cs[k] = "gdt"
                  /\ adapter' = NewAdapter
                  /\ gdt' = RequestedAd
                  /\ io' = {}
                  /\ UNCHANGED loading

\* nativeExpressAdDidExpireForCustomEvent: once per adapter; a is the adapter
\* as the handler has left it.
DidExpire(a) ==
    /\ adapter' = [a EXCEPT !.hasExpired = TRUE]
    /\ IF adapter.attached /\ ~adapter.hasExpired
         THEN ready' = FALSE /\ io' = {"didExpire"}
         ELSE UNCHANGED ready /\ io' = {}
    /\ UNCHANGED <<loading, playedAd, remaining>>

\* A callback that adapter, manager and MobiFeed only pass on to the app.
PassOn(events) ==
    /\ io' = IF adapter.attached THEN events ELSE {}
    /\ UNCHANGED managerVars

----------------------------------------------------------------------------
(* The app.                                                                *)

\* hasAdAvailableForPosid:; the custom event's hasAdAvailable returns YES.
HasAdAvailable == ready /\ ~playedAd /\ gdt.phase # "none"

\* loadFeedAdWithPosid: while the manager has an ad.  It would be handed out
\* again from nativeExpressFeedViews, an array that is never created: its
\* count is 0, and nothing is told.
LoadWhenReady ==
    /\ ready /\ ~playedAd
    /\ io' = {"load"}
    /\ UNCHANGED <<managerVars, requested, adapter, gdt, crossed>>

\* Mutant: playedAd is not reset.
LoadKeepsPlayed ==
    /\ ~(ready /\ ~playedAd)
    /\ loading' = TRUE
    /\ requested' = (requested \/ ~loading)
    /\ io' = {"load"}
    /\ UNCHANGED <<ready, playedAd, remaining, adapter, gdt, crossed>>

\* loadFeedAdWithPosid: otherwise, with loadAdWithURL:.
Load ==
    /\ ~(ready /\ ~playedAd)
    /\ playedAd' = FALSE
    /\ loading' = TRUE
    /\ requested' = (requested \/ ~loading)
    /\ io' = {"load"}
    /\ UNCHANGED <<ready, remaining, adapter, gdt, crossed>>

\* handleAdPlayedForCustomEventNetwork of the manager.
HandleAdPlayed ==
    /\ ready
    /\ gdt.phase # "none"
    /\ DidExpire(adapter)
    /\ UNCHANGED <<requested, gdt, crossed>>

----------------------------------------------------------------------------
(* The config server and the timers.                                       *)

CommunicatorDidReceive ==
    /\ requested
    /\ requested' = FALSE
    /\ \E cs \in Configs : Walk(cs, adapter, gdt)
    /\ UNCHANGED crossed

CommunicatorDidFail ==
    /\ requested
    /\ requested' = FALSE
    /\ ready' = FALSE
    /\ loading' = FALSE
    /\ io' = {"didFailToLoad"}
    /\ UNCHANGED <<playedAd, remaining, adapter, gdt, crossed>>

\* timeout: the load failed, and the adapter is cut off from the manager.
Timeout ==
    /\ adapter.timeoutTimer
    /\ Walk(remaining, [adapter EXCEPT !.timeoutTimer = FALSE,
                                       !.attached = FALSE], gdt)
    /\ UNCHANGED <<requested, crossed>>

\* The block of expirationTimer.
ExpirationTimerFires ==
    /\ adapter.expirationTimer
    /\ ~adapter.hasTrackedImpression
    /\ DidExpire([adapter EXCEPT !.expirationTimer = FALSE])
    /\ UNCHANGED <<requested, gdt, crossed>>

----------------------------------------------------------------------------
(* GDT's callbacks to the custom event.                                    *)

\* nativeExpressAdSuccessToLoad:views: the views are told to render, and
\* handed to the app if the adapter is still listened to.
GDTSuccessToLoad ==
    /\ gdt.phase = "loading"
    /\ \E vs \in SUBSET Views \ {{}} :
         gdt' = [phase |-> "loaded",
                 views |-> [v \in Views |-> IF v \in vs THEN "rendering"
                                            ELSE "absent"]]
    /\ adapter' = [DidStopLoading(adapter) EXCEPT
                     !.hasSuccessfullyLoaded = TRUE,
                     !.expirationTimer = TRUE]
    /\ IF adapter.attached
         THEN /\ ready' = TRUE
              /\ loading' = FALSE
              /\ remaining' = <<>>
              /\ io' = {"didLoad"}
              /\ UNCHANGED playedAd
         ELSE UNCHANGED managerVars /\ io' = {}
    /\ UNCHANGED <<requested, crossed>>

\* nativeExpressAdFailToLoad:error: the adapter drops its custom event.
GDTFailToLoad ==
    /\ gdt.phase = "loading"
    /\ IF adapter.attached
         THEN Walk(remaining, DidStopLoading(adapter), NoAd)
         ELSE /\ adapter' = DidStopLoading(adapter)
              /\ gdt' = NoAd
              /\ io' = {}
              /\ UNCHANGED managerVars
    /\ UNCHANGED <<requested, crossed>>

\* A view has been rendered, which the app is told, or could not be: GDT then
\* calls nativeExpressAdViewRenderFail:, which the custom event lacks.
GDTRender ==
    /\ \E v \in ViewsThatAre("rendering") :
         \/ /\ gdt' = [gdt EXCEPT !.views[v] = "rendered"]
            /\ PassOn({"renderSuccess"})
         \/ /\ gdt' = [gdt EXCEPT !.views[v] = "renderFailed"]
            /\ PassOn({})
    /\ UNCHANGED <<requested, adapter, crossed>>

\* Mutant: every view of the load tracks an impression of its own.
GDTExposureTracksAll ==
    /\ adapter.attached
    /\ \E v \in ViewsThatAre("rendered") \cup ViewsThatAre("exposed") :
         gdt' = [gdt EXCEPT !.views[v] = "exposed"]
    /\ adapter' = [adapter EXCEPT !.hasTrackedImpression = TRUE,
                                  !.expirationTimer = FALSE,
                                  !.impressions = @ + 1]
    /\ PassOn({"exposure"})
    /\ UNCHANGED <<requested, crossed>>

\* nativeExpressAdViewExposure: of a view in the app's feed, also when it is
\* scrolled back into sight; with trackImpression.
GDTExposure ==
    /\ adapter.attached
    /\ \E v \in ViewsThatAre("rendered") \cup ViewsThatAre("exposed") :
         gdt' = [gdt EXCEPT !.views[v] = "exposed"]
    /\ adapter' = IF adapter.hasTrackedImpression THEN adapter
                  ELSE [adapter EXCEPT !.hasTrackedImpression = TRUE,
                                       !.expirationTimer = FALSE,
                                       !.impressions = @ + 1]
    /\ PassOn({"exposure"})
    /\ UNCHANGED <<requested, crossed>>

\* nativeExpressAdViewClicked:, with trackClick.
GDTClicked ==
    /\ ViewsThatAre("exposed") # {}
    /\ adapter' = IF adapter.hasTrackedClick THEN adapter
                  ELSE [adapter EXCEPT !.hasTrackedClick = TRUE,
                                       !.clicks = @ + 1]
    /\ PassOn({"clicked"})
    /\ UNCHANGED <<requested, gdt, crossed>>

\* Mutant: the manager does not reset ready.
ClosedKeepsReady ==
    /\ playedAd' = TRUE
    /\ io' = {"closed"}
    /\ UNCHANGED <<ready, loading, remaining>>

\* nativeExpressAdViewClosedForAdapter:
Closed ==
    /\ ready' = FALSE
    /\ playedAd' = TRUE
    /\ io' = {"closed"}
    /\ UNCHANGED <<loading, remaining>>

\* nativeExpressAdViewClosed:
GDTClosed ==
    /\ \E v \in ViewsThatAre("exposed") :
         gdt' = [gdt EXCEPT !.views[v] = "closed"]
    /\ Closed
    /\ crossed' = (crossed \/ loading)
    /\ UNCHANGED <<requested, adapter>>

\* The callbacks about the page a view opens, its video and the app going to
\* the background change nothing on their way to the app.
GDTInforms ==
    /\ ViewsThatAre("exposed") # {}
    /\ PassOn({"inform"})
    /\ UNCHANGED <<requested, adapter, gdt, crossed>>

----------------------------------------------------------------------------
AppCalls == LoadWhenReady \/ Load \/ HandleAdPlayed

ServerAnswers == CommunicatorDidReceive \/ CommunicatorDidFail

GDTCallbacks ==
    \/ GDTSuccessToLoad \/ GDTFailToLoad \/ GDTRender \/ GDTExposure
    \/ GDTClicked \/ GDTClosed \/ GDTInforms

Next ==
    AppCalls \/ ServerAnswers \/ Timeout \/ ExpirationTimerFires
    \/ GDTCallbacks

\* The HTTP session answers every task and the run loop fires scheduled
\* timers.  The app, the user and GDT owe nothing.
Spec ==
    /\ Init /\ [][Next]_vars
    /\ WF_vars(ServerAnswers) /\ WF_vars(Timeout)

----------------------------------------------------------------------------
(* Properties.                                                             *)

\* Every variable has its type; the configuration being fetched is no longer
\* in the manager's list.
TypeOK ==
    /\ ready \in BOOLEAN
    /\ loading \in BOOLEAN
    /\ playedAd \in BOOLEAN
    /\ remaining \in Seq(Kinds) /\ Len(remaining) < MaxConfigs
    /\ requested \in BOOLEAN
    /\ adapter \in Adapters
    /\ gdt \in Ads
    /\ io \subseteq Answers \cup {
         "load", "renderSuccess", "exposure", "clicked", "closed",
         "didExpire", "inform"}
    /\ crossed \in BOOLEAN

\* The manager is loading exactly while one thing is sure to end the load:
\* the answer to its config request, or the load timer of an adapter it
\* listens to, whose GDT load has not been answered.
OneAnswerDue ==
    /\ loading <=> (requested \/ adapter.timeoutTimer)
    /\ ~(requested /\ adapter.timeoutTimer)
    /\ adapter.timeoutTimer => adapter.attached /\ gdt.phase = "loading"

\* Unless a view is closed during a load, an available ad is a loaded one of
\* an adapter that the manager listens to, not expired, and none of its views
\* has been closed.
AvailableIsFresh ==
    ~crossed /\ HasAdAvailable =>
      /\ gdt.phase = "loaded" /\ ViewsThatAre("closed") = {}
      /\ adapter.attached /\ ~adapter.hasExpired

\* Unless a view is closed during a load, the manager goes for another ad,
\* whose adapter will silence the views in the app's feed, only once one of
\* those has been closed or they have expired.
FreshViewsAreKept ==
    ~crossed /\ loading /\ gdt.phase = "loaded" /\ adapter.attached =>
      adapter.hasExpired \/ ViewsThatAre("closed") # {}

\* However many views a load returns and however often they are seen and
\* tapped, one impression and one click are billed, and an ad of which a
\* view has been seen does not expire by itself.
BilledOnce ==
    /\ adapter.impressions <= 1 /\ adapter.clicks <= 1
    /\ adapter.hasTrackedImpression => ~adapter.expirationTimer

\* A load that the manager takes on is answered, whatever happens meanwhile
\* to the views of the one before.
LoadTakenOnIsAnswered ==
    ("load" \in io /\ loading) ~> (io \cap Answers # {})

\* The loads that the manager takes on keep the load protocol: no outcome is
\* told without one, none is told twice, and telling it ends the load.  A load
\* that finds an ad already there is not taken on, and the callbacks about
\* views are no part of the protocol.
ProtocolIO == IF io = {"load"} /\ ~loading THEN {}
              ELSE io \cap (Answers \cup {"load"})
Protocol == INSTANCE AdLoadProtocol WITH pending <- loading, io <- ProtocolIO
AnswersAreDue == Protocol!SafeSpec

\* Every load is answered, also one that finds an ad already there.
LoadIsAnswered == ("load" \in io) ~> (io \cap Answers # {})
=============================================================================
