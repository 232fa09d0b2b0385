------------------------ MODULE MobiGDTRewardedVideo ------------------------
(***************************************************************************)
(* Rewarded video through GDT: the objects behind one posid.               *)
(*                                                                         *)
(*   app -> MobiRewardedVideoAdManager -> MobiRewardedVideoAdapter         *)
(*       -> MobiGDTRewardedVideoCustomEvent -> GDTRewardVideoAd            *)
(*                                                                         *)
(* Calls go down this chain and callbacks come back up it, all on the main *)
(* thread, so one action is one entry from outside (a call of the app, a   *)
(* GDT callback, a timer, the config server's answer) together with every  *)
(* call it makes.  A call the app makes from inside a callback has the     *)
(* effect of the same call just before or just after the handler: handlers *)
(* call the app after their own assignments.                               *)
(*                                                                         *)
(* The manager holds the only strong reference to its adapter, and the     *)
(* adapter to its custom event, which GDT and the timers reference weakly: *)
(* replacing the adapter silences the old one, so one adapter is modelled. *)
(***************************************************************************)
EXTENDS MobiWaterfall

CONSTANT SerialClient  \* TRUE: the app asks for no ad while one is on screen

ASSUME SerialClientAssumption == SerialClient \in BOOLEAN

VARIABLES
    ready,      \* the manager holds an ad that may be shown
    loading,    \* the manager has a load under way
    playedAd,   \* the manager's ad has been played
    remaining,  \* the configurations the manager has not tried yet
    comm,       \* MobiAdConfigServer: "none" until the manager exists
    adapter,    \* the manager's current adapter
    gdt,        \* that adapter's GDTRewardVideoAd (external)
    io          \* calls and callbacks at the app's interface, last step

managerVars == <<ready, loading, playedAd, remaining>>
vars == <<ready, loading, playedAd, remaining, comm, adapter, gdt, io>>

Adapters == [
    attached : BOOLEAN,              \* delegate # nil
    timeoutTimer : BOOLEAN,          \* scheduled
    expirationTimer : BOOLEAN,       \* scheduled
    hasSuccessfullyLoaded : BOOLEAN,
    hasExpired : BOOLEAN,
    hasTrackedImpression : BOOLEAN,
    hasTrackedClick : BOOLEAN,
    impressions : Nat,               \* impressions reported to the tracker
    clicks : Nat]                    \* clicks reported to the tracker

\* Mutant: startTimeoutTimer has not been called.
NewAdapterNoTimer == [
    attached |-> TRUE, timeoutTimer |-> FALSE, expirationTimer |-> FALSE,
    hasSuccessfullyLoaded |-> FALSE, hasExpired |-> FALSE,
    hasTrackedImpression |-> FALSE, hasTrackedClick |-> FALSE,
    impressions |-> 0, clicks |-> 0]

\* An adapter just created by fetchAdWithConfiguration:, its load timer set.
NewAdapter == [
    attached |-> TRUE, timeoutTimer |-> TRUE, expirationTimer |-> FALSE,
    hasSuccessfullyLoaded |-> FALSE, hasExpired |-> FALSE,
    hasTrackedImpression |-> FALSE, hasTrackedClick |-> FALSE,
    impressions |-> 0, clicks |-> 0]

\* An adapter whose load failed inside getAd: no custom event, no timer.
RefusedAdapter == [NewAdapter EXCEPT !.timeoutTimer = FALSE]

Phases == {"none", "loading", "loaded", "presented", "visible", "exposed",
           "closed", "failed"}

Ads == [
    phase : Phases,      \* "none": there is no custom event
    adValid : BOOLEAN,
    stale : BOOLEAN,     \* expiredTimestamp <= now
    video : BOOLEAN,     \* the video has been downloaded
    rewarded : BOOLEAN]  \* the reward condition has been met

NoAd == [phase |-> "none", adValid |-> FALSE, stale |-> TRUE,
         video |-> FALSE, rewarded |-> FALSE]

\* requestRewardedVideoWithCustomEventInfo: with an adunit.
RequestedAd == [NoAd EXCEPT !.phase = "loading"]

OnScreenPhases == {"presented", "visible", "exposed"}
OnScreen == gdt.phase \in OnScreenPhases

Init ==
    /\ ready = FALSE /\ loading = FALSE /\ playedAd = FALSE
    /\ remaining = <<>>
    /\ comm = "none"
    /\ adapter = [RefusedAdapter EXCEPT !.attached = FALSE]
    /\ gdt = NoAd
    /\ io = {}

----------------------------------------------------------------------------
(* The adapter's callbacks, and the manager's side of them.                *)

\* Mutant: the load timer is not invalidated.
DidStopLoadingKeepsTimer(a) == a

\* didStopLoading.
DidStopLoading(a) == [a EXCEPT !.timeoutTimer = FALSE]

\* rewardedVideoDidFailToLoadForAdapter:, and the fetches it goes on with.
\* cs are the configurations left; the adapter is kept if none is created.
Walk(cs, kept) ==
    /\ UNCHANGED playedAd
    /\ \/ /\ Exhausted(cs)
          /\ ready' = FALSE
          /\ loading' = FALSE
          /\ remaining' = <<>>
          /\ adapter' = IF cs = <<>> THEN kept ELSE RefusedAdapter
          /\ gdt' = IF cs = <<>> THEN gdt ELSE NoAd
          /\ io' = {"didFailToLoad"}
       \/ \E k \in 1..Len(cs) :
            /\ StopsAt(cs, k)
            /\ remaining' = Rest(cs, k)
            /\ UNCHANGED ready
            /\ \/ /\ cs[k] = "stop"
                  /\ loading' = FALSE
                  /\ adapter' = IF k = 1 THEN kept ELSE RefusedAdapter
                  /\ gdt' = IF k = 1 THEN gdt ELSE NoAd
                  /\ io' = {"didFailToLoad"}
               \/ /\ cs[k] = "gdt"
                  /\ adapter' = NewAdapter
                  /\ gdt' = RequestedAd
                  /\ io' = {}
                  /\ UNCHANGED loading

\* Mutant: the manager does not reset ready.
DidExpireKeepsReady(a) ==
    /\ adapter' = [a EXCEPT !.hasExpired = TRUE]
    /\ io' = IF adapter.attached /\ ~adapter.hasExpired THEN {"didExpire"}
             ELSE {}
    /\ UNCHANGED managerVars

\* rewardedVideoDidExpireForCustomEvent: once per adapter, up to the manager;
\* a is the adapter as the handler has left it.
DidExpire(a) ==
    /\ adapter' = [a EXCEPT !.hasExpired = TRUE]
    /\ IF adapter.attached /\ ~adapter.hasExpired
         THEN ready' = FALSE /\ io' = {"didExpire"}
         ELSE UNCHANGED ready /\ io' = {}
    /\ UNCHANGED <<loading, playedAd, remaining>>

\* Mutant: the adapter stops its load timer, as DidFailToLoad would.
DidFailToPlayStopsLoading(calls) ==
    /\ IF adapter.attached
         THEN /\ ready' = FALSE
              /\ playedAd' = FALSE
              /\ io' = calls \cup {"didFailToPlay"}
         ELSE UNCHANGED <<ready, playedAd>> /\ io' = calls
    /\ adapter' = [adapter EXCEPT !.timeoutTimer = FALSE]
    /\ UNCHANGED <<loading, remaining>>

\* Mutant: the manager does not reset ready.
DidFailToPlayKeepsReady(calls) ==
    /\ playedAd' = (playedAd /\ ~adapter.attached)
    /\ io' = IF adapter.attached THEN calls \cup {"didFailToPlay"} ELSE calls
    /\ UNCHANGED <<ready, loading, remaining, adapter>>

\* rewardedVideoDidFailToPlayForCustomEvent:error:, up to the manager.
DidFailToPlay(calls) ==
    /\ IF adapter.attached
         THEN /\ ready' = FALSE
              /\ playedAd' = FALSE
              /\ io' = calls \cup {"didFailToPlay"}
         ELSE UNCHANGED <<ready, playedAd>> /\ io' = calls
    /\ UNCHANGED <<loading, remaining, adapter>>

\* A callback that the adapter and the manager only pass on to the app.
PassOn(events) ==
    /\ io' = IF adapter.attached THEN events ELSE {}
    /\ UNCHANGED managerVars

----------------------------------------------------------------------------
(* The app.                                                                *)

\* loadRewardedVideoAdWithUserId:targeting: when there is an ad to show.
LoadWhenReady ==
    /\ SerialClient => ~OnScreen
    /\ ready /\ ~playedAd
    /\ io' = {"load", "didLoad"}
    /\ UNCHANGED <<managerVars, comm, adapter, gdt>>

\* loadRewardedVideoAdWithUserId:targeting: otherwise, with loadAdWithURL:.
Load ==
    /\ SerialClient => ~OnScreen
    /\ ~(ready /\ ~playedAd)
    /\ playedAd' = FALSE
    /\ loading' = TRUE
    /\ comm' = IF loading THEN comm ELSE "request"
    /\ io' = {"load"}
    /\ UNCHANGED <<ready, remaining, adapter, gdt>>

\* presentRewardedVideoAdFromViewController: refused by the manager.
ShowRefused ==
    /\ comm # "none"
    /\ ~ready \/ playedAd
    /\ io' = {"show", "didFailToPlay"}
    /\ UNCHANGED <<managerVars, comm, adapter, gdt>>

\* presentRewardedVideoFromViewController: of the adapter and the custom
\* event.  Once shown, a GDT ad is no longer valid (external).
Show ==
    /\ ready /\ ~playedAd
    /\ UNCHANGED comm
    /\ \/ /\ gdt.phase = "none"
          /\ io' = {"show"}
          /\ UNCHANGED <<managerVars, adapter, gdt>>
       \/ /\ gdt.phase # "none" /\ gdt.adValid
          /\ gdt' = [gdt EXCEPT !.phase = "presented", !.adValid = FALSE]
          /\ io' = {"show"}
          /\ UNCHANGED <<managerVars, adapter>>
       \/ /\ gdt.phase # "none" /\ ~gdt.adValid
          /\ DidFailToPlay({"show"})
          /\ UNCHANGED gdt

\* Mutant: the manager asks the custom event without looking at ready.
HasAdAvailableUnready ==
    ~playedAd /\ ~gdt.stale /\ gdt.adValid

\* hasAdAvailable, from the manager down to the custom event.
HasAdAvailable ==
    ready /\ ~playedAd /\ ~gdt.stale /\ gdt.adValid

\* handleAdPlayedForCustomEventNetwork: another placement of the network has
\* played its ad.
HandleAdPlayed ==
    /\ ready
    /\ gdt.phase # "none" /\ ~gdt.adValid
    /\ DidExpire(adapter)
    /\ UNCHANGED <<comm, gdt>>

----------------------------------------------------------------------------
(* The config server.                                                      *)

CommunicatorDidReceive ==
    /\ comm = "request"
    /\ comm' = "idle"
    /\ \E cs \in Configs : Walk(cs, adapter)

CommunicatorDidFail ==
    /\ comm = "request"
    /\ comm' = "idle"
    /\ ready' = FALSE
    /\ loading' = FALSE
    /\ io' = {"didFailToLoad"}
    /\ UNCHANGED <<playedAd, remaining, adapter, gdt>>

----------------------------------------------------------------------------
(* The adapter's timers.                                                   *)

\* timeout: the load failed, and the adapter is cut off from the manager.
Timeout ==
    /\ adapter.timeoutTimer
    /\ Walk(remaining, [adapter EXCEPT !.timeoutTimer = FALSE,
                                       !.attached = FALSE])
    /\ UNCHANGED comm

\* The block of expirationTimer; trackImpression has stopped the timer of an
\* ad that has been seen.
ExpirationTimerFires ==
    /\ adapter.expirationTimer
    /\ ~adapter.hasTrackedImpression
    /\ DidExpire([adapter EXCEPT !.expirationTimer = FALSE])
    /\ UNCHANGED <<comm, gdt>>

----------------------------------------------------------------------------
(* GDT's callbacks to the custom event.                                    *)

\* gdt_rewardVideoAdDidLoad:, which may come again for a cached ad.
GDTDidLoad ==
    /\ gdt.phase \in {"loading", "loaded"}
    /\ gdt' = IF gdt.phase = "loaded" THEN gdt
              ELSE [gdt EXCEPT !.phase = "loaded", !.adValid = TRUE,
                               !.stale = FALSE]
    /\ adapter' = IF adapter.hasSuccessfullyLoaded THEN adapter
                  ELSE [DidStopLoading(adapter) EXCEPT
                          !.hasSuccessfullyLoaded = TRUE,
                          !.expirationTimer = TRUE]
    /\ IF adapter.attached /\ ~adapter.hasSuccessfullyLoaded
         THEN /\ remaining' = <<>>
              /\ ready' = TRUE
              /\ loading' = FALSE
              /\ io' = {"didLoad"}
         ELSE UNCHANGED <<remaining, ready, loading>> /\ io' = {}
    /\ UNCHANGED <<playedAd, comm>>

\* gdt_rewardVideoAdVideoDidLoad: an ad that is no longer usable expires.
GDTVideoDidLoad ==
    /\ gdt.phase \in {"loaded", "closed"} \cup OnScreenPhases
    /\ ~gdt.video
    /\ gdt' = [gdt EXCEPT !.video = TRUE]
    /\ IF gdt.stale \/ ~gdt.adValid
         THEN DidExpire(adapter)
         ELSE PassOn({"videoDidLoad"}) /\ UNCHANGED adapter
    /\ UNCHANGED comm

\* gdt_rewardVideoAdWillVisible:
GDTWillVisible ==
    /\ gdt.phase = "presented"
    /\ gdt' = [gdt EXCEPT !.phase = "visible"]
    /\ PassOn({"willAppear"})
    /\ UNCHANGED <<comm, adapter>>

\* gdt_rewardVideoAdDidExposed:, with trackImpression.
GDTDidExposed ==
    /\ gdt.phase \in {"visible", "exposed"}
    /\ gdt' = [gdt EXCEPT !.phase = "exposed"]
    /\ adapter' = IF adapter.hasTrackedImpression THEN adapter
                  ELSE [adapter EXCEPT !.hasTrackedImpression = TRUE,
                                       !.expirationTimer = FALSE,
                                       !.impressions = @ + 1]
    /\ PassOn({"didAppear"})
    /\ UNCHANGED comm

\* Mutant: hasTrackedClick is not looked at.
GDTDidClickedTracksAll ==
    /\ gdt.phase = "exposed"
    /\ adapter' = [adapter EXCEPT !.hasTrackedClick = TRUE, !.clicks = @ + 1]
    /\ PassOn({"didReceiveTap"})
    /\ UNCHANGED <<comm, gdt>>

\* gdt_rewardVideoAdDidClicked:, with trackClick.
GDTDidClicked ==
    /\ gdt.phase = "exposed"
    /\ adapter' = IF adapter.hasTrackedClick THEN adapter
                  ELSE [adapter EXCEPT !.hasTrackedClick = TRUE,
                                       !.clicks = @ + 1]
    /\ PassOn({"didReceiveTap"})
    /\ UNCHANGED <<comm, gdt>>

\* gdt_rewardVideoAdDidClose:
GDTDidClose ==
    /\ gdt.phase \in {"visible", "exposed"}
    /\ gdt' = [gdt EXCEPT !.phase = "closed"]
    /\ IF adapter.attached
         THEN /\ ready' = FALSE
              /\ playedAd' = TRUE
              /\ io' = {"willDisappear", "didDisappear"}
         ELSE UNCHANGED <<ready, playedAd>> /\ io' = {}
    /\ UNCHANGED <<loading, remaining, comm, adapter>>

\* gdt_rewardVideoAd:didFailWithError: whatever failed is passed on as a
\* failure to play.  A failed request is over; a failure on screen may end
\* the presentation without a close callback (external).
GDTDidFail ==
    /\ gdt.phase \in {"loading", "loaded"} \cup OnScreenPhases
    /\ \E after \in {gdt.phase, "failed"}, valid \in {gdt.adValid, FALSE} :
         /\ gdt.phase = "loading" => after = "failed"
         /\ gdt.phase = "loaded" => after = "loaded"
         /\ gdt' = [gdt EXCEPT !.phase = after, !.adValid = valid]
    /\ DidFailToPlay({})
    /\ UNCHANGED comm

\* gdt_rewardVideoAdDidRewardEffective: has an empty body.
GDTDidRewardEffective ==
    /\ gdt.phase = "exposed" /\ ~gdt.rewarded
    /\ gdt' = [gdt EXCEPT !.rewarded = TRUE]
    /\ io' = {}
    /\ UNCHANGED <<managerVars, comm, adapter>>

\* Time passes: the ad's expiry date, or GDT stops vouching for it.
GDTExpires ==
    /\ gdt.phase \in {"loaded"} \cup OnScreenPhases
    /\ \/ ~gdt.stale /\ gdt' = [gdt EXCEPT !.stale = TRUE]
       \/ gdt.adValid /\ gdt' = [gdt EXCEPT !.adValid = FALSE]
    /\ io' = {}
    /\ UNCHANGED <<managerVars, comm, adapter>>

----------------------------------------------------------------------------
AppCalls == LoadWhenReady \/ Load \/ ShowRefused \/ Show \/ HandleAdPlayed

ServerAnswers == CommunicatorDidReceive \/ CommunicatorDidFail

GDTCallbacks ==
    \/ GDTDidLoad \/ GDTVideoDidLoad \/ GDTWillVisible \/ GDTDidExposed
    \/ GDTDidClicked \/ GDTDidClose \/ GDTDidFail \/ GDTDidRewardEffective
    \/ GDTExpires

Next ==
    \/ AppCalls \/ ServerAnswers \/ Timeout \/ ExpirationTimerFires
    \/ GDTCallbacks

\* The HTTP session ends every task with data or an error, and the run loop
\* fires a scheduled timer.  The app, the user and GDT owe nothing.
Spec == Init /\ [][Next]_vars /\ WF_vars(ServerAnswers) /\ WF_vars(Timeout)

----------------------------------------------------------------------------
(* Properties.                                                             *)

\* Every variable has its type; the configuration being fetched is no longer
\* in the manager's list.
TypeOK ==
    /\ ready \in BOOLEAN
    /\ loading \in BOOLEAN
    /\ playedAd \in BOOLEAN
    /\ remaining \in Seq(Kinds) /\ Len(remaining) < MaxConfigs
    /\ comm \in {"none", "idle", "request"}
    /\ adapter \in Adapters
    /\ gdt \in Ads
    /\ io \subseteq {
         "load", "show", "didLoad", "videoDidLoad", "didFailToLoad",
         "didExpire", "didFailToPlay", "willAppear", "didAppear",
         "willDisappear", "didDisappear", "didReceiveTap"}

\* The manager is loading exactly while one thing is sure to end the load:
\* the config server's answer, or the load timer of an adapter it still
\* listens to.  So loadAdWithURL:, which drops requests while loading, drops
\* none for ever, and no answer finds the manager not waiting for one, even
\* though GDT's load errors never end a load.
OneAnswerDue ==
    /\ loading <=> (comm = "request" \/ adapter.timeoutTimer)
    /\ ~(comm = "request" /\ adapter.timeoutTimer)
    /\ adapter.timeoutTimer => adapter.attached
    /\ adapter.attached /\ gdt.phase = "loading" => adapter.timeoutTimer

\* Every load is answered exactly once, by didLoad or didFailToLoad.
Protocol == INSTANCE AdLoadProtocol WITH pending <- loading
LoadIsAnswered == Protocol!Spec

\* An ad the manager calls ready is the loaded, unexpired, unplayed ad of an
\* adapter whose callbacks reach the app.
ReadyMeansLoaded ==
    ready => /\ ~playedAd
             /\ adapter.attached
             /\ adapter.hasSuccessfullyLoaded
             /\ ~adapter.hasExpired
             /\ gdt.phase \in {"loaded"} \cup OnScreenPhases

\* What hasAdAvailable vouches for, presenting it puts on screen, and the
\* app will hear of it.
AvailableIsPresentable ==
    HasAdAvailable => gdt.phase = "loaded" /\ adapter.attached

\* The app can keep track of the ad from its callbacks alone: didLoad means
\* there is one, the four losses mean there is none, and nothing else changes
\* that.
Losses == {"didFailToLoad", "didExpire", "didFailToPlay", "didDisappear"}
CallbacksTellReady ==
    [][ready' = IF "didLoad" \in io' THEN TRUE
                ELSE ready /\ io' \cap Losses = {}]_vars

\* The adapter of an ad on screen is not replaced: its close callback, and
\* so didDisappear, would be lost.
OnScreenAdIsKept ==
    [][OnScreen => gdt'.phase \notin {"none", "loading"}]_vars

\* An ad is billed at most one impression and one click, and expires at most
\* before the impression that stops its timer.
BilledOnce ==
    /\ adapter.impressions <= 1 /\ adapter.clicks <= 1
    /\ adapter.hasTrackedImpression => ~adapter.expirationTimer

\* A request GDT reports as failed is over for the adapter as well.
LoadFailureEndsLoad ==
    adapter.timeoutTimer => gdt.phase = "loading"

\* didLoad tells the app of an ad it can show, also when the app had asked for
\* it while another one was on screen.
LoadedIsShowable ==
    "didLoad" \in io => ready /\ ~playedAd
=============================================================================
