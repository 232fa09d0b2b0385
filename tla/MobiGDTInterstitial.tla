------------------------- MODULE MobiGDTInterstitial -------------------------
(***************************************************************************)
(* Interstitial ads through GDT: the objects behind one ad unit.           *)
(*                                                                         *)
(*   app -> MPInterstitialAdController -> MPInterstitialAdManager          *)
(*       -> MPInterstitialCustomEventAdapter                               *)
(*       -> MobiGDTInterstitialCustomEvent -> GDTUnifiedInterstitialAd     *)
(*                                                                         *)
(* This manager differs from the ones of the other formats: it does not    *)
(* remember that its ad was played, its adapter keeps the custom event     *)
(* after a failure, and a failure to present comes up as a failure to      *)
(* load.  One action is one entry on the main thread with every call it    *)
(* makes.                                                                  *)
(***************************************************************************)
EXTENDS MobiWaterfall

CONSTANT MaxRequests  \* bound on the config requests in flight

ASSUME MaxRequestsAssumption == MaxRequests \in Nat \ {0}

VARIABLES
    ready,      \* the manager holds an ad that may be shown
    loading,    \* the manager has a load under way
    remaining,  \* the configurations the manager has not tried yet
    requests,   \* config requests not yet answered, cancelled ones included
    adapter,    \* the manager's current adapter
    gdt,        \* its custom event's GDTUnifiedInterstitialAd (external)
    io,         \* calls and callbacks between app and SDK, last step
    strayed     \* history: an adapter has reported a load failure that was
                \* not the outcome of the load under way

managerVars == <<ready, loading, remaining>>
vars == <<managerVars, requests, adapter, gdt, io, strayed>>

Answers == {"didLoad", "didFailToLoad"}

Adapters == [
    attached : BOOLEAN,              \* delegate # nil
    timeoutTimer : BOOLEAN,          \* scheduled
    hasTrackedImpression : BOOLEAN,
    hasTrackedClick : BOOLEAN,
    impressions : Nat,               \* impressions reported to the tracker
    clicks : Nat]                    \* clicks reported to the tracker

\* Mutant: getAdWithConfiguration: is called without startTimeoutTimer.
NewAdapterNoTimer == [
    attached |-> TRUE, timeoutTimer |-> FALSE, hasTrackedImpression |-> FALSE,
    hasTrackedClick |-> FALSE, impressions |-> 0, clicks |-> 0]

\* An adapter in getAdWithConfiguration:, its load timer set beforehand.
NewAdapter == [
    attached |-> TRUE, timeoutTimer |-> TRUE, hasTrackedImpression |-> FALSE,
    hasTrackedClick |-> FALSE, impressions |-> 0, clicks |-> 0]

Phases == {"none", "loading", "loaded", "presented", "visible", "shown",
           "over"}

Ads == [phase : Phases,      \* "none": there is no custom event
        adValid : BOOLEAN]

NoAd == [phase |-> "none", adValid |-> FALSE]

\* A custom event whose GDT ad is missing, has failed or has been closed.
DeadAd == [phase |-> "over", adValid |-> FALSE]

\* requestInterstitialWithCustomEventInfo: with an adunit.
RequestedAd == [phase |-> "loading", adValid |-> FALSE]

OnScreenPhases == {"presented", "visible", "shown"}
OnScreen == gdt.phase \in OnScreenPhases

Init ==
    /\ ready = FALSE /\ loading = FALSE /\ remaining = <<>>
    /\ requests = 0
    /\ adapter = [NewAdapter EXCEPT !.attached = FALSE,
                                    !.timeoutTimer = FALSE]
    /\ gdt = NoAd
    /\ io = {}
    /\ strayed = FALSE

----------------------------------------------------------------------------
(* The adapter's callbacks and the manager's side.                         *)

\* Mutant: the load timer is not invalidated.
DidStopLoadingKeepsTimer(a) == a

\* didStopLoading.
DidStopLoading(a) == [a EXCEPT !.timeoutTimer = FALSE]

\* What refused configurations leave behind.  Without a custom event class
\* no adapter is created; a custom event without adunit fails through its
\* adapter, which stops the timer; an adapter that finds a class of another
\* kind fails to the manager, and its timer runs on.
LeftByRefusal(kept, ad) == {
    <<kept, ad>>, <<DidStopLoading(NewAdapter), DeadAd>>, <<NewAdapter, NoAd>>}

\* What the walk over cs, whose first n configurations were refused, leaves.
LeaveAfter(n, kept, ad) ==
    \E left \in IF n = 0 THEN {<<kept, ad>>} ELSE LeftByRefusal(kept, ad) :
      adapter' = left[1] /\ gdt' = left[2]

\* adapter:didFailToLoadAdWithError: of the manager and the fetches it goes
\* on with.  cs are the configurations left; the adapter and its ad are kept
\* if no other is created.
Walk(cs, kept, ad, calls) ==
    \/ /\ Exhausted(cs)
       /\ ready' = FALSE
       /\ loading' = FALSE
       /\ remaining' = <<>>
       /\ LeaveAfter(Len(cs), kept, ad)
       /\ io' = calls \cup {"didFailToLoad"}
    \/ \E k \in 1..Len(cs) :
         /\ StopsAt(cs, k)
         /\ remaining' = Rest(cs, k)
         /\ UNCHANGED ready
         /\ \/ /\ cs[k] = "stop"
               /\ loading' = FALSE
               /\ LeaveAfter(k - 1, kept, ad)
               /\ io' = calls \cup {"didFailToLoad"}
            \/ /\ cs[k] = "gdt"
               /\ adapter' = NewAdapter
               /\ gdt' = RequestedAd
               /\ io' = calls
               /\ UNCHANGED loading

\* A failure comes from the adapter, whatever the manager is doing.
NoteStray == strayed' = (strayed \/ ~loading \/ requests > 0)

\* Mutant: a failure of the ad that was loaded is not passed on.
FailToLoadUnlessReady(ad, calls) ==
    IF adapter.attached /\ ~ready
      THEN /\ Walk(remaining, DidStopLoading(adapter), ad, calls)
           /\ NoteStray
      ELSE /\ adapter' = DidStopLoading(adapter)
           /\ gdt' = ad
           /\ io' = calls
           /\ UNCHANGED <<managerVars, strayed>>

\* interstitialCustomEvent:didFailToLoadAdWithError:
FailToLoad(ad, calls) ==
    IF adapter.attached
      THEN /\ Walk(remaining, DidStopLoading(adapter), ad, calls)
           /\ NoteStray
      ELSE /\ adapter' = DidStopLoading(adapter)
           /\ gdt' = ad
           /\ io' = calls
           /\ UNCHANGED <<managerVars, strayed>>

\* A callback that adapter, manager and controller only pass on to the app.
PassOn(events) ==
    /\ io' = IF adapter.attached THEN events ELSE {}
    /\ UNCHANGED managerVars

----------------------------------------------------------------------------
(* The app.                                                                *)

\* loadAd while the manager has an ad, even one that is on screen.
LoadWhenReady ==
    /\ ready
    /\ io' = {"load", "didLoad"}
    /\ UNCHANGED <<managerVars, requests, adapter, gdt, strayed>>

\* loadAdWithURL: once the manager has no ad: a request, unless a load is
\* under way.
LoadAdWithURL ==
    /\ loading' = TRUE
    /\ loading \/ requests < MaxRequests
    /\ requests' = IF loading THEN requests ELSE requests + 1

\* loadAd otherwise.
Load ==
    /\ ~ready
    /\ LoadAdWithURL
    /\ io' = {"load"}
    /\ UNCHANGED <<ready, remaining, adapter, gdt, strayed>>

\* showFromViewController: of an ad the manager calls ready; otherwise, and
\* without a view controller, it does nothing.
Show ==
    /\ ready
    /\ \/ /\ gdt.phase = "none"
          /\ io' = {"show"}
          /\ UNCHANGED <<managerVars, adapter, gdt, strayed>>
       \/ /\ gdt.adValid
          /\ gdt' = [phase |-> "presented", adValid |-> FALSE]
          /\ io' = {"show"}
          /\ UNCHANGED <<managerVars, adapter, strayed>>
       \/ /\ gdt.phase # "none" /\ ~gdt.adValid
          /\ FailToLoad(gdt, {"show"})
    /\ UNCHANGED requests

----------------------------------------------------------------------------
(* The config server and the load timer.                                   *)

CommunicatorDidReceive ==
    /\ requests > 0
    /\ requests' = requests - 1
    /\ \E cs \in Configs : Walk(cs, adapter, gdt, {})
    /\ UNCHANGED strayed

CommunicatorDidFail ==
    /\ requests > 0
    /\ requests' = requests - 1
    /\ ready' = FALSE
    /\ loading' = FALSE
    /\ io' = {"didFailToLoad"}
    /\ UNCHANGED <<remaining, adapter, gdt, strayed>>

\* timeout: the load failed, and the adapter is cut off from the manager.
Timeout ==
    /\ adapter.timeoutTimer
    /\ LET silenced == [DidStopLoading(adapter) EXCEPT !.attached = FALSE] IN
         IF adapter.attached
           THEN Walk(remaining, silenced, gdt, {}) /\ NoteStray
           ELSE /\ adapter' = silenced
                /\ io' = {}
                /\ UNCHANGED <<managerVars, gdt, strayed>>
    /\ UNCHANGED requests

----------------------------------------------------------------------------
(* GDT's callbacks to the custom event.                                    *)

\* Mutant: an adapter that was cut off by its timeout still reports.
GDTSuccessToLoadLate ==
    /\ gdt.phase = "loading"
    /\ gdt' = [phase |-> "loaded", adValid |-> TRUE]
    /\ adapter' = DidStopLoading(adapter)
    /\ ready' = TRUE
    /\ loading' = FALSE
    /\ remaining' = <<>>
    /\ io' = {"didLoad"}
    /\ UNCHANGED <<requests, strayed>>

\* unifiedInterstitialSuccessToLoadAd:
GDTSuccessToLoad ==
    /\ gdt.phase = "loading"
    /\ gdt' = [phase |-> "loaded", adValid |-> TRUE]
    /\ adapter' = DidStopLoading(adapter)
    /\ IF adapter.attached
         THEN /\ ready' = TRUE
              /\ loading' = FALSE
              /\ remaining' = <<>>
              /\ io' = {"didLoad"}
         ELSE UNCHANGED managerVars /\ io' = {}
    /\ UNCHANGED <<requests, strayed>>

\* unifiedInterstitialFailToLoadAd:error:, unifiedInterstitialFailToPresent:
\* error: both end in didFailToLoadAdWithError:.
GDTFails ==
    /\ gdt.phase \in {"loading", "presented"}
    /\ FailToLoad(DeadAd, {})
    /\ UNCHANGED requests

\* unifiedInterstitialWillPresentScreen:
GDTWillPresent ==
    /\ gdt.phase = "presented"
    /\ gdt' = [gdt EXCEPT !.phase = "visible"]
    /\ PassOn({"willAppear"})
    /\ UNCHANGED <<requests, adapter, strayed>>

\* Mutant: hasTrackedImpression is not looked at.
GDTDidPresentTracksAll ==
    /\ gdt.phase \in {"visible", "shown"}
    /\ gdt' = [gdt EXCEPT !.phase = "shown"]
    /\ adapter' = [adapter EXCEPT !.hasTrackedImpression = TRUE,
                                  !.impressions = @ + 1]
    /\ PassOn({"didAppear"})
    /\ UNCHANGED <<requests, strayed>>

\* unifiedInterstitialDidPresentScreen:, also when the ad reappears from
\* behind the page it has opened; with trackImpression.
GDTDidPresent ==
    /\ gdt.phase \in {"visible", "shown"}
    /\ gdt' = [gdt EXCEPT !.phase = "shown"]
    /\ adapter' = IF adapter.hasTrackedImpression THEN adapter
                  ELSE [adapter EXCEPT !.hasTrackedImpression = TRUE,
                                       !.impressions = @ + 1]
    /\ PassOn({"didAppear"})
    /\ UNCHANGED <<requests, strayed>>

\* unifiedInterstitialClicked:, with trackClick.
GDTClicked ==
    /\ gdt.phase = "shown"
    /\ adapter' = IF adapter.hasTrackedClick THEN adapter
                  ELSE [adapter EXCEPT !.hasTrackedClick = TRUE,
                                       !.clicks = @ + 1]
    /\ PassOn({"tap"})
    /\ UNCHANGED <<requests, gdt, strayed>>

\* unifiedInterstitialAdWillDismissFullScreenModal:, which the controller
\* announces as the modal being presented, and
\* unifiedInterstitialWillLeaveApplication:, which ends at the manager.
GDTInforms ==
    /\ gdt.phase = "shown"
    /\ \E events \in {{"willPresentModal"}, {}} : PassOn(events)
    /\ UNCHANGED <<requests, adapter, gdt, strayed>>

\* Mutant: the manager does not reset ready.
DidDisappearKeepsReady(events) ==
    /\ io' = events \cup {"didDisappear"}
    /\ UNCHANGED ready

\* interstitialDidDisappearForAdapter:
DidDisappear(events) ==
    /\ ready' = FALSE
    /\ io' = events \cup {"didDisappear"}

\* unifiedInterstitialDidDismissScreen: the app is told that the ad will
\* disappear, and then that it has.
GDTDidDismiss ==
    /\ gdt.phase \in {"visible", "shown"}
    /\ gdt' = DeadAd
    /\ IF adapter.attached THEN DidDisappear({"willDisappear"})
       ELSE UNCHANGED ready /\ io' = {}
    /\ UNCHANGED <<loading, remaining, requests, adapter, strayed>>

\* The same with an app that asks for the next ad when it is told that this
\* one will disappear, as MEMobipubAdapter does: the manager is still ready
\* with the ad being closed.
GDTDidDismissAndAppLoads ==
    /\ gdt.phase \in {"visible", "shown"}
    /\ adapter.attached
    /\ gdt' = DeadAd
    /\ IF ready
         THEN /\ DidDisappear({"willDisappear", "load", "didLoad"})
              /\ UNCHANGED <<loading, requests>>
         ELSE LoadAdWithURL /\ DidDisappear({"willDisappear", "load"})
    /\ UNCHANGED <<remaining, adapter, strayed>>

\* A loaded ad may become invalid; GDT does not tell.
GDTExpires ==
    /\ gdt.phase = "loaded" /\ gdt.adValid
    /\ gdt' = [gdt EXCEPT !.adValid = FALSE]
    /\ io' = {}
    /\ UNCHANGED <<managerVars, requests, adapter, strayed>>

----------------------------------------------------------------------------
AppCalls == LoadWhenReady \/ Load \/ Show

ServerAnswers == CommunicatorDidReceive \/ CommunicatorDidFail

GDTCallbacks ==
    \/ GDTSuccessToLoad \/ GDTFails \/ GDTWillPresent \/ GDTDidPresent
    \/ GDTClicked \/ GDTInforms \/ GDTDidDismiss \/ GDTDidDismissAndAppLoads
    \/ GDTExpires

Next == AppCalls \/ ServerAnswers \/ Timeout \/ GDTCallbacks

\* The HTTP session answers every task and the run loop fires scheduled
\* timers.  The app, the user and GDT owe nothing.
Spec ==
    /\ Init /\ [][Next]_vars
    /\ WF_vars(ServerAnswers) /\ WF_vars(Timeout)

----------------------------------------------------------------------------
(* Properties.                                                             *)

\* Every variable has its type; the configuration being fetched is no longer
\* in the manager's list.
TypeOK ==
    /\ ready \in BOOLEAN
    /\ loading \in BOOLEAN
    /\ remaining \in Seq(Kinds) /\ Len(remaining) < MaxConfigs
    /\ requests \in 0..MaxRequests
    /\ adapter \in Adapters
    /\ gdt \in Ads
    /\ io \subseteq Answers \cup {
         "load", "show", "willAppear", "didAppear", "tap",
         "willPresentModal", "willDisappear", "didDisappear"}
    /\ strayed \in BOOLEAN

\* Something is always due that ends the load under way: the answer to a
\* config request, or the load timer of an adapter the manager listens to.
\* Until an adapter reports a failure out of turn, it is one of them only,
\* and no request is out or GDT load waited for without a load under way.
OneAnswerDue ==
    /\ loading => requests > 0 \/ (adapter.timeoutTimer /\ adapter.attached)
    /\ ~strayed =>
         /\ requests <= 1
         /\ gdt.phase = "loading" /\ adapter.timeoutTimer => adapter.attached
         /\ loading <=> \/ requests = 1
                        \/ gdt.phase = "loading" /\ adapter.timeoutTimer
         /\ requests = 1 => gdt.phase # "loading" \/ ~adapter.attached

\* Until an adapter reports a failure out of turn, a ready interstitial is
\* the loaded ad of an adapter that the manager listens to, waiting or on
\* screen, and no load is under way that would replace it.
ReadyMeansLoaded ==
    ~strayed /\ ready =>
      /\ gdt.phase \in {"loaded"} \cup OnScreenPhases
      /\ adapter.attached /\ ~adapter.timeoutTimer
      /\ ~loading

\* Unless an adapter reports a failure out of turn (a second show or a failed
\* presentation does), the callbacks of an ad on screen keep reaching the
\* app: it leaves the screen only with didDisappear, and until then the
\* manager calls it ready.
OnScreenAdIsKept ==
    [][~strayed' /\ OnScreen =>
         \/ gdt'.phase \in OnScreenPhases /\ ready' /\ adapter'.attached
         \/ "didDisappear" \in io']_vars

\* Until an adapter reports a failure out of turn, an outcome that is told
\* other than within a load call ends the load under way, and ready changes
\* only when the app is told.
AnswersAreDue ==
    [][~strayed' =>
         /\ io' \cap Answers # {} /\ "load" \notin io'
              => loading /\ ~loading' /\ (ready' <=> "didLoad" \in io')
         /\ ready' # ready => io' \cap (Answers \cup {"didDisappear"}) # {}
      ]_vars

\* An ad is billed at most one impression and one click, however often it
\* appears and is tapped.
BilledOnce == adapter.impressions <= 1 /\ adapter.clicks <= 1

\* Whoever asks for an interstitial is told an outcome, also when failures
\* out of turn have ended loads early.
LoadIsAnswered == ("load" \in io) ~> (io \cap Answers # {})
=============================================================================
