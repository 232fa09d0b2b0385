# MEGDTAdapter in TLA+

A verification development of MEGDTAdapter, the plug-in that lets the Mobipub
mediation SDK (vendored in `Example/Pods/MEAdvSDK`) show ads of Tencent's GDT
SDK. The adapter is a set of *custom events*, one per ad format. A custom event
is only correct together with the two objects above it, the manager and the
adapter of its format, so the modules model the whole chain behind one posid:

    app -> manager -> adapter -> GDT custom event -> GDT SDK (external)

Abbreviations used below: `A/` is `src/MEGDTAdapter/Classes/`, `M/` is
`src/Example/Pods/MEAdvSDK/MEAdvSDK/Classes/Platform/Mobipub/MobipubSDK/`.

## Inventory

| Component | State | Operations | What makes it correct |
|---|---|---|---|
| Rewarded video: `M/RewardVideo/Internal/MobiRewardedVideoAdManager.m`, `M/RewardVideo/Adapter/MobiRewardedVideoAdapter.m`, `A/MobiGDTRewardedVideoCustomEvent.m` | manager: ready, loading, playedAd, remaining configurations; adapter: two timers, loaded / expired / tracked flags | load, show, hasAdAvailable, handleAdPlayed; server answers; load timeout, expiry; GDT callbacks | every load answered once; ready and hasAdAvailable true to the ad; nothing billed twice; an ad on screen not lost |
| Splash: `M/Splash/Internal/MobiSplash.m`, `.../MobiSplashAdManager.m`, `M/Splash/Adapter/MobiSplashAdapter.m`, `A/MobiGDTSplashCustomEvent.m` | the same, and the launch image with its queued removal | load and show, stop, handleAdPlayed; the same events | a splash asked for is shown or reported as failed; the launch image goes after a failure |
| Initialisation: `A/MEGDTAdapter.m` | dispatch_once token, cached app id | initialize (any thread), updateInitializationParameters | GDT registered once, with the app id, before anybody returns |
| Waterfall: `fetchAdWithConfiguration:` and the load-failure callbacks of the managers | remaining configurations | fetch next | tries each configuration at most once, ends in one answer |
| Config server client, timers: `M/Common/MobiAdConfigServer.m`, `MobiTimer.m`, `MobiRealTimeTimer.m` | requests in flight; scheduled or not | load, cancel; schedule, fire, invalidate | every request ends in one answer |
| Interstitial: `M/Interstitial/` (controller, `MPInterstitialAdManager.m`, adapters), `A/MobiGDTInterstitialCustomEvent.m` | manager: ready, loading, remaining; adapter: load timer, tracked flags | load, show; the same events; a client that loads inside a callback | every load answered; ready true to the ad until a failure comes out of turn; an ad on screen not lost |
| Feed: `M/Feed/` (manager, adapter), `A/MobiGDTFeedCustomEvent.m` | as rewarded video, and the views of one load | load, handleAdPlayed; the callbacks of each view | views billed once between them, not offered after use, not silenced before |
| Banner: `M/Banner/` (`MPAdView.m`, `MPBannerAdManager.m`, adapters, impression timer), `A/MobiGDTBannerCustomEvent.m` | on-screen and requesting adapter, refresh timer, config tasks, blocks on the main queue | load, force refresh, stop / start refreshing, background / foreground; refresh and impression timers; GDT switching and closing | loading true to what is under way; refreshing goes on; the banner taken away only by the user or for a successor |
| Full-screen video, draw view: `A/MobiGDT{Fullscreen,DrawView}CustomEvent.m` | none | none | (empty classes) |
| Client: `MEMobipubAdapter.m` and the MEAdvSDK managers above it | | loads, shows, reloads on close | |
| GDT SDK, Realm, Reachability, example app | | | third-party or boilerplate |

How they interact. Calls go down the chain, callbacks come back up through weak
delegate references, everything on the main thread but the completion handlers
of HTTP tasks, which run on the session's serial queue and write the config
server client's `loading` without a lock;
GDT, the timers and the config server enter at the bottom and at the side. Replacing the manager's
adapter frees the old one with its custom event, after which GDT's callbacks for
it go nowhere. Only initialisation is called from several threads.

What is hard: answers that come after a timeout, callbacks that GDT repeats,
app calls between any two callbacks, an ad that stops being valid between the
check and the use, failures that arrive inside the call that caused them, and
GDT errors that are forwarded under another name; for banners also requests
cancelled and answered all the same, blocks that run on the main queue after
what they were made for is gone, and a flag that two threads write.
`PROJECT.json` lists these
hazards at their lines with the properties aimed at them.

## Modules

| Module | Contents |
|---|---|
| `AdLoadProtocol` | Abstract: a load is answered exactly once, by didLoad or didFailToLoad, and nothing is answered that was not asked. Rewarded video and, for the loads it takes on, the feed implement it. |
| `MobiWaterfall` | The list of configurations and the walk over it, used by every format. |
| `MobiGDTRewardedVideo` | Rewarded video: manager, adapter, custom event, one posid. |
| `MobiGDTSplash` | Splash: MobiSplash, manager, adapter, custom event, one posid. |
| `MobiGDTInterstitial` | Interstitial: manager, adapter, custom event, one ad unit. |
| `MobiGDTFeed` | Feed: manager, adapter, custom event and the views of a load, one posid. |
| `MobiGDTBanner` | Banner: manager with its two adapters, timers, config server client, one MPAdView. |
| `MEGDTAdapter` | Initialisation by several threads. |
| `MobiWaterfall_proofs` | Lemmas about the list of configurations, for the proofs about the formats. |
| `MobiGDTRewardedVideo_proofs`, `MobiGDTSplash_proofs`, `MobiGDTInterstitial_proofs`, `MobiGDTFeed_proofs`, `MobiGDTBanner_proofs`, `MEGDTAdapter_proofs` | Theorems about the modules of those names. |

### What the formats share: rewarded video and splash

`ready`, `loading`, `playedAd` and `remaining` are the manager's properties of
those names; `adapter` is the record of the current adapter's flags and timers
(`attached` is `delegate != nil`; the counters `impressions` and `clicks` count
calls of the tracker); `comm` / `requests` are the config requests not yet
answered; `gdt` is what the GDT ad object is doing, external, written from what
the custom event asks of it and the callbacks it implements. `io` records the
calls and callbacks at the app's interface in the last step. In the splash
module `launchImage` and `removal` are the view and the block queued to remove
it, and `stopped` and `overlapped` are history variables.

One action is one entry into the chain from outside with all the calls it makes
before it returns. `Walk` is the load-failure callback with every fetch it goes
on to: refused configurations fail inside the fetch, so one walk may consume
several.

Abstractions. A configuration is reduced to what fetching it does at once
(`Kinds`). Payloads, errors, view controllers, rewards and URLs are left out.
`gdt_rewardVideoAdDidPlayFinish:` is left out: the adapter does not respond to
what it would forward. `handleAdPlayedForCustomEventNetwork` may be called by
anybody at any time; the broadcast that would call it is commented out in
`MobiRewardedVideo.m`. The branches for an empty configuration list and for a
nil adapter are unreachable (the communicator reports an empty response as a
failure; `initWithDelegate:` does not fail). Once presented a GDT ad is taken to
be no longer valid, and GDT to send callbacks in the order its header
describes. Exposures, clicks and, for rewarded video, loads are reported any
number of times; where a module allows a callback once, its section says so.

In every module a configuration is taken to carry the `adunit` that the GDT
custom events read and to name a GDT class. The vendored SDK hands the custom
events a `MobiConfig` and assigns its own `MobiPrivate*` classes
(`MobiConfig.m`, `configWithAdType`); a deployment of this adapter has to supply
both, and the models are about one that does.

The app makes any call at any time. `SerialClient = TRUE` restricts it to apps
that do not load while an ad is on screen; in the splash module the same
restriction is the history variable `overlapped`, because there the properties
are about what holds until the app does so.

### Interstitial

The state is named as above. The differences are the code's: there is no
`playedAd` and no expiry; `adapter.timeoutTimer` is set before the adapter looks
for its custom event, so an adapter that finds a wrong class is left with a
running timer, and a refused configuration may leave any of the three
pairs of adapter and ad in `LeftByRefusal`; a failure to present, and a show of
an ad that is no longer valid, come up as a failure to load (`FailToLoad`), which
walks on although no load is under way. `strayed` is the history variable that
such a failure, or the timer of a refused adapter, has come out of turn: the
properties about ready, the answers and the ad on screen hold until then, while
`LoadIsAnswered`, the first half of `OneAnswerDue` and `BilledOnce` hold always.
`GDTDidDismissAndAppLoads` is the close with a client that loads inside
willDisappear, as `MEMobipubAdapter` does: the manager is still ready with the ad
that is being closed and answers didLoad for it. GDT is taken to answer one load
request once: a success that GDT repeats is not modelled.

### Feed

`gdt.views` is the life of each view of a load; all of them report through one
custom event and one adapter. `LoadWhenReady` is the branch that would hand out
`nativeExpressFeedViews`, an array that is never created, so it tells nothing.
`crossed` is the history variable that a view has been closed while a load was
under way, which marks the coming ad as played. Views of an earlier load are not
tracked once another adapter has replaced theirs: their callbacks reach nobody.
`ProtocolIO` is what the app's interface looks like to the load protocol: the
calls and answers of loads, without the loads that find an ad already there
(`feed_cached` is about those).

### Banner

`requesting` and `onscreen` are the manager's two adapters: the first reduced to
what its custom event is doing, the second to its view, its impression timer and
its bill. `refreshTimer` is nil, counting, paused, or spent but still held.
`mainQueue` holds the blocks dispatched to the main queue, and the three block
actions take its head.

`communicator` has the flag `loading`, the current HTTP task, the cancelled ones
that have not ended, and `handler`, the completion handler on the session's
serial queue. `TaskEnds` and `CancelledTaskEnds` are a handler up to where it
clears `loading`; `HandlerFails` is an answer that turns out to be none, which
goes through `didFailWithError:` and clears it again; `HandlerDispatches` puts the
result on `mainQueue`, where `fetchAdWithConfiguration:` also puts the block that
asks the new adapter (`getAd`). Main thread and handlers interleave between these
steps, and at one place inside a step of the main thread: `loadURL:` resumes the
task (`M/Common/MobiAdConfigServer.m:70`) before it sets `loading` (line 84), so
the handler may clear the flag first. That is the second disjunct of `LoadURL`;
the history variable `communicator.outrun` records that `loading` is left over
from it, until something clears the flag. (A handler that does more than clear
the flag between the two lines needs no disjunct of its own: nothing on the main
thread sees the queue before the step is over.)

Consequences that are in the model as they are in the code: a task that outruns
`loadURL:` leaves `loading` set with nothing in flight; the end of a cancelled
task clears `loading` although a newer one is under way; between the end of a
task and its block a loadAd is not ignored and sends a second request; a
cancelled task that had its answer delivers it. A walk refuses here only
configurations without a custom event class; one with a wrong class or without an
adunit fails in `GetAd`.

`GDTSwitched` and `GDTSwitchFailed` are the callbacks of GDT's own exchange of the
ad in the view on the screen (`autoSwitchInterval`); such a load may begin
unnoticed at any time while the view is there, so the callbacks may come at any
time, and once more after the view has been closed. A view that has failed to load
and is not on the screen is taken not to load again by itself. `GDTWillClose` and
`CloseCompletes` are the fade-out and its completion block, which takes the view
away and clears `bannerView`; a view that fades is still visible to the
impression timer. `io` leaves out that the app is told of leaving it.
Left out: handlers for a user action and for expansion, which the
GDT custom event never calls, and rotation, which changes no state of this chain.

### Initialisation

`pc[c]` is how far call `c` is. `Enter` and `Pass` are dispatch_once: one call
enters, the others wait until it has left the block. `Register` reads the
result of GDT, `Complete` calls the block that was passed in. A block may itself
initialise again: it then waits for the dispatch_once it runs in, `pc` "stuck",
and so does everybody after it.

## Runs

| Run | Checks | Bounds |
|---|---|---|
| `rewarded_any` | `TypeOK`, `OneAnswerDue`, `BilledOnce`, `LoadIsAnswered` (refinement of `AdLoadProtocol!Spec`, liveness included) | 3 configurations, any client |
| `rewarded_serial` | `ReadyMeansLoaded`, `AvailableIsPresentable`, `CallbacksTellReady`, `OnScreenAdIsKept` | 3 configurations, serial client |
| `splash` | `TypeOK`, `OneAnswerDue`, `ReadyMeansOnScreen`, `BilledOnce`, `OnScreenAdIsKept`, `LoadIsAnswered`, `LaunchImageGoes` | 2 configurations, 2 requests in flight |
| `interstitial` | `TypeOK`, `OneAnswerDue`, `ReadyMeansLoaded`, `BilledOnce`, `OnScreenAdIsKept`, `AnswersAreDue`, `LoadIsAnswered` | 3 configurations, 2 requests in flight |
| `feed` | `TypeOK`, `OneAnswerDue`, `AvailableIsFresh`, `FreshViewsAreKept`, `BilledOnce`, `AnswersAreDue` (refinement of `AdLoadProtocol!SafeSpec`), `LoadTakenOnIsAnswered` | 2 configurations, 2 views |
| `banner` | `TypeOK`, `LoadingIsReal`, `RefreshIsArmed`, `BilledOnce`, `BannerIsReplaced`, `RequestIsAnswered` | 2 configurations, 2 requests not answered |
| `adapter_init` | `TypeOK`, `ReturnsRegistered`, `OutcomeIsTold`, `CallsReturn` | 3 calls, 2 app ids |
| `rewarded_load_failure`, `rewarded_overlap`, `splash_stop`, `feed_cached`, `banner_ignored` | one documented claim each, which the code does not keep | |

Bounds. Three configurations give a walk that starts, continues and ends with
each of the kinds before and behind it; two give one that starts and goes on, and
the theorems cover every length for every format. Two requests
in flight are one more than a client that does not overlap can cause
(`OneAnswerDue` says so) and enough for a cancelled request to come back before
or after its successor; for the banner they include the results waiting on the
main queue and in the handler. Two views are one that is seen while the other has been closed. Three
calls are one inside the block and two waiting. Nothing else is bounded: the
state spaces are finite and explored completely, with deadlock checked.

Fairness. The HTTP session ends every task, cancelled ones included, with data
or an error (`WF(ServerAnswers)`, for the banner `WF(TaskEnds)` and
`WF(CancelledTaskEnds)`) and runs its handler to the end
(`WF(HandlerDispatches)`), the run loop fires a scheduled load timer
(`WF(Timeout)`) and drains the main queue (`WF(RemoveLaunchImages)`,
`WF(MainQueueRuns)`), and threads that can run do (`WF(Proceed(c))`). Nothing is
assumed of the app, the user or GDT: a load is answered even if GDT never calls
back. The exception is the banner, whose load timer is commented out
(`MPBaseBannerAdapter.m:65`): a silent GDT leaves it loading, so
`RequestIsAnswered` ends with the load at GDT. `CallsReturn` says that every call
returns unless some call's completion block initialises again, which is the one
way to a deadlock.

Operators named in a comment as a mutant are plausible bugs next to the
definition they are a variant of; no specification uses them. Each property has
one that violates it (`PROJECT.json`, "mutants").

### What the violated runs show

* `rewarded_load_failure`: GDT's load errors are forwarded as playback errors
  (`A/MobiGDTRewardedVideoCustomEvent.m:205`), so the load, and the rest of the
  waterfall, waits for the 10 s timer. `OneAnswerDue` and `LoadIsAnswered` show
  that the timer does come.
* `rewarded_overlap`: load during a presentation, then close: the ad is reported
  as loaded, and hasAdAvailable and show refuse it as played.
* `splash_stop`: load, stop, server answer, GDT answer: the splash is shown.
* `feed_cached`: a feed load while an ad is ready is never answered. Since only a
  close or an expiry resets ready, and a view that has been seen does not expire,
  a feed whose views are seen and never closed does not load again.
* `banner_ignored`: an exhausted waterfall leaves the failed adapter as
  requestingAdapter, which counts as loading: from then on loadAd and the refresh
  timer are ignored, until the app comes back from the background or calls
  forceRefreshAd. The banner's other properties name this state where they have
  to. The property leaves out `communicator.outrun`, which has the same effect.

Met while modelling and recorded as findings without a run. Three are behaviours
that the models contain and the properties have to except: the race about
`loading` in `MobiAdConfigServer.m:84`, after which loadAd and refreshes are
ignored with nothing under way and a banner that GDT fails is not replaced
(`LoadingIsReal`, `RefreshIsArmed` and `BannerIsReplaced` except `outrun`); a feed
view closed during a load, which marks the coming ad as played (`crossed`); and
the interstitial client that reloads inside willDisappear and is told didLoad of
the ad being closed (`GDTDidDismissAndAppLoads`). The others are one line each:
the reward callback has an empty body
(`A/MobiGDTRewardedVideoCustomEvent.m:210`); GDT is registered with the string
"appid" (`A/MEGDTAdapter.m:94`); refreshing that was stopped before the first
banner was seen does not come back; banner clicks, exposures and closes and failed
feed renderings go to selectors nobody has or calls; ready of an interstitial
outlives its validity; a dismissed modal is announced as presented. Smaller: the
splash adapter passes exposure on as a second SuccessPresentScreen
(`M/Splash/Adapter/MobiSplashAdapter.m:185`), and MobiSplash checks for a
selector apps do not implement before telling them of a loaded splash
(`M/Splash/Internal/MobiSplash.m:169`).

## Theorems

All theorems hold for every `MaxConfigs` in `Nat \ {0}`; those about splash,
interstitial and banner for every `MaxRequests` in `Nat \ {0}`, the feed's for any
set `Views`, those about initialisation for any sets `Calls` and `AppIds`.

`MobiWaterfall_proofs` has no theorems of its own, only the lemmas that all
formats need of the list: what a response is and what is left of it when a
configuration is fetched. In each format `WalkOutcomes` then says once what a walk
can leave behind, so that the invariance proofs need no reasoning about lists.

Rewarded video (`MobiGDTRewardedVideo_proofs`)

* for any client: `TypeCorrect` (`[]TypeOK`), `AnswerDue` (`[]OneAnswerDue`),
  `Billing` (`[]BilledOnce`), and `ImplementsProtocol`, that the specification
  implements the safety part of `AdLoadProtocol` with `pending <- loading`;
* for a serial client (`ASSUME SerialClient`): `ReadyIsLoaded`,
  `AvailabilityIsTrue`, `OnScreenAdStays`, `CallbacksAreTrue`
  (`CallbacksTellReady`).

`OneAnswerDue` is inductive with `TypeOK` and a small invariant `AdInv`, which
ties the adapter's flags to the phase of the GDT ad (only a loaded ad is valid, an
ad that got that far has been reported as loaded, the counters follow the flags).
The refinement follows from `OneAnswerDue`: whatever answers the app finds
`loading` set. `ReadyMeansLoaded` is not inductive: a walk that replaces or cuts
off the adapter of a ready ad would break it. `SerialInv` rules that out: during
a load, which is when walks happen, no ad is ready or on screen. It rests on the
assumption about the client in the guard of `Load`, and `rewarded_overlap` shows
that it is needed. `CallbacksAreTrue` follows from `SerialInv` step by step: a
handler that clears ready tells one of the four losses, and a handler that tells a
loss without clearing ready finds it cleared.

Splash (`MobiGDTSplash_proofs`): `SplashTypeCorrect`, `SplashAnswerDue`
(`[]OneAnswerDue`), `SplashReadyIsOnScreen` (`[]ReadyMeansOnScreen`),
`SplashBilling` (`[]BilledOnce`), `SplashOnScreenIsKept` (`OnScreenAdIsKept`).
`AdInv` holds whatever the app does: the load timer runs exactly while a GDT load
is under way whose adapter is heard, an ad that is being loaded has not been seen
and cannot expire, and the counters follow the flags. `Serial` holds until
`overlapped`. None of the three properties that speak of that time is inductive:
a presentation that fails takes the load-failure path, so without knowing that
nothing is left of the waterfall while an ad is on screen, it would walk on, start
a GDT load with no load under way, and put another ad in the place of a ready one.
`Serial` adds that, and that a manager that is loading is neither ready nor played.

Interstitial (`MobiGDTInterstitial_proofs`): `InterstitialTypeCorrect`,
`InterstitialAnswerDue` (`[]OneAnswerDue`), `InterstitialReadyIsLoaded`
(`[]ReadyMeansLoaded`), `InterstitialBilling` (`[]BilledOnce`),
`InterstitialOnScreenIsKept` (`OnScreenAdIsKept`), `InterstitialAnswersAreDue`
(`AnswersAreDue`). Here nothing ties the timer to the load in general, since
refused adapters keep theirs. What holds always is `WaitInv`, that a manager that
is loading waits for a request or for the timer of an adapter it hears: every way
out of that state walks, and a walk ends the load or leaves a timer for it. The
rest is `InTurn`, until `strayed`: a GDT load that is heard has its timer and is
the load under way, an ad on screen is ready, and a ready ad has neither a timer
nor a load that could replace it. The timer of a refused adapter is no
counterexample because its firing is what `strayed` records.

Feed (`MobiGDTFeed_proofs`): `FeedTypeCorrect`, `FeedAnswerDue`
(`[]OneAnswerDue`), `FeedBilling` (`[]BilledOnce`), `AvailableViewsAreFresh`
(`[]AvailableIsFresh`), `FreshViewsStay` (`[]FreshViewsAreKept`),
`FeedImplementsProtocol` (`AnswersAreDue`). `AdInv` adds
that a GDT load whose adapter is listened to has its timer, without which a
success could end a load that the config server is to end as well, and that
before the views are there nothing has been seen or can expire. The refinement
follows from `OneAnswerDue`, as for rewarded video. The two theorems about fresh
views follow from one invariant, `FreshInv`: until a view is closed during a
load, ready means exactly that fresh views report to the manager, and then it is
neither loading nor through with them. Neither property is inductive alone: one
needs that `Load` finds no fresh ad, the other that a load ends with one.

Banner (`MobiGDTBanner_proofs`): `BannerTypeCorrect`, `LoadingTellsTheTruth`
(`[]LoadingIsReal`), `BannerStays` (`BannerIsReplaced`), `BannerBilling`
(`[]BilledOnce`), `RefreshGoesOn` (`[]RefreshIsArmed`). `LoadInv` says that the
communicator's `loading` implies a task that has not ended, or one that outran
`loadURL:`, and that a new adapter's block is on the main queue behind whatever
else is there; two lemmas about queues (`InAppend`, `InTail`) carry it.
`BannerStays` goes through `ViewGoes`, that only the user's close and the two
callbacks of a failed banner take a view away, and `LoadInv`, that a reload
ignored there finds something under way or one of the two stuck states.
`RefreshIsArmed` speaks only of states at rest; `RefreshInv` follows the promise of
a refresh through the states between: a spent timer below a banner that has been
seen implies a task, a cancelled task, a handler, a result on the queue or an
adapter, each of which ends in scheduling the timer or in a new banner, or else
`outrun`, with which the promise is lost.

Initialisation (`MEGDTAdapter_proofs`): `InitTypeCorrect`, `NoEarlyReturn`
(`[]ReturnsRegistered`), `OneOutcome` (`[]OutcomeIsTold`). The inductive invariant
adds that only the call that entered the block can be inside it, that whoever has
passed the once finds one registration, and that a block is told an outcome only
by that call and after the registration. `OutcomeIsTold` includes that nobody
returns while a call inside the block has yet to register or to be told; this is
where the token comes in: whoever returns finds it done, whoever is inside has it
running.

Every invariant and every action property of the runs that pass is stated by a
theorem. Only model-checked: liveness under fairness, which is out of the prover's
reach (the `LoadIsAnswered` of rewarded video, splash and interstitial,
`LoadTakenOnIsAnswered`, `RequestIsAnswered`, `LaunchImageGoes`, `CallsReturn`), and
that the properties of the violated runs fail.

## Plan

1. Done: all five formats and initialisation as modules, and theorems for each of
   them about every safety property that the runs check.
2. The safety half of what is only model-checked: for the banner, that a request
   that is not answered has its next step pending, the invariant behind
   `RequestIsAnswered`; for the splash, that a launch image that is to go has its
   removal queued, the invariant behind `LaunchImageGoes`.
3. The load protocol for splash and interstitial, until `overlapped` and `strayed`.

## Not modelled

JSON parsing, URL building, analytics, logging and the time arithmetic of the
timers are data. The tables of managers and delegates by posid in the facades
(`MobiRewardedVideo`, `MobiFeed`, `MPInterstitialAdController`) only route to the
one chain a module models. The full-screen video and draw view custom events are
empty classes. The MEAdvSDK layer above `MEMobipubAdapter` sees this adapter only
through the calls that the app of the models makes at any time. GDT, Realm,
Reachability and the example app are third-party code or boilerplate; most of the
repository by size is Realm's headers; Realm stores the event log of MEAdvSDK.
