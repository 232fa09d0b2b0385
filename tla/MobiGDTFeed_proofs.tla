------------------------- MODULE MobiGDTFeed_proofs -------------------------
(***************************************************************************)
(* Proofs about MobiGDTFeed for every length of the waterfall and any set  *)
(* of views.                                                               *)
(***************************************************************************)
EXTENDS MobiGDTFeed, MobiWaterfall_proofs, TLAPS

\* What a walk leaves behind: the load has failed, or a new request is out.
WalkOutcome(kept, ad) ==
    /\ playedAd' = playedAd
    /\ remaining' \in Seq(Kinds) /\ Len(remaining') < MaxConfigs
    /\ \/ /\ ready' \in {ready, FALSE}
          /\ loading' = FALSE
          /\ io' = {"didFailToLoad"}
          /\ \/ adapter' = kept /\ gdt' = ad
             \/ adapter' = RefusedAdapter /\ gdt' = NoAd
       \/ /\ ready' = ready
          /\ loading' = loading
          /\ io' = {}
          /\ adapter' = NewAdapter /\ gdt' = RequestedAd

\* Walk, whatever list it starts from, has one of the outcomes above.
LEMMA WalkOutcomes ==
    ASSUME NEW cs \in Seq(Kinds), Len(cs) <= MaxConfigs, NEW kept, NEW ad,
           loading \in BOOLEAN, Walk(cs, kept, ad)
    PROVE  WalkOutcome(kept, ad)
<1>1. CASE /\ Exhausted(cs)
           /\ ready' = FALSE
           /\ loading' = FALSE
           /\ remaining' = <<>>
           /\ adapter' = IF cs = <<>> THEN kept ELSE RefusedAdapter
           /\ gdt' = IF cs = <<>> THEN ad ELSE NoAd
           /\ io' = {"didFailToLoad"}
  <2>1. remaining' \in Seq(Kinds) /\ Len(remaining') < MaxConfigs
    BY <1>1, NothingLeft
  <2> QED BY <1>1, <2>1 DEF Walk, WalkOutcome
<1>2. ASSUME NEW k \in 1..Len(cs),
             remaining' = Rest(cs, k), ready' = ready,
             \/ /\ cs[k] = "stop"
                /\ loading' = FALSE
                /\ adapter' = IF k = 1 THEN kept ELSE RefusedAdapter
                /\ gdt' = IF k = 1 THEN ad ELSE NoAd
                /\ io' = {"didFailToLoad"}
             \/ /\ cs[k] = "gdt"
                /\ adapter' = NewAdapter
                /\ gdt' = RequestedAd
                /\ io' = {}
                /\ UNCHANGED loading
      PROVE  WalkOutcome(kept, ad)
  <2>1. remaining' \in Seq(Kinds) /\ Len(remaining') < MaxConfigs
    BY <1>2, RestType, MaxConfigsAssumption
  <2> QED BY <1>2, <2>1 DEF Walk, WalkOutcome
<1> QED BY <1>1, <1>2 DEF Walk

\* The adapter that timeout leaves if the waterfall is exhausted.
CutOff == [adapter EXCEPT !.timeoutTimer = FALSE, !.attached = FALSE]

\* The steps that walk, with what they keep.
LEMMA Walks ==
    ASSUME TypeOK
    PROVE  /\ CommunicatorDidReceive => WalkOutcome(adapter, gdt)
           /\ Timeout => WalkOutcome(CutOff, gdt)
           /\ GDTFailToLoad /\ adapter.attached
                => WalkOutcome(DidStopLoading(adapter), NoAd)
<1>1. ASSUME CommunicatorDidReceive PROVE WalkOutcome(adapter, gdt)
  <2>1. PICK cs \in Configs : Walk(cs, adapter, gdt)
    BY <1>1 DEF CommunicatorDidReceive
  <2> QED BY <2>1, ConfigsType, WalkOutcomes DEF TypeOK
<1>2. remaining \in Seq(Kinds) /\ Len(remaining) <= MaxConfigs
  BY MaxConfigsAssumption DEF TypeOK
<1>3. ASSUME Timeout PROVE WalkOutcome(CutOff, gdt)
  BY <1>2, <1>3, WalkOutcomes DEF Timeout, CutOff, TypeOK
<1>4. ASSUME GDTFailToLoad, adapter.attached
      PROVE  WalkOutcome(DidStopLoading(adapter), NoAd)
  BY <1>2, <1>4, WalkOutcomes DEF GDTFailToLoad, TypeOK
<1> QED BY <1>1, <1>3, <1>4

----------------------------------------------------------------------------
(* Types.                                                                  *)

\* The records a load starts from.
LEMMA RecordTypes ==
    /\ NewAdapter \in Adapters /\ RefusedAdapter \in Adapters
    /\ NoAd \in Ads /\ RequestedAd \in Ads
BY DEF NewAdapter, RefusedAdapter, Adapters, NoAd, RequestedAd, Ads,
       NoViews, ViewStates

LEMMA RecordValues ==
    /\ NewAdapter.attached /\ NewAdapter.timeoutTimer
    /\ ~RefusedAdapter.timeoutTimer
    /\ \A a \in {NewAdapter, RefusedAdapter} :
         /\ ~a.hasExpired /\ ~a.expirationTimer
         /\ ~a.hasTrackedImpression /\ a.impressions = 0
         /\ ~a.hasTrackedClick /\ a.clicks = 0
    /\ NoAd.phase = "none" /\ RequestedAd.phase = "loading"
    /\ NoAd.views = NoViews /\ RequestedAd.views = NoViews
BY DEF NewAdapter, RefusedAdapter, NoAd, RequestedAd

\* The adapters that handlers leave.
LEMMA KeptAdapters ==
    ASSUME adapter \in Adapters
    PROVE  /\ CutOff \in Adapters
           /\ DidStopLoading(adapter) \in Adapters
           /\ [adapter EXCEPT !.expirationTimer = FALSE] \in Adapters
BY DEF CutOff, DidStopLoading, Adapters

LEMMA WalkType ==
    ASSUME TypeOK, NEW kept \in Adapters, NEW ad \in Ads,
           WalkOutcome(kept, ad), requested' \in BOOLEAN, crossed' = crossed
    PROVE  TypeOK'
BY RecordTypes DEF TypeOK, WalkOutcome, Answers

LEMMA DidExpireType ==
    ASSUME TypeOK, NEW a \in Adapters, DidExpire(a), gdt' = gdt,
           requested' = requested, crossed' = crossed
    PROVE  TypeOK'
<1>1. adapter' \in Adapters
  BY DEF DidExpire, Adapters
<1> QED BY <1>1 DEF TypeOK, DidExpire

\* A callback moves one view of the ad to another state of its life.
ViewMoves(from, to) ==
    \E v \in Views :
      /\ gdt.views[v] \in from
      /\ gdt' = [gdt EXCEPT !.views[v] = to]

LEMMA ViewMoved ==
    ASSUME gdt \in Ads, NEW from, NEW to \in ViewStates, ViewMoves(from, to)
    PROVE  /\ gdt' \in Ads /\ gdt'.phase = gdt.phase
           /\ \E v \in Views :
                /\ gdt.views[v] \in from
                /\ gdt'.views = [gdt.views EXCEPT ![v] = to]
<1>1. PICK v \in Views : /\ gdt.views[v] \in from
                         /\ gdt' = [gdt EXCEPT !.views[v] = to]
  BY DEF ViewMoves
<1>2. gdt'.views = [gdt.views EXCEPT ![v] = to] /\ gdt'.phase = gdt.phase
  BY <1>1 DEF Ads
<1>3. gdt' \in Ads
  BY <1>1 DEF Ads
<1> QED BY <1>1, <1>2, <1>3

LEMMA RenderMoves ==
    ASSUME GDTRender
    PROVE  ViewMoves({"rendering"}, "rendered")
           \/ ViewMoves({"rendering"}, "renderFailed")
BY DEF GDTRender, ViewMoves, ViewsThatAre

LEMMA ExposureMoves ==
    ASSUME GDTExposure PROVE ViewMoves({"rendered", "exposed"}, "exposed")
BY DEF GDTExposure, ViewMoves, ViewsThatAre

LEMMA ClosedMoves ==
    ASSUME GDTClosed PROVE ViewMoves({"exposed"}, "closed")
BY DEF GDTClosed, ViewMoves, ViewsThatAre

LEMMA TypeStep == TypeOK /\ [Next]_vars => TypeOK'
<1> SUFFICES ASSUME TypeOK, [Next]_vars PROVE TypeOK'
  OBVIOUS
<1>1. CASE LoadWhenReady \/ Load \/ CommunicatorDidFail
  BY <1>1 DEF LoadWhenReady, Load, CommunicatorDidFail, managerVars, TypeOK,
              Answers
<1>2. CASE HandleAdPlayed
  BY <1>2, DidExpireType DEF HandleAdPlayed, TypeOK
<1>3. CASE CommunicatorDidReceive
  BY <1>3, Walks, WalkType DEF CommunicatorDidReceive, TypeOK
<1>4. CASE Timeout
  BY <1>4, Walks, WalkType, KeptAdapters DEF Timeout, TypeOK
<1>5. CASE ExpirationTimerFires
  BY <1>5, DidExpireType, KeptAdapters DEF ExpirationTimerFires, TypeOK
<1>6. CASE GDTSuccessToLoad
  <2>1. adapter' \in Adapters
    BY <1>6 DEF GDTSuccessToLoad, DidStopLoading, TypeOK, Adapters
  <2>2. gdt' \in Ads
    BY <1>6 DEF GDTSuccessToLoad, Ads, ViewStates
  <2> QED BY <1>6, <2>1, <2>2, NothingLeft
          DEF GDTSuccessToLoad, managerVars, TypeOK, Answers
<1>7. CASE GDTFailToLoad
  <2>1. CASE adapter.attached
    BY <1>7, <2>1, Walks, WalkType, KeptAdapters, RecordTypes
       DEF GDTFailToLoad, TypeOK
  <2>2. CASE ~adapter.attached
    BY <1>7, <2>2, KeptAdapters, RecordTypes
       DEF GDTFailToLoad, managerVars, TypeOK
  <2> QED BY <2>1, <2>2
<1>8. CASE GDTRender
  <2>1. gdt' \in Ads
    BY <1>8, RenderMoves, ViewMoved DEF TypeOK, ViewStates
  <2> QED BY <1>8, <2>1 DEF GDTRender, PassOn, managerVars, TypeOK
<1>9. CASE GDTExposure
  <2>1. gdt' \in Ads
    BY <1>9, ExposureMoves, ViewMoved DEF TypeOK, ViewStates
  <2>2. adapter.impressions + 1 \in Nat
    BY DEF TypeOK, Adapters
  <2>3. adapter' \in Adapters
    BY <1>9, <2>2 DEF GDTExposure, TypeOK, Adapters
  <2> QED BY <1>9, <2>1, <2>3 DEF GDTExposure, PassOn, managerVars, TypeOK
<1>10. CASE GDTClicked
  <2>1. adapter.clicks + 1 \in Nat
    BY DEF TypeOK, Adapters
  <2>2. adapter' \in Adapters
    BY <1>10, <2>1 DEF GDTClicked, TypeOK, Adapters
  <2> QED BY <1>10, <2>2 DEF GDTClicked, PassOn, managerVars, TypeOK
<1>11. CASE GDTClosed
  <2>1. gdt' \in Ads
    BY <1>11, ClosedMoves, ViewMoved DEF TypeOK, ViewStates
  <2> QED BY <1>11, <2>1 DEF GDTClosed, Closed, TypeOK
<1>12. CASE GDTInforms \/ UNCHANGED vars
  BY <1>12 DEF GDTInforms, PassOn, managerVars, vars, TypeOK
<1> QED
  BY <1>1, <1>2, <1>3, <1>4, <1>5, <1>6, <1>7, <1>8, <1>9, <1>10, <1>11,
     <1>12 DEF Next, AppCalls, ServerAnswers, GDTCallbacks

LEMMA InitType == Init => TypeOK
BY RecordTypes, NothingLeft
   DEF Init, TypeOK, RefusedAdapter, NewAdapter, Adapters

\* Every variable has its type, and the configuration being fetched is no
\* longer in the manager's list, for waterfalls of every length.
THEOREM FeedTypeCorrect == Spec => []TypeOK
BY InitType, TypeStep, PTL DEF Spec

----------------------------------------------------------------------------
(* The flags of an adapter follow its ad.                                  *)

\* A GDT load whose adapter is listened to has its timer; before the views
\* are there nothing has been seen or can expire; the counters follow the flags, and the
\* first impression ends the expiry timer.
AdInv ==
    /\ gdt.phase = "loading" /\ adapter.attached => adapter.timeoutTimer
    /\ gdt.phase # "loaded" =>
         /\ ~adapter.hasTrackedImpression /\ ~adapter.expirationTimer
         /\ gdt.views = NoViews
    /\ adapter.hasTrackedImpression => ~adapter.expirationTimer
    /\ adapter.impressions <= 1
    /\ ~adapter.hasTrackedImpression => adapter.impressions = 0
    /\ adapter.clicks <= 1
    /\ ~adapter.hasTrackedClick => adapter.clicks = 0

\* The flags that AdInv and OneAnswerDue look at, in two adapters.
SameBill(a, b) ==
    /\ a.hasTrackedImpression = b.hasTrackedImpression
    /\ a.impressions = b.impressions
    /\ a.hasTrackedClick = b.hasTrackedClick
    /\ a.clicks = b.clicks
    /\ a.expirationTimer => b.expirationTimer

LEMMA KeptValues ==
    ASSUME adapter \in Adapters
    PROVE  /\ SameBill(CutOff, adapter)
           /\ ~CutOff.attached /\ ~CutOff.timeoutTimer
           /\ CutOff.hasExpired = adapter.hasExpired
           /\ SameBill(DidStopLoading(adapter), adapter)
           /\ DidStopLoading(adapter).attached = adapter.attached
           /\ ~DidStopLoading(adapter).timeoutTimer
BY DEF CutOff, DidStopLoading, Adapters, SameBill

\* DidExpire marks the adapter as expired and keeps the rest.
LEMMA DidExpireKeeps ==
    ASSUME NEW a \in Adapters, DidExpire(a)
    PROVE  /\ SameBill(adapter', a)
           /\ adapter'.attached = a.attached
           /\ adapter'.timeoutTimer = a.timeoutTimer
           /\ adapter'.hasExpired
BY DEF DidExpire, Adapters, SameBill

LEMMA ExpirySteps ==
    ASSUME TypeOK, HandleAdPlayed \/ ExpirationTimerFires
    PROVE  /\ SameBill(adapter', adapter)
           /\ adapter'.attached = adapter.attached
           /\ adapter'.timeoutTimer = adapter.timeoutTimer
           /\ adapter'.hasExpired
           /\ gdt' = gdt /\ requested' = requested /\ crossed' = crossed
           /\ loading' = loading /\ playedAd' = playedAd
           /\ ready' = IF adapter.attached /\ ~adapter.hasExpired
                       THEN FALSE ELSE ready
<1>1. CASE HandleAdPlayed
  <2>1. adapter \in Adapters /\ DidExpire(adapter)
    BY <1>1 DEF HandleAdPlayed, TypeOK
  <2> QED BY <1>1, <2>1, DidExpireKeeps DEF HandleAdPlayed, DidExpire
<1>2. CASE ExpirationTimerFires
  <2> DEFINE a == [adapter EXCEPT !.expirationTimer = FALSE]
  <2>1. a \in Adapters /\ DidExpire(a)
    BY <1>2, KeptAdapters DEF ExpirationTimerFires, TypeOK
  <2>2. SameBill(a, adapter) /\ a.attached = adapter.attached
        /\ a.timeoutTimer = adapter.timeoutTimer
    BY DEF TypeOK, Adapters, SameBill
  <2>3. SameBill(adapter', a) /\ adapter'.attached = a.attached
        /\ adapter'.timeoutTimer = a.timeoutTimer /\ adapter'.hasExpired
    BY <2>1, DidExpireKeeps
  <2>4. SameBill(adapter', adapter)
    BY <2>2, <2>3 DEF SameBill
  <2> QED BY <1>2, <2>2, <2>3, <2>4 DEF ExpirationTimerFires, DidExpire
<1> QED BY <1>1, <1>2

\* A walk keeps AdInv if what it may keep satisfies it.
LEMMA WalkAdInv ==
    ASSUME AdInv, NEW kept, NEW ad, WalkOutcome(kept, ad),
           SameBill(kept, adapter),
           \/ ad = gdt /\ (~kept.attached
                           \/ (/\ kept.attached = adapter.attached
                               /\ kept.timeoutTimer = adapter.timeoutTimer))
           \/ ad = NoAd /\ gdt.phase = "loading"
    PROVE  AdInv'
<1>1. CASE adapter' = kept /\ gdt' = ad
  BY <1>1, RecordValues DEF AdInv, SameBill
<1>2. CASE \/ adapter' = RefusedAdapter /\ gdt' = NoAd
           \/ adapter' = NewAdapter /\ gdt' = RequestedAd
  BY <1>2, RecordValues DEF AdInv
<1> QED BY <1>1, <1>2 DEF WalkOutcome

\* What GDT's success leaves of the adapter and the ad.
LEMMA SuccessValues ==
    ASSUME TypeOK, GDTSuccessToLoad
    PROVE  /\ adapter'.attached = adapter.attached
           /\ adapter'.timeoutTimer = FALSE
           /\ adapter'.hasTrackedImpression = adapter.hasTrackedImpression
           /\ adapter'.impressions = adapter.impressions
           /\ adapter'.hasTrackedClick = adapter.hasTrackedClick
           /\ adapter'.clicks = adapter.clicks
           /\ adapter'.hasExpired = adapter.hasExpired
           /\ gdt.phase = "loading" /\ gdt'.phase = "loaded"
           /\ \A v \in Views : gdt'.views[v] \in {"rendering", "absent"}
BY DEF GDTSuccessToLoad, DidStopLoading, TypeOK, Adapters

\* An exposure or a click changes the bill and nothing else of the adapter.
LEMMA BillingSteps ==
    ASSUME TypeOK, GDTExposure \/ GDTClicked
    PROVE  /\ adapter'.attached = adapter.attached
           /\ adapter'.timeoutTimer = adapter.timeoutTimer
           /\ adapter'.hasExpired = adapter.hasExpired
BY DEF GDTExposure, GDTClicked, TypeOK, Adapters

\* A view that moves has been loaded before.
LEMMA MovedLoaded ==
    ASSUME TypeOK, AdInv, NEW from, "absent" \notin from,
           NEW to \in ViewStates, ViewMoves(from, to)
    PROVE  gdt.phase = "loaded" /\ gdt'.phase = "loaded"
<1>1. PICK v \in Views : gdt.views[v] \in from
  BY DEF ViewMoves
<1>2. NoViews[v] = "absent"
  BY DEF NoViews
<1>3. gdt.phase = "loaded"
  BY <1>1, <1>2 DEF AdInv
<1> QED BY <1>3, ViewMoved DEF TypeOK

LEMMA AdInvStep == TypeOK /\ AdInv /\ [Next]_vars => AdInv'
<1> SUFFICES ASSUME TypeOK, AdInv, [Next]_vars PROVE AdInv'
  OBVIOUS
<1>1. CASE LoadWhenReady \/ Load \/ CommunicatorDidFail \/ GDTInforms
           \/ UNCHANGED vars
  BY <1>1
     DEF LoadWhenReady, Load, CommunicatorDidFail, GDTInforms, vars, AdInv
<1>2. CASE HandleAdPlayed \/ ExpirationTimerFires
  BY <1>2, ExpirySteps DEF AdInv, SameBill
<1>3. CASE CommunicatorDidReceive
  <2>1. SameBill(adapter, adapter)
    BY DEF SameBill
  <2> QED BY <1>3, <2>1, Walks, WalkAdInv
<1>4. CASE Timeout
  <2>1. SameBill(CutOff, adapter) /\ ~CutOff.attached
    BY KeptValues DEF TypeOK
  <2> QED BY <1>4, <2>1, Walks, WalkAdInv
<1>5. CASE GDTSuccessToLoad
  BY <1>5, SuccessValues DEF AdInv
<1>6. CASE GDTFailToLoad
  <2>1. SameBill(DidStopLoading(adapter), adapter)
    BY KeptValues DEF TypeOK
  <2>2. CASE adapter.attached
    BY <1>6, <2>1, <2>2, Walks, WalkAdInv DEF GDTFailToLoad
  <2>3. CASE ~adapter.attached
    BY <1>6, <2>1, <2>3, RecordValues DEF GDTFailToLoad, AdInv, SameBill
  <2> QED BY <2>2, <2>3
<1>7. CASE GDTRender
  <2>1. gdt.phase = "loaded" /\ gdt'.phase = "loaded"
    BY <1>7, RenderMoves, MovedLoaded DEF ViewStates
  <2> QED BY <1>7, <2>1 DEF GDTRender, AdInv
<1>8. CASE GDTExposure
  <2>1. gdt.phase = "loaded" /\ gdt'.phase = "loaded"
    BY <1>8, ExposureMoves, MovedLoaded DEF ViewStates
  <2>2. CASE adapter.hasTrackedImpression
    BY <1>8, <2>1, <2>2 DEF GDTExposure, AdInv
  <2>3. CASE ~adapter.hasTrackedImpression
    <3>1. adapter.impressions = 0
      BY <2>3 DEF AdInv
    <3>2. /\ adapter'.hasTrackedImpression /\ ~adapter'.expirationTimer
          /\ adapter'.impressions = adapter.impressions + 1
          /\ adapter'.hasTrackedClick = adapter.hasTrackedClick
          /\ adapter'.clicks = adapter.clicks
      BY <1>8, <2>3 DEF GDTExposure, TypeOK, Adapters
    <3> QED BY <2>1, <3>1, <3>2 DEF AdInv
  <2> QED BY <2>2, <2>3
<1>9. CASE GDTClicked
  <2>1. CASE adapter.hasTrackedClick
    BY <1>9, <2>1 DEF GDTClicked, AdInv
  <2>2. CASE ~adapter.hasTrackedClick
    <3>1. adapter.clicks = 0
      BY <2>2 DEF AdInv
    <3>2. /\ adapter'.hasTrackedClick /\ adapter'.clicks = adapter.clicks + 1
          /\ adapter'.hasTrackedImpression = adapter.hasTrackedImpression
          /\ adapter'.impressions = adapter.impressions
          /\ adapter'.expirationTimer = adapter.expirationTimer
      BY <1>9, <2>2 DEF GDTClicked, TypeOK, Adapters
    <3>3. gdt' = gdt
      BY <1>9 DEF GDTClicked
    <3> QED BY <1>9, <3>1, <3>2, <3>3, BillingSteps DEF AdInv
  <2> QED BY <2>1, <2>2
<1>10. CASE GDTClosed
  <2>1. gdt.phase = "loaded" /\ gdt'.phase = "loaded"
    BY <1>10, ClosedMoves, MovedLoaded DEF ViewStates
  <2> QED BY <1>10, <2>1 DEF GDTClosed, AdInv
<1> QED
  BY <1>1, <1>2, <1>3, <1>4, <1>5, <1>6, <1>7, <1>8, <1>9, <1>10
     DEF Next, AppCalls, ServerAnswers, GDTCallbacks

\* What Init gives the adapter.
LEMMA InitValues ==
    ASSUME Init
    PROVE  /\ ~adapter.attached /\ ~adapter.timeoutTimer
           /\ ~adapter.hasTrackedImpression /\ ~adapter.hasTrackedClick
           /\ adapter.impressions = 0 /\ adapter.clicks = 0
           /\ ~adapter.expirationTimer
           /\ gdt = NoAd
BY DEF Init, RefusedAdapter, NewAdapter

LEMMA AlwaysAdInv == Spec => [](TypeOK /\ AdInv)
<1>1. Init => AdInv
  BY InitValues, RecordValues DEF AdInv
<1> QED BY <1>1, InitType, TypeStep, AdInvStep, PTL DEF Spec

\* However many views a load returns and however often they are seen and
\* tapped, one impression and one click are billed, and an ad of which a view
\* has been seen does not expire by itself.
THEOREM FeedBilling == Spec => []BilledOnce
<1>1. AdInv => BilledOnce
  BY DEF AdInv, BilledOnce
<1> QED BY <1>1, AlwaysAdInv, PTL

----------------------------------------------------------------------------
(* One answer is due.                                                      *)

\* A walk of a load that nothing else will end.
LEMMA WalkAnswerDue ==
    ASSUME NEW kept, NEW ad, WalkOutcome(kept, ad), loading,
           ~kept.timeoutTimer, ~requested'
    PROVE  OneAnswerDue'
BY RecordValues DEF WalkOutcome, OneAnswerDue

LEMMA OneAnswerDueStep ==
    TypeOK /\ AdInv /\ OneAnswerDue /\ [Next]_vars => OneAnswerDue'
<1> SUFFICES ASSUME TypeOK, AdInv, OneAnswerDue, [Next]_vars
             PROVE  OneAnswerDue'
  OBVIOUS
<1>1. CASE LoadWhenReady \/ GDTInforms \/ UNCHANGED vars
  BY <1>1
     DEF LoadWhenReady, GDTInforms, PassOn, managerVars, vars, OneAnswerDue
<1>2. CASE Load
  BY <1>2 DEF Load, OneAnswerDue, TypeOK
<1>3. CASE CommunicatorDidFail
  BY <1>3 DEF CommunicatorDidFail, OneAnswerDue
<1>4. CASE HandleAdPlayed \/ ExpirationTimerFires
  <2>1. /\ adapter'.attached = adapter.attached
        /\ adapter'.timeoutTimer = adapter.timeoutTimer
        /\ gdt' = gdt /\ requested' = requested /\ loading' = loading
    BY <1>4, ExpirySteps
  <2> QED BY <2>1 DEF OneAnswerDue
<1>5. CASE CommunicatorDidReceive
  BY <1>5, Walks, WalkAnswerDue DEF CommunicatorDidReceive, OneAnswerDue
<1>6. CASE Timeout
  <2>1. loading /\ ~requested' /\ ~CutOff.timeoutTimer
    BY <1>6, KeptValues DEF Timeout, OneAnswerDue, TypeOK
  <2> QED BY <1>6, <2>1, Walks, WalkAnswerDue
<1>7. CASE GDTSuccessToLoad
  BY <1>7, SuccessValues
     DEF GDTSuccessToLoad, managerVars, OneAnswerDue, AdInv, TypeOK
<1>8. CASE GDTFailToLoad
  <2>1. ~DidStopLoading(adapter).timeoutTimer
    BY KeptValues DEF TypeOK
  <2>2. CASE adapter.attached
    <3>1. loading /\ ~requested'
      BY <1>8, <2>2 DEF GDTFailToLoad, OneAnswerDue, AdInv
    <3> QED BY <1>8, <2>1, <2>2, <3>1, Walks, WalkAnswerDue
  <2>3. CASE ~adapter.attached
    BY <1>8, <2>1, <2>3 DEF GDTFailToLoad, managerVars, OneAnswerDue
  <2> QED BY <2>2, <2>3
<1>9. CASE GDTRender
  <2>1. gdt'.phase = gdt.phase
    BY <1>9, RenderMoves, ViewMoved DEF TypeOK, ViewStates
  <2> QED BY <1>9, <2>1 DEF GDTRender, PassOn, managerVars, OneAnswerDue
<1>10. CASE GDTExposure
  <2>1. gdt'.phase = gdt.phase
    BY <1>10, ExposureMoves, ViewMoved DEF TypeOK, ViewStates
  <2> QED BY <1>10, <2>1, BillingSteps
          DEF GDTExposure, PassOn, managerVars, OneAnswerDue
<1>11. CASE GDTClicked
  BY <1>11, BillingSteps DEF GDTClicked, PassOn, managerVars, OneAnswerDue
<1>12. CASE GDTClosed
  <2>1. gdt'.phase = gdt.phase
    BY <1>12, ClosedMoves, ViewMoved DEF TypeOK, ViewStates
  <2> QED BY <1>12, <2>1 DEF GDTClosed, Closed, OneAnswerDue
<1> QED
  BY <1>1, <1>2, <1>3, <1>4, <1>5, <1>6, <1>7, <1>8, <1>9, <1>10, <1>11,
     <1>12 DEF Next, AppCalls, ServerAnswers, GDTCallbacks

LEMMA AlwaysAnswerDue == Spec => [](TypeOK /\ AdInv /\ OneAnswerDue)
<1>1. Init => OneAnswerDue
  BY InitValues DEF Init, OneAnswerDue
<1> QED BY <1>1, AlwaysAdInv, OneAnswerDueStep, PTL DEF Spec

\* A load is under way exactly while one config request or one load timer of
\* an adapter that is listened to will end it.
THEOREM FeedAnswerDue == Spec => []OneAnswerDue
BY AlwaysAnswerDue, PTL

----------------------------------------------------------------------------
(* Views that are available are fresh, and fresh views are kept.           *)

Fresh == /\ gdt.phase = "loaded" /\ ViewsThatAre("closed") = {}
         /\ adapter.attached /\ ~adapter.hasExpired

\* Until a view is closed during a load: a manager that has an ad is neither
\* loading nor through with it, and the ad is fresh; one that has none has no
\* fresh views that report to it, and a load under way has not expired.
FreshInv ==
    ~crossed =>
      /\ ready => ~loading /\ ~playedAd /\ Fresh
      /\ playedAd => ~loading
      /\ ~ready => ~Fresh
      /\ gdt.phase = "loading" => ~adapter.hasExpired

\* Moving a view that is not closed leaves the closed ones closed.
LEMMA MovedFresh ==
    ASSUME TypeOK, NEW from, "closed" \notin from,
           NEW to \in ViewStates \ {"closed"}, ViewMoves(from, to)
    PROVE  ViewsThatAre("closed")' = ViewsThatAre("closed")
<1>1. PICK v \in Views : /\ gdt.views[v] \in from
                         /\ gdt'.views = [gdt.views EXCEPT ![v] = to]
  BY ViewMoved DEF TypeOK
<1>2. gdt.views \in [Views -> ViewStates]
  BY DEF TypeOK, Ads
<1> QED BY <1>1, <1>2 DEF ViewsThatAre

\* A load that fails or goes on leaves nothing fresh.
LEMMA WalkFresh ==
    ASSUME FreshInv, NEW kept, NEW ad, WalkOutcome(kept, ad), loading,
           crossed' = crossed,
           \/ /\ ad = gdt /\ kept.hasExpired = adapter.hasExpired
              /\ kept = adapter \/ ~kept.attached
           \/ ad = NoAd
    PROVE  FreshInv'
<1>1. CASE adapter' = kept /\ gdt' = ad
  BY <1>1, RecordValues DEF FreshInv, Fresh, WalkOutcome, ViewsThatAre
<1>2. CASE gdt' \in {NoAd, RequestedAd}
  BY <1>2, RecordValues DEF FreshInv, Fresh, WalkOutcome
<1> QED BY <1>1, <1>2 DEF WalkOutcome

LEMMA FreshStep ==
    /\ TypeOK /\ AdInv /\ OneAnswerDue /\ FreshInv /\ [Next]_vars
    => FreshInv'
<1> SUFFICES ASSUME TypeOK, AdInv, OneAnswerDue, FreshInv, [Next]_vars
             PROVE  FreshInv'
  OBVIOUS
<1>1. CASE LoadWhenReady \/ GDTInforms \/ UNCHANGED vars
  BY <1>1
     DEF LoadWhenReady, GDTInforms, PassOn, managerVars, vars, FreshInv,
         Fresh, ViewsThatAre
<1>2. CASE Load
  BY <1>2 DEF Load, FreshInv, Fresh, ViewsThatAre
<1>3. CASE CommunicatorDidFail
  BY <1>3
     DEF CommunicatorDidFail, OneAnswerDue, FreshInv, Fresh, ViewsThatAre
<1>4. CASE HandleAdPlayed \/ ExpirationTimerFires
  <2>1. ~crossed => gdt.phase # "loading"
    BY <1>4 DEF HandleAdPlayed, ExpirationTimerFires, FreshInv, Fresh, AdInv
  <2>2. /\ adapter'.attached = adapter.attached /\ adapter'.hasExpired
        /\ gdt' = gdt /\ crossed' = crossed
        /\ loading' = loading /\ playedAd' = playedAd
    BY <1>4, ExpirySteps
  <2>3. /\ adapter.attached /\ ~adapter.hasExpired => ~ready'
        /\ ~(adapter.attached /\ ~adapter.hasExpired) => ready' = ready
    BY <1>4, ExpirySteps
  <2> QED BY <2>1, <2>2, <2>3 DEF FreshInv, Fresh
<1>5. CASE CommunicatorDidReceive
  BY <1>5, Walks, WalkFresh DEF CommunicatorDidReceive, OneAnswerDue
<1>6. CASE Timeout
  <2>1. ~CutOff.attached /\ loading /\ crossed' = crossed
        /\ CutOff.hasExpired = adapter.hasExpired
    BY <1>6, KeptValues DEF Timeout, OneAnswerDue, TypeOK
  <2> QED BY <1>6, <2>1, Walks, WalkFresh
<1>7. CASE GDTSuccessToLoad
  <2>1. ViewsThatAre("closed")' = {} /\ gdt'.phase = "loaded"
    BY <1>7, SuccessValues DEF ViewsThatAre
  <2>2. CASE adapter.attached
    <3>1. loading
      BY <1>7, <2>2 DEF GDTSuccessToLoad, AdInv, OneAnswerDue
    <3>2. ~crossed => ~playedAd
      BY <3>1 DEF FreshInv
    <3>3. ~crossed => ~adapter.hasExpired
      BY <1>7, SuccessValues DEF FreshInv
    <3> QED BY <1>7, <2>1, <2>2, <3>2, <3>3, SuccessValues
            DEF GDTSuccessToLoad, FreshInv, Fresh
  <2>3. CASE ~adapter.attached
    BY <1>7, <2>3, SuccessValues
       DEF GDTSuccessToLoad, managerVars, FreshInv, Fresh
  <2> QED BY <2>2, <2>3
<1>8. CASE GDTFailToLoad
  <2>1. CASE adapter.attached
    <3>1. loading /\ crossed' = crossed
      BY <1>8, <2>1 DEF GDTFailToLoad, OneAnswerDue, AdInv
    <3> QED BY <1>8, <2>1, <3>1, Walks, WalkFresh
  <2>2. CASE ~adapter.attached
    BY <1>8, <2>2, RecordValues
       DEF GDTFailToLoad, managerVars, FreshInv, Fresh
  <2> QED BY <2>1, <2>2
<1>9. CASE GDTRender
  <2>1. gdt'.phase = gdt.phase
        /\ ViewsThatAre("closed")' = ViewsThatAre("closed")
    BY <1>9, RenderMoves, ViewMoved, MovedFresh DEF TypeOK, ViewStates
  <2> QED BY <1>9, <2>1 DEF GDTRender, PassOn, managerVars, FreshInv, Fresh
<1>10. CASE GDTExposure
  <2>1. gdt'.phase = gdt.phase
        /\ ViewsThatAre("closed")' = ViewsThatAre("closed")
    BY <1>10, ExposureMoves, ViewMoved, MovedFresh DEF TypeOK, ViewStates
  <2> QED BY <1>10, <2>1, BillingSteps
          DEF GDTExposure, PassOn, managerVars, FreshInv, Fresh
<1>11. CASE GDTClicked
  BY <1>11, BillingSteps
     DEF GDTClicked, PassOn, managerVars, FreshInv, Fresh, ViewsThatAre
<1>12. CASE GDTClosed
  <2>1. PICK v \in Views : gdt'.views = [gdt.views EXCEPT ![v] = "closed"]
    BY <1>12, ClosedMoves, ViewMoved DEF TypeOK, ViewStates
  <2>2. v \in ViewsThatAre("closed")'
    BY <2>1 DEF ViewsThatAre, TypeOK, Ads
  <2>3. gdt'.phase = "loaded"
    BY <1>12, ClosedMoves, MovedLoaded DEF ViewStates
  <2> QED BY <1>12, <2>2, <2>3 DEF GDTClosed, Closed, FreshInv, Fresh
<1> QED
  BY <1>1, <1>2, <1>3, <1>4, <1>5, <1>6, <1>7, <1>8, <1>9, <1>10, <1>11,
     <1>12 DEF Next, AppCalls, ServerAnswers, GDTCallbacks

LEMMA AlwaysFreshInv == Spec => [](OneAnswerDue /\ FreshInv)
<1>1. Init => FreshInv
  BY InitValues, RecordValues DEF Init, FreshInv, Fresh
<1> QED BY <1>1, AlwaysAnswerDue, FreshStep, PTL DEF Spec

\* Unless a view is closed during a load, an available ad is loaded, not
\* expired and complete, and its adapter is listened to.
THEOREM AvailableViewsAreFresh == Spec => []AvailableIsFresh
<1>1. FreshInv => AvailableIsFresh
  BY DEF FreshInv, Fresh, AvailableIsFresh, HasAdAvailable
<1> QED BY <1>1, AlwaysFreshInv, PTL

\* Unless a view is closed during a load, the manager goes for another ad only
\* once a view of the last one has been closed or they have expired.
THEOREM FreshViewsStay == Spec => []FreshViewsAreKept
<1>1. FreshInv => FreshViewsAreKept
  BY DEF FreshInv, Fresh, FreshViewsAreKept
<1> QED BY <1>1, AlwaysFreshInv, PTL

----------------------------------------------------------------------------
(* The load protocol.                                                      *)

\* A step that neither loads nor tells an outcome.
LEMMA OtherStep ==
    ASSUME loading' = loading, io' \cap (Answers \cup {"load"}) = {}
    PROVE  Protocol!Next
<1>1. ProtocolIO' = {}
  BY DEF ProtocolIO
<1> QED BY <1>1 DEF Protocol!Next, Protocol!Other

\* A step that tells one outcome and ends the load with it.
LEMMA AnswerStep ==
    ASSUME loading = TRUE, loading' = FALSE, NEW a \in Answers, io' = {a}
    PROVE  Protocol!Next
<1>1. ProtocolIO' = {a}
  BY DEF ProtocolIO, Answers
<1>2. Protocol!Answer
  BY <1>1 DEF Protocol!Answer, Protocol!Answers, Answers
<1> QED BY <1>2 DEF Protocol!Next

\* A walk of the load under way ends it or goes on with it.
LEMMA WalkProtocol ==
    ASSUME NEW kept, NEW ad, WalkOutcome(kept, ad), loading = TRUE
    PROVE  Protocol!Next
<1>1. CASE loading' = FALSE /\ io' = {"didFailToLoad"}
  BY <1>1, AnswerStep DEF Answers
<1>2. CASE loading' = loading /\ io' = {}
  BY <1>2, OtherStep
<1> QED BY <1>1, <1>2 DEF WalkOutcome

\* The callbacks about views and expiries are no part of the protocol.
LEMMA ViewStepsAreOther ==
    ASSUME \/ HandleAdPlayed \/ ExpirationTimerFires \/ GDTRender
           \/ GDTExposure \/ GDTClicked \/ GDTClosed \/ GDTInforms
    PROVE  Protocol!Next
<1>1. CASE HandleAdPlayed \/ ExpirationTimerFires
  <2>1. loading' = loading /\ io' \in {{}, {"didExpire"}}
    BY <1>1 DEF HandleAdPlayed, ExpirationTimerFires, DidExpire
  <2> QED BY <2>1, OtherStep DEF Answers
<1>2. CASE GDTRender \/ GDTExposure \/ GDTClicked \/ GDTInforms
  <2>1. PICK events \in {{}, {"renderSuccess"}, {"exposure"}, {"clicked"},
                         {"inform"}} : PassOn(events)
    BY <1>2 DEF GDTRender, GDTExposure, GDTClicked, GDTInforms
  <2>2. loading' = loading /\ io' \in {events, {}}
    BY <2>1 DEF PassOn, managerVars
  <2> QED BY <2>2, OtherStep DEF Answers
<1>3. CASE GDTClosed
  <2>1. loading' = loading /\ io' = {"closed"}
    BY <1>3 DEF GDTClosed, Closed
  <2> QED BY <2>1, OtherStep DEF Answers
<1> QED BY <1>1, <1>2, <1>3

\* Every step is a step of AdLoadProtocol, or one it does not see.
LEMMA ProtocolStep ==
    TypeOK /\ AdInv /\ OneAnswerDue /\ [Next]_vars
      => [Protocol!Next]_(Protocol!vars)
<1> SUFFICES ASSUME TypeOK, AdInv, OneAnswerDue, [Next]_vars
             PROVE  [Protocol!Next]_(Protocol!vars)
  OBVIOUS
<1>1. CASE LoadWhenReady
  <2>1. loading' = loading /\ io' = {"load"}
    BY <1>1 DEF LoadWhenReady, managerVars
  <2>2. CASE loading
    <3>1. ProtocolIO' = {"load"}
      BY <2>1, <2>2 DEF ProtocolIO
    <3> QED BY <2>1, <2>2, <3>1 DEF Protocol!Next, Protocol!AskAgain
  <2>3. CASE ~loading
    <3>1. ProtocolIO' = {}
      BY <2>1, <2>3 DEF ProtocolIO
    <3> QED BY <2>1, <3>1 DEF Protocol!Next, Protocol!Other
  <2> QED BY <2>2, <2>3
<1>2. CASE Load
  <2>1. loading' = TRUE /\ io' = {"load"} /\ loading \in BOOLEAN
    BY <1>2 DEF Load, TypeOK
  <2>2. ProtocolIO' = {"load"}
    BY <2>1 DEF ProtocolIO
  <2> QED BY <2>1, <2>2 DEF Protocol!Next, Protocol!Ask, Protocol!AskAgain
<1>3. CASE CommunicatorDidReceive
  <2>1. loading = TRUE
    BY <1>3 DEF CommunicatorDidReceive, TypeOK, OneAnswerDue
  <2> QED BY <1>3, <2>1, Walks, WalkProtocol
<1>4. CASE CommunicatorDidFail
  <2>1. loading = TRUE
    BY <1>4 DEF CommunicatorDidFail, TypeOK, OneAnswerDue
  <2> QED BY <1>4, <2>1, AnswerStep DEF CommunicatorDidFail, Answers
<1>5. CASE Timeout
  <2>1. loading = TRUE
    BY <1>5 DEF Timeout, TypeOK, OneAnswerDue
  <2> QED BY <1>5, <2>1, Walks, WalkProtocol
<1>6. CASE GDTSuccessToLoad \/ GDTFailToLoad
  <2>1. gdt.phase = "loading"
    BY <1>6 DEF GDTSuccessToLoad, GDTFailToLoad
  <2>2. CASE adapter.attached
    <3>1. loading = TRUE
      BY <2>1, <2>2 DEF AdInv, OneAnswerDue, TypeOK
    <3>2. CASE GDTSuccessToLoad
      BY <2>2, <3>1, <3>2, AnswerStep DEF GDTSuccessToLoad, Answers
    <3>3. CASE GDTFailToLoad
      BY <2>2, <3>1, <3>3, Walks, WalkProtocol
    <3> QED BY <1>6, <3>2, <3>3
  <2>3. CASE ~adapter.attached
    <3>1. loading' = loading /\ io' = {}
      BY <1>6, <2>3 DEF GDTSuccessToLoad, GDTFailToLoad, managerVars
    <3> QED BY <3>1, OtherStep
  <2> QED BY <2>2, <2>3
<1>7. CASE \/ HandleAdPlayed \/ ExpirationTimerFires \/ GDTRender
           \/ GDTExposure \/ GDTClicked \/ GDTClosed \/ GDTInforms
  BY <1>7, ViewStepsAreOther
<1>8. CASE UNCHANGED vars
  BY <1>8 DEF vars, managerVars, Protocol!vars, ProtocolIO
<1> QED
  BY <1>1, <1>2, <1>3, <1>4, <1>5, <1>6, <1>7, <1>8
     DEF Next, AppCalls, ServerAnswers, GDTCallbacks

\* The feed implements the load protocol for the loads its manager takes on:
\* no outcome is told without one, none is told twice, and telling it ends the
\* load, whatever happens to the views of the loads before.
THEOREM FeedImplementsProtocol == Spec => AnswersAreDue
<1>1. Init => Protocol!Init
  BY DEF Init, Protocol!Init, ProtocolIO
<1> QED
  BY <1>1, AlwaysAnswerDue, ProtocolStep, PTL
     DEF Spec, AnswersAreDue, Protocol!SafeSpec
=============================================================================
