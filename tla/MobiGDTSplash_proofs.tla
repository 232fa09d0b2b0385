------------------------ MODULE MobiGDTSplash_proofs ------------------------
(***************************************************************************)
(* Proofs about MobiGDTSplash for every length of the waterfall and every  *)
(* number of config requests in flight.                                    *)
(***************************************************************************)
EXTENDS MobiGDTSplash, MobiWaterfall_proofs, TLAPS

\* What a walk leaves behind: the load has failed and the app is told, or a
\* new request is out.
WalkOutcome(kept, ad, calls) ==
    /\ playedAd' = playedAd
    /\ remaining' \in Seq(Kinds) /\ Len(remaining') < MaxConfigs
    /\ \/ /\ ready' = ready \/ ready' = FALSE
          /\ loading' = FALSE
          /\ TellFailure(calls)
          /\ \/ adapter' = kept /\ gdt' = ad
             \/ adapter' = RefusedAdapter /\ gdt' = NoAd
       \/ /\ ready' = ready
          /\ loading' = loading
          /\ NoFailure(calls)
          /\ adapter' = NewAdapter /\ gdt' = RequestedAd

\* Walk, whatever list it starts from, has one of the outcomes above.
LEMMA WalkOutcomes ==
    ASSUME NEW cs \in Seq(Kinds), Len(cs) <= MaxConfigs, NEW kept, NEW ad,
           NEW calls, Walk(cs, kept, ad, calls)
    PROVE  WalkOutcome(kept, ad, calls)
<1>1. CASE /\ Exhausted(cs)
           /\ ready' = FALSE
           /\ loading' = FALSE
           /\ remaining' = <<>>
           /\ adapter' = IF cs = <<>> THEN kept ELSE RefusedAdapter
           /\ gdt' = IF cs = <<>> THEN ad ELSE NoAd
           /\ TellFailure(calls)
  <2>1. remaining' \in Seq(Kinds) /\ Len(remaining') < MaxConfigs
    BY <1>1, NothingLeft
  <2> QED BY <1>1, <2>1 DEF Walk, WalkOutcome
<1>2. ASSUME NEW k \in 1..Len(cs),
             remaining' = Rest(cs, k), ready' = ready,
             \/ /\ cs[k] = "stop"
                /\ loading' = FALSE
                /\ adapter' = IF k = 1 THEN kept ELSE RefusedAdapter
                /\ gdt' = IF k = 1 THEN ad ELSE NoAd
                /\ TellFailure(calls)
             \/ /\ cs[k] = "gdt"
                /\ adapter' = NewAdapter
                /\ gdt' = RequestedAd
                /\ NoFailure(calls)
                /\ UNCHANGED loading
      PROVE  WalkOutcome(kept, ad, calls)
  <2>1. remaining' \in Seq(Kinds) /\ Len(remaining') < MaxConfigs
    BY <1>2, RestType, MaxConfigsAssumption
  <2> QED BY <1>2, <2>1 DEF Walk, WalkOutcome
<1> QED BY <1>1, <1>2 DEF Walk

\* A walk over nothing ends the load, whichever it was, and tells the app.
LEMMA EmptyWalk ==
    ASSUME NEW kept, NEW ad, NEW calls, Walk(<<>>, kept, ad, calls)
    PROVE  /\ ready' = FALSE /\ loading' = FALSE /\ remaining' = <<>>
           /\ adapter' = kept /\ gdt' = ad /\ playedAd' = playedAd
           /\ TellFailure(calls)
<1>1. ~ \E k \in 1..Len(<<>>) : TRUE
  OBVIOUS
<1> QED BY <1>1 DEF Walk

\* The adapter that timeout leaves if the waterfall is exhausted.
CutOff == [adapter EXCEPT !.timeoutTimer = FALSE, !.attached = FALSE]

\* What splashAdFailToPresentForCustomEvent: does to a silenced adapter.
Unheard(calls) ==
    /\ adapter' = DidStopLoading(adapter)
    /\ gdt' = NoAd
    /\ NoFailure(calls)
    /\ UNCHANGED managerVars

\* The steps that walk, with what they keep.
LEMMA Walks ==
    ASSUME TypeOK
    PROVE  /\ CommunicatorDidReceive => WalkOutcome(adapter, gdt, {})
           /\ Timeout => WalkOutcome(CutOff, gdt, {})
           /\ \A calls \in SUBSET {"load"} :
                FailToPresent(calls) =>
                  \/ /\ adapter.attached
                     /\ WalkOutcome(DidStopLoading(adapter), NoAd, calls)
                  \/ ~adapter.attached /\ Unheard(calls)
<1>1. ASSUME CommunicatorDidReceive PROVE WalkOutcome(adapter, gdt, {})
  <2>1. PICK cs \in Configs : Walk(cs, adapter, gdt, {})
    BY <1>1 DEF CommunicatorDidReceive
  <2> QED BY <2>1, ConfigsType, WalkOutcomes
<1>2. remaining \in Seq(Kinds) /\ Len(remaining) <= MaxConfigs
  BY MaxConfigsAssumption DEF TypeOK
<1>3. ASSUME Timeout PROVE WalkOutcome(CutOff, gdt, {})
  BY <1>2, <1>3, WalkOutcomes DEF Timeout, CutOff
<1>4. ASSUME NEW calls \in SUBSET {"load"}, FailToPresent(calls)
      PROVE  \/ /\ adapter.attached
                /\ WalkOutcome(DidStopLoading(adapter), NoAd, calls)
             \/ ~adapter.attached /\ Unheard(calls)
  BY <1>2, <1>4, WalkOutcomes DEF FailToPresent, Unheard
<1> QED BY <1>1, <1>3, <1>4

----------------------------------------------------------------------------
(* Types.                                                                  *)

\* The records a load starts from.
LEMMA RecordTypes ==
    /\ NewAdapter \in Adapters /\ RefusedAdapter \in Adapters
    /\ NoAd \in Ads /\ RequestedAd \in Ads
BY DEF NewAdapter, RefusedAdapter, Adapters, NoAd, RequestedAd, Ads, Phases

\* The ads that GDT's answer to a request leaves.
LEMMA AdTypes ==
    /\ [phase |-> "presented", adValid |-> FALSE] \in Ads
    /\ \A valid \in BOOLEAN : [phase |-> "loaded", adValid |-> valid] \in Ads
BY DEF Ads, Phases

\* What those records say.
LEMMA RecordValues ==
    /\ NewAdapter.attached /\ NewAdapter.timeoutTimer
    /\ RefusedAdapter.attached /\ ~RefusedAdapter.timeoutTimer
    /\ \A a \in {NewAdapter, RefusedAdapter} :
         /\ ~a.hasExpired /\ ~a.expirationTimer
         /\ ~a.hasTrackedImpression /\ a.impressions = 0
         /\ ~a.hasTrackedClick /\ a.clicks = 0
    /\ NoAd.phase = "none" /\ ~NoAd.adValid
    /\ RequestedAd.phase = "loading" /\ ~RequestedAd.adValid
BY DEF NewAdapter, RefusedAdapter, NoAd, RequestedAd

\* The adapters that handlers leave.
LEMMA KeptAdapters ==
    ASSUME adapter \in Adapters
    PROVE  /\ CutOff \in Adapters
           /\ DidStopLoading(adapter) \in Adapters
           /\ [adapter EXCEPT !.expirationTimer = FALSE] \in Adapters
BY DEF CutOff, DidStopLoading, Adapters

\* Calls and callbacks at the app's interface.
LEMMA TellingTypes ==
    ASSUME TypeOK, NEW calls \in SUBSET {"load", "showAd"},
           TellFailure(calls) \/ NoFailure(calls)
    PROVE  /\ launchImage' \in BOOLEAN /\ removal' \in BOOLEAN
           /\ io' \subseteq {
                "load", "stop", "showAd", "failToPresent", "successPresent",
                "clicked", "willClosed", "closed", "didExpire", "inform"}
BY DEF TypeOK, TellFailure, NoFailure

LEMMA WalkType ==
    ASSUME TypeOK, NEW kept \in Adapters, NEW ad \in Ads,
           NEW calls \in SUBSET {"load"}, WalkOutcome(kept, ad, calls),
           requests' \in 0..MaxRequests, stopped' \in BOOLEAN,
           overlapped' \in BOOLEAN
    PROVE  TypeOK'
<1>1. TellFailure(calls) \/ NoFailure(calls)
  BY DEF WalkOutcome
<1>2. adapter' \in Adapters /\ gdt' \in Ads
  BY RecordTypes DEF WalkOutcome
<1>3. ready' \in BOOLEAN /\ loading' \in BOOLEAN /\ playedAd' \in BOOLEAN
  BY DEF WalkOutcome, TypeOK
<1> QED BY <1>1, <1>2, <1>3, TellingTypes DEF TypeOK, WalkOutcome

LEMMA FailToPresentType ==
    ASSUME TypeOK, NEW calls \in SUBSET {"load"}, FailToPresent(calls),
           requests' \in 0..MaxRequests, stopped' \in BOOLEAN,
           overlapped' \in BOOLEAN
    PROVE  TypeOK'
<1>1. DidStopLoading(adapter) \in Adapters /\ NoAd \in Ads
  BY KeptAdapters, RecordTypes DEF TypeOK
<1>2. CASE WalkOutcome(DidStopLoading(adapter), NoAd, calls)
  BY <1>1, <1>2, WalkType
<1>3. CASE Unheard(calls)
  <2>1. NoFailure(calls)
    BY <1>3 DEF Unheard
  <2> QED BY <1>1, <1>3, <2>1, TellingTypes DEF Unheard, managerVars, TypeOK
<1> QED BY <1>2, <1>3, Walks

LEMMA DidExpireType ==
    ASSUME TypeOK, NEW a \in Adapters, DidExpire(a), gdt' = gdt,
           requests' = requests, UNCHANGED historyVars
    PROVE  TypeOK'
<1>1. adapter' \in Adapters
  BY DEF DidExpire, Adapters
<1> QED BY <1>1 DEF TypeOK, DidExpire, screenVars, historyVars

LEMMA PassOnType ==
    ASSUME TypeOK,
           NEW events \in SUBSET {"successPresent", "clicked", "willClosed",
                                  "inform"},
           PassOn(events), adapter' \in Adapters, gdt' \in Ads,
           requests' = requests, UNCHANGED historyVars
    PROVE  TypeOK'
BY DEF PassOn, TypeOK, managerVars, screenVars, historyVars

LEMMA TypeStep == TypeOK /\ [Next]_vars => TypeOK'
<1> SUFFICES ASSUME TypeOK, [Next]_vars PROVE TypeOK'
  OBVIOUS
<1>1. CASE LoadWhenReady
  <2>1. requests' \in 0..MaxRequests /\ stopped' \in BOOLEAN
        /\ overlapped' \in BOOLEAN
    BY <1>1 DEF LoadWhenReady, TypeOK
  <2>2. CASE FailToPresent({"load"})
    BY <2>1, <2>2, FailToPresentType
  <2>3. CASE \/ NoFailure({"load"}) /\ UNCHANGED <<managerVars, adapter, gdt>>
             \/ /\ gdt' = [phase |-> "presented", adValid |-> FALSE]
                /\ NoFailure({"load", "showAd"})
                /\ UNCHANGED <<managerVars, adapter>>
    <3>1. gdt' \in Ads
      BY <2>3, AdTypes DEF TypeOK
    <3>2. NoFailure({"load"}) \/ NoFailure({"load", "showAd"})
      BY <2>3
    <3> QED BY <2>1, <2>3, <3>1, <3>2, TellingTypes DEF TypeOK, managerVars
  <2> QED BY <1>1, <2>2, <2>3 DEF LoadWhenReady
<1>2. CASE Load
  <2>1. requests' \in 0..MaxRequests
    BY <1>2, MaxRequestsAssumption DEF Load, TypeOK
  <2> QED BY <1>2, <2>1, TellingTypes DEF Load, TypeOK
<1>3. CASE Stop
  BY <1>3 DEF Stop, TypeOK, screenVars
<1>4. CASE HandleAdPlayed
  BY <1>4, DidExpireType DEF HandleAdPlayed, TypeOK
<1>5. CASE CommunicatorDidReceive
  <2>1. requests' \in 0..MaxRequests
    BY <1>5, MaxRequestsAssumption DEF CommunicatorDidReceive, TypeOK
  <2> QED BY <1>5, <2>1, Walks, WalkType
          DEF CommunicatorDidReceive, TypeOK, historyVars
<1>6. CASE CommunicatorDidFail
  <2>1. requests' \in 0..MaxRequests
    BY <1>6, MaxRequestsAssumption DEF CommunicatorDidFail, TypeOK
  <2> QED BY <1>6, <2>1, TellingTypes
          DEF CommunicatorDidFail, TypeOK, historyVars
<1>7. CASE Timeout
  BY <1>7, Walks, WalkType, KeptAdapters DEF Timeout, TypeOK, historyVars
<1>8. CASE ExpirationTimerFires
  BY <1>8, DidExpireType, KeptAdapters DEF ExpirationTimerFires, TypeOK
<1>9. CASE RemoveLaunchImages
  BY <1>9 DEF RemoveLaunchImages, managerVars, historyVars, TypeOK
<1>10. CASE GDTDidLoad
  <2>1. adapter' \in Adapters
    BY <1>10 DEF GDTDidLoad, DidStopLoading, TypeOK, Adapters
  <2>2. gdt' \in Ads
    BY <1>10, RecordTypes, AdTypes DEF GDTDidLoad, managerVars
  <2>3. TellFailure({}) \/ NoFailure({}) \/ NoFailure({"showAd"})
    BY <1>10 DEF GDTDidLoad
  <2>4. remaining' \in Seq(Kinds) /\ Len(remaining') < MaxConfigs
    BY <1>10, NothingLeft DEF GDTDidLoad, managerVars, TypeOK
  <2>5. ready' \in BOOLEAN /\ loading' \in BOOLEAN /\ playedAd' \in BOOLEAN
    BY <1>10 DEF GDTDidLoad, managerVars, TypeOK
  <2> QED BY <1>10, <2>1, <2>2, <2>3, <2>4, <2>5, TellingTypes
          DEF GDTDidLoad, historyVars, TypeOK
<1>11. CASE GDTFailToPresent
  BY <1>11, FailToPresentType DEF GDTFailToPresent, TypeOK, historyVars
<1>12. CASE GDTDidLoadAgain \/ GDTInforms
  BY <1>12, PassOnType DEF GDTDidLoadAgain, GDTInforms, TypeOK
<1>13. CASE GDTSuccessPresent \/ GDTWillClosed
  <2>1. gdt' \in Ads
    BY <1>13 DEF GDTSuccessPresent, GDTWillClosed, TypeOK, Ads, Phases
  <2> QED BY <1>13, <2>1, PassOnType
          DEF GDTSuccessPresent, GDTWillClosed, TypeOK
<1>14. CASE GDTExposured
  <2>1. gdt' \in Ads
    BY <1>14 DEF GDTExposured, TypeOK, Ads, Phases
  <2>2. adapter.impressions + 1 \in Nat
    BY DEF TypeOK, Adapters
  <2>3. adapter' \in Adapters
    BY <1>14, <2>2 DEF GDTExposured, TypeOK, Adapters
  <2> QED BY <1>14, <2>1, <2>3, PassOnType DEF GDTExposured
<1>15. CASE GDTClicked
  <2>1. adapter.clicks + 1 \in Nat
    BY DEF TypeOK, Adapters
  <2>2. adapter' \in Adapters
    BY <1>15, <2>1 DEF GDTClicked, TypeOK, Adapters
  <2> QED BY <1>15, <2>2, PassOnType DEF GDTClicked, TypeOK
<1>16. CASE GDTClosed
  <2>1. gdt' \in Ads
    BY <1>16 DEF GDTClosed, TypeOK, Ads, Phases
  <2> QED BY <1>16, <2>1 DEF GDTClosed, TypeOK, screenVars, historyVars
<1>17. CASE UNCHANGED vars
  BY <1>17 DEF vars, managerVars, screenVars, historyVars, TypeOK
<1> QED
  BY <1>1, <1>2, <1>3, <1>4, <1>5, <1>6, <1>7, <1>8, <1>9, <1>10, <1>11,
     <1>12, <1>13, <1>14, <1>15, <1>16, <1>17
     DEF Next, AppCalls, ServerAnswers, GDTCallbacks

LEMMA InitType == Init => TypeOK
<1> SUFFICES ASSUME Init PROVE TypeOK
  OBVIOUS
<1>1. adapter \in Adapters
  BY RecordTypes DEF Init, Adapters
<1>2. requests \in 0..MaxRequests
  BY MaxRequestsAssumption DEF Init
<1>3. remaining \in Seq(Kinds) /\ Len(remaining) < MaxConfigs
  BY NothingLeft DEF Init
<1> QED BY <1>1, <1>2, <1>3, RecordTypes DEF Init, TypeOK

\* Every variable has its type, the configuration being fetched is no longer
\* in the manager's list, and the requests in flight stay within their bound.
THEOREM SplashTypeCorrect == Spec => []TypeOK
BY InitType, TypeStep, PTL DEF Spec

----------------------------------------------------------------------------
(* Billing.                                                                *)

\* Facts about the adapter and its ad that hold whatever the app does: the
\* load timer runs exactly while a request of an adapter that is listened to
\* is out; only an ad that has been loaded and not presented is valid; an ad
\* that is being requested has not been seen and cannot expire; the counters
\* follow the flags.
AdInv ==
    /\ adapter.timeoutTimer <=> (adapter.attached /\ gdt.phase = "loading")
    /\ gdt.adValid => gdt.phase = "loaded"
    /\ gdt.phase = "loading" =>
         ~adapter.hasTrackedImpression /\ ~adapter.expirationTimer
    /\ adapter.hasTrackedImpression => ~adapter.expirationTimer
    /\ adapter.impressions <= 1 /\ adapter.clicks <= 1
    /\ ~adapter.hasTrackedImpression => adapter.impressions = 0
    /\ ~adapter.hasTrackedClick => adapter.clicks = 0

\* Two states of an adapter with the same bill and the same expiry.
SameBill(a, b) ==
    /\ a.hasTrackedImpression = b.hasTrackedImpression
    /\ a.hasTrackedClick = b.hasTrackedClick
    /\ a.impressions = b.impressions
    /\ a.clicks = b.clicks
    /\ a.expirationTimer => b.expirationTimer

\* What the handlers of a failed load leave of the adapter.
LEMMA KeptValues ==
    ASSUME adapter \in Adapters
    PROVE  /\ SameBill(CutOff, adapter)
           /\ ~CutOff.attached /\ ~CutOff.timeoutTimer
           /\ CutOff.hasExpired = adapter.hasExpired
           /\ SameBill(DidStopLoading(adapter), adapter)
           /\ DidStopLoading(adapter).attached = adapter.attached
           /\ ~DidStopLoading(adapter).timeoutTimer
           /\ DidStopLoading(adapter).hasExpired = adapter.hasExpired
BY DEF CutOff, DidStopLoading, SameBill, Adapters

\* An expiry leaves the bill alone.
LEMMA DidExpireKeeps ==
    ASSUME NEW a \in Adapters, DidExpire(a)
    PROVE  /\ SameBill(adapter', a) /\ adapter'.attached = a.attached
           /\ adapter'.timeoutTimer = a.timeoutTimer /\ adapter'.hasExpired
BY DEF DidExpire, SameBill, Adapters

\* Both ways in which an ad expires, and when they take ready back.
LEMMA ExpirySteps ==
    ASSUME TypeOK, HandleAdPlayed \/ ExpirationTimerFires
    PROVE  /\ SameBill(adapter', adapter)
           /\ adapter'.attached = adapter.attached
           /\ adapter'.timeoutTimer = adapter.timeoutTimer
           /\ adapter'.hasExpired
           /\ gdt' = gdt /\ requests' = requests /\ remaining' = remaining
           /\ loading' = loading /\ playedAd' = playedAd
           /\ overlapped' = overlapped
           /\ adapter.attached /\ ~adapter.hasExpired => ~ready'
           /\ ~(adapter.attached /\ ~adapter.hasExpired) => ready' = ready
<1>1. CASE HandleAdPlayed
  BY <1>1, DidExpireKeeps DEF HandleAdPlayed, DidExpire, historyVars, TypeOK
<1>2. CASE ExpirationTimerFires
  <2> DEFINE a == [adapter EXCEPT !.expirationTimer = FALSE]
  <2>1. a \in Adapters /\ DidExpire(a)
    BY <1>2, KeptAdapters DEF ExpirationTimerFires, TypeOK
  <2>2. SameBill(a, adapter) /\ a.attached = adapter.attached
        /\ a.timeoutTimer = adapter.timeoutTimer
    BY DEF TypeOK, Adapters, SameBill
  <2>3. SameBill(adapter', a) /\ adapter'.attached = a.attached
        /\ adapter'.timeoutTimer = a.timeoutTimer /\ adapter'.hasExpired
    BY <2>1, DidExpireKeeps
  <2>4. SameBill(adapter', adapter)
    BY <2>2, <2>3 DEF SameBill
  <2> HIDE DEF a
  <2> QED BY <1>2, <2>1, <2>2, <2>3, <2>4
          DEF ExpirationTimerFires, DidExpire, historyVars
<1> QED BY <1>1, <1>2

\* What the arrival of an ad leaves of the adapter and of the ad.
LEMMA LoadedValues ==
    ASSUME TypeOK, GDTDidLoad
    PROVE  /\ adapter'.attached = adapter.attached
           /\ adapter'.timeoutTimer = FALSE
           /\ adapter'.hasTrackedImpression = adapter.hasTrackedImpression
           /\ adapter'.impressions = adapter.impressions
           /\ adapter'.hasTrackedClick = adapter.hasTrackedClick
           /\ adapter'.clicks = adapter.clicks
           /\ adapter'.hasExpired = adapter.hasExpired
           /\ gdt.phase = "loading"
           /\ \/ gdt'.phase = "loaded"
              \/ gdt'.phase \in {"presented", "none"} /\ ~gdt'.adValid
<1>1. gdt.phase = "loading"
  BY DEF GDTDidLoad
<1>2. \/ \E valid \in BOOLEAN : gdt' = [phase |-> "loaded", adValid |-> valid]
      \/ gdt' = [phase |-> "presented", adValid |-> FALSE]
      \/ gdt' = NoAd
  BY DEF GDTDidLoad
<1>3. \/ gdt'.phase = "loaded"
      \/ gdt'.phase \in {"presented", "none"} /\ ~gdt'.adValid
  BY <1>2, RecordValues
<1> QED BY <1>1, <1>3 DEF GDTDidLoad, DidStopLoading, TypeOK, Adapters

\* The callbacks with which an ad on screen moves on.
LEMMA ScreenMoves ==
    ASSUME TypeOK
    PROVE  /\ GDTSuccessPresent =>
                gdt.phase = "presented" /\ gdt'.phase = "visible"
           /\ GDTExposured =>
                gdt.phase \in {"visible", "exposed"} /\ gdt'.phase = "exposed"
           /\ GDTWillClosed =>
                gdt.phase \in {"visible", "exposed"} /\ gdt'.phase = "closing"
           /\ GDTClosed => gdt.phase = "closing" /\ gdt'.phase = "closed"
           /\ (GDTSuccessPresent \/ GDTExposured \/ GDTWillClosed \/ GDTClosed)
                => gdt'.adValid = gdt.adValid
BY DEF GDTSuccessPresent, GDTExposured, GDTWillClosed, GDTClosed, TypeOK, Ads

\* An exposure or a click changes the bill and nothing else of the adapter.
LEMMA BillingSteps ==
    ASSUME TypeOK, GDTExposured \/ GDTClicked
    PROVE  /\ adapter'.attached = adapter.attached
           /\ adapter'.timeoutTimer = adapter.timeoutTimer
           /\ adapter'.hasExpired = adapter.hasExpired
BY DEF GDTExposured, GDTClicked, TypeOK, Adapters

\* A walk keeps AdInv if what it may keep satisfies it.
LEMMA WalkAdInv ==
    ASSUME AdInv, NEW kept, NEW ad, NEW calls, WalkOutcome(kept, ad, calls),
           SameBill(kept, adapter),
           \/ ad = gdt /\ kept = adapter
           \/ ad = gdt /\ ~kept.attached /\ ~kept.timeoutTimer
           \/ ad = NoAd /\ ~kept.timeoutTimer
    PROVE  AdInv'
<1>1. CASE adapter' = kept /\ gdt' = ad
  BY <1>1, RecordValues DEF AdInv, SameBill
<1>2. CASE \/ adapter' = RefusedAdapter /\ gdt' = NoAd
           \/ adapter' = NewAdapter /\ gdt' = RequestedAd
  BY <1>2, RecordValues DEF AdInv
<1> QED BY <1>1, <1>2 DEF WalkOutcome

LEMMA FailToPresentAdInv ==
    ASSUME TypeOK, AdInv, NEW calls \in SUBSET {"load"}, FailToPresent(calls)
    PROVE  AdInv'
<1>1. /\ SameBill(DidStopLoading(adapter), adapter)
      /\ ~DidStopLoading(adapter).timeoutTimer
  BY KeptValues DEF TypeOK
<1>2. CASE WalkOutcome(DidStopLoading(adapter), NoAd, calls)
  BY <1>1, <1>2, WalkAdInv
<1>3. CASE Unheard(calls)
  BY <1>1, <1>3, RecordValues DEF Unheard, AdInv, SameBill
<1> QED BY <1>2, <1>3, Walks

LEMMA AdInvStep == TypeOK /\ AdInv /\ [Next]_vars => AdInv'
<1> SUFFICES ASSUME TypeOK, AdInv, [Next]_vars PROVE AdInv'
  OBVIOUS
<1>1. CASE Load \/ Stop \/ CommunicatorDidFail \/ RemoveLaunchImages
           \/ GDTDidLoadAgain \/ GDTInforms \/ UNCHANGED vars
  BY <1>1
     DEF Load, Stop, CommunicatorDidFail, RemoveLaunchImages, GDTDidLoadAgain,
         GDTInforms, vars, AdInv
<1>2. CASE LoadWhenReady
  <2>1. CASE gdt' = gdt /\ adapter' = adapter
    BY <2>1 DEF AdInv
  <2>2. CASE gdt.adValid /\ adapter' = adapter
             /\ gdt' = [phase |-> "presented", adValid |-> FALSE]
    <3>1. gdt.phase = "loaded"
      BY <2>2 DEF AdInv
    <3>2. gdt'.phase = "presented" /\ ~gdt'.adValid
      BY <2>2
    <3> QED BY <2>2, <3>1, <3>2 DEF AdInv
  <2>3. CASE FailToPresent({"load"})
    BY <2>3, FailToPresentAdInv
  <2> QED BY <1>2, <2>1, <2>2, <2>3 DEF LoadWhenReady
<1>3. CASE HandleAdPlayed \/ ExpirationTimerFires
  BY <1>3, ExpirySteps DEF AdInv, SameBill
<1>4. CASE CommunicatorDidReceive
  <2>1. SameBill(adapter, adapter)
    BY DEF SameBill
  <2> QED BY <1>4, <2>1, Walks, WalkAdInv
<1>5. CASE Timeout
  <2>1. SameBill(CutOff, adapter) /\ ~CutOff.attached /\ ~CutOff.timeoutTimer
    BY KeptValues DEF TypeOK
  <2> QED BY <1>5, <2>1, Walks, WalkAdInv
<1>6. CASE GDTDidLoad
  BY <1>6, LoadedValues DEF AdInv
<1>7. CASE GDTFailToPresent
  BY <1>7, FailToPresentAdInv DEF GDTFailToPresent
<1>8. CASE GDTSuccessPresent \/ GDTWillClosed \/ GDTClosed
  <2>1. adapter' = adapter
    BY <1>8 DEF GDTSuccessPresent, GDTWillClosed, GDTClosed
  <2>2. /\ gdt'.adValid = gdt.adValid
        /\ gdt.phase \notin {"loading", "loaded"}
        /\ gdt'.phase \notin {"loading", "loaded"}
    BY <1>8, ScreenMoves
  <2> QED BY <2>1, <2>2 DEF AdInv
<1>9. CASE GDTExposured
  <2>1. /\ gdt'.adValid = gdt.adValid
        /\ gdt.phase \notin {"loading", "loaded"}
        /\ gdt'.phase \notin {"loading", "loaded"}
    BY <1>9, ScreenMoves
  <2>2. CASE adapter.hasTrackedImpression
    BY <1>9, <2>1, <2>2 DEF GDTExposured, AdInv
  <2>3. CASE ~adapter.hasTrackedImpression
    <3>1. adapter.impressions = 0
      BY <2>3 DEF AdInv
    <3>2. /\ adapter'.hasTrackedImpression /\ ~adapter'.expirationTimer
          /\ adapter'.impressions = adapter.impressions + 1
          /\ adapter'.hasTrackedClick = adapter.hasTrackedClick
          /\ adapter'.clicks = adapter.clicks
      BY <1>9, <2>3 DEF GDTExposured, TypeOK, Adapters
    <3> QED BY <1>9, <2>1, <3>1, <3>2, BillingSteps DEF AdInv
  <2> QED BY <2>2, <2>3
<1>10. CASE GDTClicked
  <2>1. CASE adapter.hasTrackedClick
    BY <1>10, <2>1 DEF GDTClicked, AdInv
  <2>2. CASE ~adapter.hasTrackedClick
    <3>1. adapter.clicks = 0
      BY <2>2 DEF AdInv
    <3>2. /\ adapter'.hasTrackedClick /\ adapter'.clicks = adapter.clicks + 1
          /\ adapter'.hasTrackedImpression = adapter.hasTrackedImpression
          /\ adapter'.impressions = adapter.impressions
          /\ adapter'.expirationTimer = adapter.expirationTimer
      BY <1>10, <2>2 DEF GDTClicked, TypeOK, Adapters
    <3>3. gdt' = gdt
      BY <1>10 DEF GDTClicked
    <3> QED BY <1>10, <3>1, <3>2, <3>3, BillingSteps DEF AdInv
  <2> QED BY <2>1, <2>2
<1> QED
  BY <1>1, <1>2, <1>3, <1>4, <1>5, <1>6, <1>7, <1>8, <1>9, <1>10
     DEF Next, AppCalls, ServerAnswers, GDTCallbacks

\* What Init gives the adapter.
LEMMA InitValues ==
    ASSUME Init
    PROVE  /\ ~adapter.attached /\ ~adapter.timeoutTimer
           /\ ~adapter.hasTrackedImpression /\ ~adapter.hasTrackedClick
           /\ adapter.impressions = 0 /\ adapter.clicks = 0
           /\ ~adapter.expirationTimer
           /\ gdt = NoAd
BY DEF Init, RefusedAdapter, NewAdapter

LEMMA AlwaysAdInv == Spec => [](TypeOK /\ AdInv)
<1>1. Init => AdInv
  BY InitValues, RecordValues DEF AdInv
<1> QED BY <1>1, InitType, TypeStep, AdInvStep, PTL DEF Spec

\* However often GDT reports an ad as exposed or clicked, and whatever expires
\* meanwhile, one impression and one click are billed, and an ad that has been
\* seen does not expire by itself.
THEOREM SplashBilling == Spec => []BilledOnce
<1>1. AdInv => BilledOnce
  BY DEF AdInv, BilledOnce
<1> QED BY <1>1, AlwaysAdInv, PTL

----------------------------------------------------------------------------
(* One answer is due, and a ready ad is on screen.                         *)

\* An app that does not load over an ad on screen: one thing will end a load;
\* an ad on screen leaves nothing to load or to try; what is ready is on
\* screen, unplayed, and has not expired; neither has a request under way.
Serial ==
    /\ requests <= 1
    /\ loading <=> (requests = 1 \/ adapter.timeoutTimer)
    /\ ~(requests = 1 /\ adapter.timeoutTimer)
    /\ loading => ~ready /\ ~playedAd
    /\ OnScreen => ~loading /\ adapter.attached /\ remaining = <<>>
    /\ ready => OnScreen /\ ~playedAd /\ ~adapter.hasExpired
    /\ gdt.phase = "loading" => ~adapter.hasExpired

SerialInv == ~overlapped => Serial

\* A walk of a load that nothing else will end.
LEMMA WalkSerial ==
    ASSUME Serial, NEW kept, NEW ad, NEW calls, WalkOutcome(kept, ad, calls),
           loading, ~kept.timeoutTimer, kept.hasExpired = adapter.hasExpired,
           ad \in {gdt, NoAd}, requests' = 0
    PROVE  Serial'
<1>1. ~OnScreen /\ ~ready /\ ~playedAd
  BY DEF Serial
<1>2. ready' = ready \/ ready' = FALSE
  BY DEF WalkOutcome
<1>3. CASE adapter' = kept /\ gdt' = ad /\ loading' = FALSE
  <2>1. ~OnScreen' /\ (gdt'.phase = "loading" => ~adapter'.hasExpired)
    BY <1>1, <1>3, RecordValues DEF Serial, OnScreen, OnScreenPhases
  <2>2. ~loading' /\ ~adapter'.timeoutTimer /\ ~ready'
    BY <1>1, <1>2, <1>3
  <2> QED BY <2>1, <2>2 DEF Serial
<1>4. CASE adapter' = RefusedAdapter /\ gdt' = NoAd /\ loading' = FALSE
  <2>1. ~OnScreen'
    BY <1>4, RecordValues DEF OnScreen, OnScreenPhases
  <2>2. ~loading' /\ ~adapter'.timeoutTimer /\ ~ready'
        /\ ~adapter'.hasExpired
    BY <1>1, <1>2, <1>4, RecordValues
  <2> QED BY <2>1, <2>2 DEF Serial
<1>5. CASE adapter' = NewAdapter /\ gdt' = RequestedAd /\ loading' = loading
           /\ ready' = ready
  <2>1. ~OnScreen'
    BY <1>5, RecordValues DEF OnScreen, OnScreenPhases
  <2> QED BY <1>1, <1>5, <2>1, RecordValues DEF Serial, WalkOutcome
<1> QED BY <1>3, <1>4, <1>5 DEF WalkOutcome

\* Loads over an ad on screen are never forgotten.
LEMMA OverlapStays ==
    ASSUME [Next]_vars, ~overlapped' PROVE ~overlapped
BY DEF Next, AppCalls, ServerAnswers, GDTCallbacks, LoadWhenReady, Load, Stop,
       HandleAdPlayed, CommunicatorDidReceive, CommunicatorDidFail, Timeout,
       ExpirationTimerFires, RemoveLaunchImages, GDTDidLoad, GDTDidLoadAgain,
       GDTFailToPresent, GDTSuccessPresent, GDTExposured, GDTClicked,
       GDTWillClosed, GDTClosed, GDTInforms, historyVars, vars

\* A failure of the request or of the presentation.
LEMMA FailToPresentSerial ==
    ASSUME TypeOK, AdInv, Serial, GDTFailToPresent
    PROVE  Serial'
<1>1. /\ gdt.phase \in {"loading", "presented"} /\ FailToPresent({})
      /\ requests' = requests
  BY DEF GDTFailToPresent
<1>2. /\ ~DidStopLoading(adapter).timeoutTimer
      /\ DidStopLoading(adapter).hasExpired = adapter.hasExpired
  BY KeptValues DEF TypeOK
<1>3. CASE adapter.attached /\ gdt.phase = "loading"
  <2>1. loading /\ requests' = 0
    BY <1>1, <1>3 DEF AdInv, Serial, TypeOK
  <2> QED BY <1>1, <1>2, <1>3, <2>1, Walks, WalkSerial
<1>4. CASE adapter.attached /\ gdt.phase = "presented"
  <2>1. OnScreen
    BY <1>4 DEF OnScreen, OnScreenPhases
  <2>2. ~loading /\ remaining = <<>> /\ requests # 1
    BY <2>1 DEF Serial
  <2>3. Walk(<<>>, DidStopLoading(adapter), NoAd, {})
    BY <1>1, <1>4, <2>2 DEF FailToPresent
  <2>4. /\ ready' = FALSE /\ loading' = FALSE
        /\ adapter' = DidStopLoading(adapter) /\ gdt' = NoAd
    BY <2>3, EmptyWalk
  <2>5. ~OnScreen' /\ gdt'.phase # "loading"
    BY <2>4, RecordValues DEF OnScreen, OnScreenPhases
  <2> QED BY <1>1, <1>2, <2>2, <2>4, <2>5 DEF Serial
<1>5. CASE ~adapter.attached
  <2>1. ~OnScreen
    BY <1>5 DEF Serial
  <2>2. Unheard({})
    BY <1>1, <1>5, Walks
  <2>3. ~OnScreen' /\ gdt'.phase # "loading"
    BY <2>2, RecordValues DEF Unheard, OnScreen, OnScreenPhases
  <2>4. ~adapter.timeoutTimer /\ ~adapter'.timeoutTimer
    BY <1>2, <1>5, <2>2 DEF AdInv, Unheard
  <2> QED BY <1>1, <2>1, <2>2, <2>3, <2>4 DEF Serial, Unheard, managerVars
<1> QED BY <1>1, <1>3, <1>4, <1>5

\* The arrival of an ad.
LEMMA DidLoadSerial ==
    ASSUME TypeOK, AdInv, Serial, GDTDidLoad
    PROVE  Serial'
<1>1. requests' = requests /\ gdt.phase = "loading"
  BY DEF GDTDidLoad
<1>2. ~adapter.hasExpired /\ ~adapter'.hasExpired
      /\ ~adapter'.timeoutTimer /\ adapter'.attached = adapter.attached
  BY <1>1, LoadedValues DEF Serial
<1>3. CASE ~adapter.attached
  <2>1. \E valid \in BOOLEAN : gdt' = [phase |-> "loaded", adValid |-> valid]
    BY <1>3 DEF GDTDidLoad
  <2>2. ~OnScreen /\ ~OnScreen' /\ gdt'.phase # "loading"
    BY <1>1, <2>1 DEF OnScreen, OnScreenPhases
  <2>3. ~adapter.timeoutTimer
    BY <1>3 DEF AdInv
  <2>4. UNCHANGED managerVars
    BY <1>3 DEF GDTDidLoad
  <2> QED BY <1>1, <1>2, <2>2, <2>3, <2>4 DEF Serial, managerVars
<1>4. CASE adapter.attached
  <2>1. adapter.timeoutTimer
    BY <1>1, <1>4 DEF AdInv
  <2>2. loading /\ requests # 1 /\ ~playedAd
    BY <2>1 DEF Serial
  <2>3. /\ remaining' = <<>> /\ loading' = FALSE /\ playedAd' = playedAd
        /\ \/ gdt' = [phase |-> "presented", adValid |-> FALSE]
           \/ ready' = FALSE /\ gdt' = NoAd
    BY <1>4, <2>2 DEF GDTDidLoad
  <2>4. gdt'.phase # "loading" /\ (ready' => OnScreen')
    BY <2>3, RecordValues DEF OnScreen, OnScreenPhases
  <2> QED BY <1>1, <1>2, <1>4, <2>2, <2>3, <2>4 DEF Serial
<1> QED BY <1>3, <1>4

LEMMA SerialStep == TypeOK /\ AdInv /\ SerialInv /\ [Next]_vars => SerialInv'
<1> SUFFICES ASSUME TypeOK, AdInv, SerialInv, [Next]_vars, ~overlapped'
             PROVE  Serial'
  BY DEF SerialInv
<1>0. Serial /\ ~overlapped
  BY OverlapStays DEF SerialInv
<1>1. CASE Stop \/ RemoveLaunchImages \/ GDTDidLoadAgain \/ GDTInforms
           \/ UNCHANGED vars
  BY <1>0, <1>1
     DEF Stop, RemoveLaunchImages, GDTDidLoadAgain, GDTInforms, PassOn,
         managerVars, vars, Serial, OnScreen
<1>2. CASE LoadWhenReady
  BY <1>0, <1>2 DEF LoadWhenReady, Serial
<1>3. CASE Load
  <2>1. ~OnScreen /\ ~OnScreen' /\ ~ready /\ ~ready'
    BY <1>0, <1>3 DEF Load, Serial, OnScreen
  <2>2. /\ requests \in Nat /\ loading' /\ ~playedAd'
        /\ adapter' = adapter /\ gdt' = gdt
        /\ requests' = IF loading THEN requests ELSE requests + 1
    BY <1>3, MaxRequestsAssumption DEF Load, TypeOK
  <2> QED BY <1>0, <2>1, <2>2 DEF Serial
<1>4. CASE CommunicatorDidFail
  <2>1. requests = 1 /\ requests' = 0 /\ loading /\ ~adapter.timeoutTimer
    BY <1>0, <1>4, MaxRequestsAssumption
       DEF CommunicatorDidFail, Serial, TypeOK
  <2> QED BY <1>0, <1>4, <2>1 DEF CommunicatorDidFail, Serial, OnScreen
<1>5. CASE HandleAdPlayed \/ ExpirationTimerFires
  <2>1. /\ adapter'.attached = adapter.attached
        /\ adapter'.timeoutTimer = adapter.timeoutTimer
        /\ gdt' = gdt /\ requests' = requests /\ remaining' = remaining
        /\ loading' = loading /\ playedAd' = playedAd
        /\ OnScreen' = OnScreen
    BY <1>5, ExpirySteps DEF OnScreen
  <2>2. ~ready'
    BY <1>0, <1>5, ExpirySteps DEF Serial
  <2>3. gdt.phase # "loading"
    BY <1>0, <1>5
       DEF HandleAdPlayed, ExpirationTimerFires, Serial, AdInv, OnScreen,
           OnScreenPhases
  <2> QED BY <1>0, <2>1, <2>2, <2>3 DEF Serial
<1>6. CASE CommunicatorDidReceive
  <2>1. requests = 1 /\ requests' = 0 /\ loading /\ ~adapter.timeoutTimer
    BY <1>0, <1>6, MaxRequestsAssumption
       DEF CommunicatorDidReceive, Serial, TypeOK
  <2> QED BY <1>0, <1>6, <2>1, Walks, WalkSerial
<1>7. CASE Timeout
  <2>1. loading /\ requests' = 0
    BY <1>0, <1>7, MaxRequestsAssumption DEF Timeout, Serial, TypeOK
  <2>2. ~CutOff.timeoutTimer /\ CutOff.hasExpired = adapter.hasExpired
    BY KeptValues DEF TypeOK
  <2> QED BY <1>0, <1>7, <2>1, <2>2, Walks, WalkSerial
<1>8. CASE GDTDidLoad
  BY <1>0, <1>8, DidLoadSerial
<1>9. CASE GDTFailToPresent
  BY <1>0, <1>9, FailToPresentSerial
<1>10. CASE GDTSuccessPresent \/ GDTExposured \/ GDTWillClosed
  <2>1. OnScreen /\ OnScreen' /\ gdt'.phase # "loading"
    BY <1>10, ScreenMoves DEF OnScreen, OnScreenPhases
  <2>2. /\ adapter'.attached = adapter.attached
        /\ adapter'.timeoutTimer = adapter.timeoutTimer
        /\ adapter'.hasExpired = adapter.hasExpired
    BY <1>10, BillingSteps DEF GDTSuccessPresent, GDTWillClosed
  <2>3. requests' = requests /\ UNCHANGED managerVars
    BY <1>10 DEF GDTSuccessPresent, GDTExposured, GDTWillClosed, PassOn
  <2> QED BY <1>0, <2>1, <2>2, <2>3 DEF Serial, managerVars
<1>11. CASE GDTClicked
  BY <1>0, <1>11, BillingSteps
     DEF GDTClicked, PassOn, managerVars, Serial, OnScreen
<1>12. CASE GDTClosed
  <2>1. OnScreen /\ ~OnScreen' /\ gdt'.phase # "loading"
    BY <1>12, ScreenMoves DEF OnScreen, OnScreenPhases
  <2> QED BY <1>0, <1>12, <2>1 DEF GDTClosed, Serial
<1> QED
  BY <1>1, <1>2, <1>3, <1>4, <1>5, <1>6, <1>7, <1>8, <1>9, <1>10, <1>11,
     <1>12 DEF Next, AppCalls, ServerAnswers, GDTCallbacks

LEMMA AlwaysSerial == Spec => [](TypeOK /\ AdInv /\ SerialInv)
<1>1. ASSUME Init PROVE Serial
  <2>1. ~OnScreen /\ gdt.phase # "loading"
    BY <1>1, InitValues, RecordValues DEF OnScreen, OnScreenPhases
  <2>2. requests = 0 /\ ~loading /\ ~ready /\ ~adapter.timeoutTimer
    BY <1>1, InitValues DEF Init
  <2> QED BY <2>1, <2>2 DEF Serial
<1>2. Init => SerialInv
  BY <1>1 DEF SerialInv
<1> QED BY <1>2, AlwaysAdInv, SerialStep, PTL DEF Spec

\* Unless the app loads over an ad on screen, the manager is loading exactly
\* while the only config request, or the load timer of an adapter it listens
\* to, will end the load.
THEOREM SplashAnswerDue == Spec => []OneAnswerDue
<1>1. AdInv /\ SerialInv => OneAnswerDue
  BY DEF AdInv, SerialInv, Serial, OneAnswerDue
<1> QED BY <1>1, AlwaysSerial, PTL

\* Unless the app loads over an ad on screen, a ready ad is the one on screen,
\* unplayed, not expired and listened to.
THEOREM SplashReadyIsOnScreen == Spec => []ReadyMeansOnScreen
<1>1. SerialInv => ReadyMeansOnScreen
  BY DEF SerialInv, Serial, ReadyMeansOnScreen
<1> QED BY <1>1, AlwaysSerial, PTL

\* The only steps that take an ad off the screen without closing it are its
\* own failure and a load over it.
LEMMA OnScreenAdLost ==
    ASSUME TypeOK, AdInv, SerialInv, [Next]_vars, ~overlapped', OnScreen,
           gdt'.phase \in {"none", "loading"}
    PROVE  "failToPresent" \in io'
<1>0. Serial
  BY OverlapStays DEF SerialInv
<1>1. /\ ~loading /\ requests # 1 /\ ~adapter.timeoutTimer
      /\ adapter.attached /\ remaining = <<>>
  BY <1>0 DEF Serial
<1>2. CASE gdt' = gdt
  BY <1>2 DEF OnScreen, OnScreenPhases
<1>3. CASE LoadWhenReady
  BY <1>3 DEF LoadWhenReady
<1>4. CASE CommunicatorDidReceive
  BY <1>0, <1>1, <1>4, MaxRequestsAssumption
     DEF CommunicatorDidReceive, Serial, TypeOK
<1>5. CASE Timeout
  BY <1>1, <1>5 DEF Timeout
<1>6. CASE GDTDidLoad
  BY <1>6 DEF GDTDidLoad, OnScreen, OnScreenPhases
<1>7. CASE GDTFailToPresent
  <2>1. Walk(<<>>, DidStopLoading(adapter), NoAd, {})
    BY <1>1, <1>7 DEF GDTFailToPresent, FailToPresent
  <2> QED BY <2>1, EmptyWalk DEF TellFailure
<1>8. CASE GDTSuccessPresent \/ GDTExposured \/ GDTWillClosed \/ GDTClosed
  BY <1>8, ScreenMoves
<1> QED
  BY <1>2, <1>3, <1>4, <1>5, <1>6, <1>7, <1>8
     DEF Next, AppCalls, ServerAnswers, GDTCallbacks, Load, Stop,
         HandleAdPlayed, CommunicatorDidFail, ExpirationTimerFires,
         RemoveLaunchImages, GDTDidLoadAgain, GDTClicked, GDTInforms, vars

\* Unless the app loads over an ad on screen, it is told that the presentation
\* failed whenever an ad is lost that was on screen.
THEOREM SplashOnScreenIsKept == Spec => OnScreenAdIsKept
<1>1. TypeOK /\ AdInv /\ SerialInv /\ [Next]_vars
        => [~overlapped' /\ OnScreen /\ gdt'.phase \in {"none", "loading"}
              => "failToPresent" \in io']_vars
  BY OnScreenAdLost
<1> QED BY <1>1, AlwaysSerial, PTL DEF Spec, OnScreenAdIsKept
=============================================================================
