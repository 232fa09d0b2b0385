--------------------- MODULE MobiGDTInterstitial_proofs ---------------------
(***************************************************************************)
(* Proofs about MobiGDTInterstitial for every length of the waterfall and  *)
(* every number of config requests in flight.                              *)
(***************************************************************************)
EXTENDS MobiGDTInterstitial, MobiWaterfall_proofs, TLAPS

\* The adapter and the ad that a walk which ends in failure may leave.
LeftBehind(kept, ad) ==
    \/ adapter' = kept /\ gdt' = ad
    \/ adapter' = DidStopLoading(NewAdapter) /\ gdt' = DeadAd
    \/ adapter' = NewAdapter /\ gdt' = NoAd

\* What a walk leaves behind: the load has failed and the app is told, or a
\* new request is out.
WalkOutcome(kept, ad, calls) ==
    /\ remaining' \in Seq(Kinds) /\ Len(remaining') < MaxConfigs
    /\ \/ /\ ready' = ready \/ ready' = FALSE
          /\ loading' = FALSE
          /\ io' = calls \cup {"didFailToLoad"}
          /\ LeftBehind(kept, ad)
       \/ /\ ready' = ready
          /\ loading' = loading
          /\ io' = calls
          /\ adapter' = NewAdapter /\ gdt' = RequestedAd

\* However many configurations were refused, one of three things is left.
LEMMA RefusalLeaves ==
    ASSUME NEW n, NEW kept, NEW ad, LeaveAfter(n, kept, ad)
    PROVE  LeftBehind(kept, ad)
<1>1. PICK left \in {<<kept, ad>>, <<DidStopLoading(NewAdapter), DeadAd>>,
                     <<NewAdapter, NoAd>>} :
        adapter' = left[1] /\ gdt' = left[2]
  BY DEF LeaveAfter, LeftByRefusal
<1> QED BY <1>1 DEF LeftBehind

\* Walk, whatever list it starts from, has one of the outcomes above.
LEMMA WalkOutcomes ==
    ASSUME NEW cs \in Seq(Kinds), Len(cs) <= MaxConfigs, NEW kept, NEW ad,
           NEW calls, Walk(cs, kept, ad, calls)
    PROVE  WalkOutcome(kept, ad, calls)
<1>1. CASE /\ Exhausted(cs)
           /\ ready' = FALSE
           /\ loading' = FALSE
           /\ remaining' = <<>>
           /\ LeaveAfter(Len(cs), kept, ad)
           /\ io' = calls \cup {"didFailToLoad"}
  <2>1. remaining' \in Seq(Kinds) /\ Len(remaining') < MaxConfigs
    BY <1>1, NothingLeft
  <2> QED BY <1>1, <2>1, RefusalLeaves DEF WalkOutcome
<1>2. ASSUME NEW k \in 1..Len(cs),
             remaining' = Rest(cs, k), ready' = ready,
             \/ /\ cs[k] = "stop"
                /\ loading' = FALSE
                /\ LeaveAfter(k - 1, kept, ad)
                /\ io' = calls \cup {"didFailToLoad"}
             \/ /\ cs[k] = "gdt"
                /\ adapter' = NewAdapter
                /\ gdt' = RequestedAd
                /\ io' = calls
                /\ UNCHANGED loading
      PROVE  WalkOutcome(kept, ad, calls)
  <2>1. remaining' \in Seq(Kinds) /\ Len(remaining') < MaxConfigs
    BY <1>2, RestType, MaxConfigsAssumption
  <2> QED BY <1>2, <2>1, RefusalLeaves DEF WalkOutcome
<1> QED BY <1>1, <1>2 DEF Walk

\* The adapter that timeout silences.
CutOff == [DidStopLoading(adapter) EXCEPT !.attached = FALSE]

\* What interstitialCustomEvent:didFailToLoadAdWithError: does to an adapter
\* that nobody listens to.
Unheard(ad, calls) ==
    /\ ~adapter.attached
    /\ adapter' = DidStopLoading(adapter)
    /\ gdt' = ad
    /\ io' = calls
    /\ UNCHANGED <<managerVars, strayed>>

\* The steps that walk, with what they keep.
LEMMA Walks ==
    ASSUME TypeOK
    PROVE  /\ CommunicatorDidReceive => WalkOutcome(adapter, gdt, {})
           /\ Timeout =>
                \/ /\ adapter.attached
                   /\ WalkOutcome(CutOff, gdt, {}) /\ NoteStray
                \/ /\ ~adapter.attached
                   /\ adapter' = CutOff /\ io' = {}
                   /\ UNCHANGED <<managerVars, gdt, strayed>>
           /\ \A ad, calls :
                FailToLoad(ad, calls) =>
                  \/ /\ adapter.attached
                     /\ WalkOutcome(DidStopLoading(adapter), ad, calls)
                     /\ NoteStray
                  \/ Unheard(ad, calls)
<1>1. ASSUME CommunicatorDidReceive PROVE WalkOutcome(adapter, gdt, {})
  <2>1. PICK cs \in Configs : Walk(cs, adapter, gdt, {})
    BY <1>1 DEF CommunicatorDidReceive
  <2> QED BY <2>1, ConfigsType, WalkOutcomes
<1>2. remaining \in Seq(Kinds) /\ Len(remaining) <= MaxConfigs
  BY MaxConfigsAssumption DEF TypeOK
<1>3. ASSUME Timeout
      PROVE  \/ /\ adapter.attached
                /\ WalkOutcome(CutOff, gdt, {}) /\ NoteStray
             \/ /\ ~adapter.attached
                /\ adapter' = CutOff /\ io' = {}
                /\ UNCHANGED <<managerVars, gdt, strayed>>
  BY <1>2, <1>3, WalkOutcomes DEF Timeout, CutOff
<1>4. ASSUME NEW ad, NEW calls, FailToLoad(ad, calls)
      PROVE  \/ /\ adapter.attached
                /\ WalkOutcome(DidStopLoading(adapter), ad, calls)
                /\ NoteStray
             \/ Unheard(ad, calls)
  BY <1>2, <1>4, WalkOutcomes DEF FailToLoad, Unheard
<1> QED BY <1>1, <1>3, <1>4

----------------------------------------------------------------------------
(* Types.                                                                  *)

\* The records a load starts from or ends in.
LEMMA RecordTypes ==
    /\ NewAdapter \in Adapters /\ DidStopLoading(NewAdapter) \in Adapters
    /\ NoAd \in Ads /\ RequestedAd \in Ads /\ DeadAd \in Ads
    /\ [phase |-> "loaded", adValid |-> TRUE] \in Ads
    /\ [phase |-> "presented", adValid |-> FALSE] \in Ads
BY DEF NewAdapter, DidStopLoading, Adapters, NoAd, RequestedAd, DeadAd, Ads,
       Phases

\* What those records say.
LEMMA RecordValues ==
    /\ NewAdapter.attached /\ NewAdapter.timeoutTimer
    /\ DidStopLoading(NewAdapter).attached
    /\ ~DidStopLoading(NewAdapter).timeoutTimer
    /\ \A a \in {NewAdapter, DidStopLoading(NewAdapter)} :
         /\ ~a.hasTrackedImpression /\ a.impressions = 0
         /\ ~a.hasTrackedClick /\ a.clicks = 0
    /\ NoAd.phase = "none" /\ ~NoAd.adValid
    /\ DeadAd.phase = "over" /\ ~DeadAd.adValid
    /\ RequestedAd.phase = "loading" /\ ~RequestedAd.adValid
BY DEF NewAdapter, DidStopLoading, NoAd, DeadAd, RequestedAd

\* The adapters that handlers leave.
LEMMA KeptAdapters ==
    ASSUME adapter \in Adapters
    PROVE  CutOff \in Adapters /\ DidStopLoading(adapter) \in Adapters
BY DEF CutOff, DidStopLoading, Adapters

LEMMA WalkType ==
    ASSUME TypeOK, NEW kept \in Adapters, NEW ad \in Ads,
           NEW calls \in SUBSET {"show"}, WalkOutcome(kept, ad, calls),
           requests' \in 0..MaxRequests, strayed' \in BOOLEAN
    PROVE  TypeOK'
<1>1. adapter' \in Adapters /\ gdt' \in Ads
  BY RecordTypes DEF WalkOutcome, LeftBehind
<1>2. ready' \in BOOLEAN /\ loading' \in BOOLEAN
  BY DEF WalkOutcome, TypeOK
<1>3. io' \subseteq {"show", "didFailToLoad"}
  BY DEF WalkOutcome
<1> QED BY <1>1, <1>2, <1>3 DEF TypeOK, WalkOutcome, Answers

LEMMA FailToLoadType ==
    ASSUME TypeOK, NEW ad \in Ads, NEW calls \in SUBSET {"show"},
           FailToLoad(ad, calls), requests' = requests
    PROVE  TypeOK'
<1>1. DidStopLoading(adapter) \in Adapters /\ requests' \in 0..MaxRequests
  BY KeptAdapters DEF TypeOK
<1>2. CASE WalkOutcome(DidStopLoading(adapter), ad, calls) /\ NoteStray
  <2>1. strayed' \in BOOLEAN
    BY <1>2 DEF NoteStray
  <2> QED BY <1>1, <1>2, <2>1, WalkType
<1>3. CASE Unheard(ad, calls)
  BY <1>1, <1>3 DEF Unheard, managerVars, TypeOK
<1> QED BY <1>2, <1>3, Walks

LEMMA PassOnType ==
    ASSUME TypeOK,
           NEW events \in SUBSET {"willAppear", "didAppear", "tap",
                                  "willPresentModal"},
           PassOn(events), adapter' \in Adapters, gdt' \in Ads,
           UNCHANGED <<requests, strayed>>
    PROVE  TypeOK'
BY DEF PassOn, TypeOK, managerVars

\* A load call keeps the number of requests within its bound.
LEMMA LoadAdWithURLType ==
    ASSUME TypeOK, LoadAdWithURL
    PROVE  requests' \in 0..MaxRequests /\ loading' \in BOOLEAN
BY MaxRequestsAssumption DEF LoadAdWithURL, TypeOK

LEMMA TypeStep == TypeOK /\ [Next]_vars => TypeOK'
<1> SUFFICES ASSUME TypeOK, [Next]_vars PROVE TypeOK'
  OBVIOUS
<1>1. CASE LoadWhenReady \/ UNCHANGED vars
  BY <1>1 DEF LoadWhenReady, vars, managerVars, TypeOK, Answers
<1>2. CASE Load
  BY <1>2, LoadAdWithURLType DEF Load, TypeOK
<1>3. CASE Show
  <2>1. CASE FailToLoad(gdt, {"show"})
    BY <1>3, <2>1, FailToLoadType DEF Show, TypeOK
  <2>2. CASE /\ gdt' = gdt \/ gdt' = [phase |-> "presented", adValid |-> FALSE]
             /\ io' = {"show"} /\ UNCHANGED <<managerVars, adapter, strayed>>
    <3>1. gdt' \in Ads
      BY <2>2, RecordTypes DEF TypeOK
    <3> QED BY <1>3, <2>2, <3>1 DEF Show, managerVars, TypeOK
  <2> QED BY <1>3, <2>1, <2>2 DEF Show
<1>4. CASE CommunicatorDidReceive
  <2>1. requests' \in 0..MaxRequests
    BY <1>4, MaxRequestsAssumption DEF CommunicatorDidReceive, TypeOK
  <2> QED BY <1>4, <2>1, Walks, WalkType DEF CommunicatorDidReceive, TypeOK
<1>5. CASE CommunicatorDidFail
  <2>1. requests' \in 0..MaxRequests
    BY <1>5, MaxRequestsAssumption DEF CommunicatorDidFail, TypeOK
  <2> QED BY <1>5, <2>1 DEF CommunicatorDidFail, TypeOK, Answers
<1>6. CASE Timeout
  <2>1. CutOff \in Adapters /\ requests' \in 0..MaxRequests
    BY <1>6, KeptAdapters DEF Timeout, TypeOK
  <2>2. CASE WalkOutcome(CutOff, gdt, {}) /\ NoteStray
    <3>1. strayed' \in BOOLEAN
      BY <2>2 DEF NoteStray
    <3> QED BY <2>1, <2>2, <3>1, WalkType DEF TypeOK
  <2>3. CASE adapter' = CutOff /\ io' = {}
             /\ UNCHANGED <<managerVars, gdt, strayed>>
    BY <2>1, <2>3 DEF managerVars, TypeOK
  <2> QED BY <1>6, <2>2, <2>3, Walks
<1>7. CASE GDTSuccessToLoad
  <2>1. adapter' \in Adapters /\ gdt' \in Ads
    BY <1>7, KeptAdapters, RecordTypes DEF GDTSuccessToLoad, TypeOK
  <2>2. remaining' \in Seq(Kinds) /\ Len(remaining') < MaxConfigs
    BY <1>7, NothingLeft DEF GDTSuccessToLoad, managerVars, TypeOK
  <2> QED BY <1>7, <2>1, <2>2
          DEF GDTSuccessToLoad, managerVars, TypeOK, Answers
<1>8. CASE GDTFails
  BY <1>8, FailToLoadType, RecordTypes DEF GDTFails
<1>9. CASE GDTWillPresent
  <2>1. gdt' \in Ads
    BY <1>9 DEF GDTWillPresent, TypeOK, Ads, Phases
  <2> QED BY <1>9, <2>1, PassOnType DEF GDTWillPresent, TypeOK
<1>10. CASE GDTDidPresent
  <2>1. gdt' \in Ads
    BY <1>10 DEF GDTDidPresent, TypeOK, Ads, Phases
  <2>2. adapter.impressions + 1 \in Nat
    BY DEF TypeOK, Adapters
  <2>3. adapter' \in Adapters
    BY <1>10, <2>2 DEF GDTDidPresent, TypeOK, Adapters
  <2> QED BY <1>10, <2>1, <2>3, PassOnType DEF GDTDidPresent
<1>11. CASE GDTClicked
  <2>1. adapter.clicks + 1 \in Nat
    BY DEF TypeOK, Adapters
  <2>2. adapter' \in Adapters
    BY <1>11, <2>1 DEF GDTClicked, TypeOK, Adapters
  <2> QED BY <1>11, <2>2, PassOnType DEF GDTClicked, TypeOK
<1>12. CASE GDTInforms
  BY <1>12, PassOnType DEF GDTInforms, TypeOK
<1>13. CASE GDTDidDismiss
  BY <1>13, RecordTypes DEF GDTDidDismiss, DidDisappear, TypeOK
<1>14. CASE GDTDidDismissAndAppLoads
  <2>1. requests' \in 0..MaxRequests /\ loading' \in BOOLEAN
    BY <1>14, LoadAdWithURLType DEF GDTDidDismissAndAppLoads, TypeOK
  <2>2. ready' \in BOOLEAN
        /\ io' \subseteq Answers \cup {"load", "willDisappear",
                                       "didDisappear"}
    BY <1>14 DEF GDTDidDismissAndAppLoads, DidDisappear, Answers
  <2> QED BY <1>14, <2>1, <2>2, RecordTypes
          DEF GDTDidDismissAndAppLoads, TypeOK
<1>15. CASE GDTExpires
  <2>1. gdt' \in Ads
    BY <1>15 DEF GDTExpires, TypeOK, Ads
  <2> QED BY <1>15, <2>1 DEF GDTExpires, managerVars, TypeOK
<1> QED
  BY <1>1, <1>2, <1>3, <1>4, <1>5, <1>6, <1>7, <1>8, <1>9, <1>10, <1>11,
     <1>12, <1>13, <1>14, <1>15
     DEF Next, AppCalls, ServerAnswers, GDTCallbacks

\* What Init gives the adapter.
LEMMA InitValues ==
    ASSUME Init
    PROVE  /\ adapter \in Adapters
           /\ ~adapter.attached /\ ~adapter.timeoutTimer
           /\ ~adapter.hasTrackedImpression /\ ~adapter.hasTrackedClick
           /\ adapter.impressions = 0 /\ adapter.clicks = 0
           /\ gdt = NoAd
BY DEF Init, NewAdapter, Adapters

LEMMA InitType == Init => TypeOK
<1> SUFFICES ASSUME Init PROVE TypeOK
  OBVIOUS
<1>1. requests \in 0..MaxRequests
  BY MaxRequestsAssumption DEF Init
<1>2. remaining \in Seq(Kinds) /\ Len(remaining) < MaxConfigs
  BY NothingLeft DEF Init
<1> QED BY <1>1, <1>2, InitValues, RecordTypes DEF Init, TypeOK

\* Every variable has its type, the configuration being fetched is no longer
\* in the manager's list, and the requests in flight stay within their bound.
THEOREM InterstitialTypeCorrect == Spec => []TypeOK
BY InitType, TypeStep, PTL DEF Spec

----------------------------------------------------------------------------
(* Billing.                                                                *)

\* Facts about the adapter and its ad that hold whatever happens: only an ad
\* that has been loaded and not presented is valid, and the counters follow
\* the flags.
AdInv ==
    /\ gdt.adValid => gdt.phase = "loaded"
    /\ adapter.impressions <= 1 /\ adapter.clicks <= 1
    /\ ~adapter.hasTrackedImpression => adapter.impressions = 0
    /\ ~adapter.hasTrackedClick => adapter.clicks = 0

\* Two states of an adapter with the same bill.
SameBill(a, b) ==
    /\ a.hasTrackedImpression = b.hasTrackedImpression
    /\ a.hasTrackedClick = b.hasTrackedClick
    /\ a.impressions = b.impressions
    /\ a.clicks = b.clicks

\* What the handlers of a failed load leave of the adapter.
LEMMA KeptValues ==
    ASSUME adapter \in Adapters
    PROVE  /\ SameBill(CutOff, adapter)
           /\ ~CutOff.attached /\ ~CutOff.timeoutTimer
           /\ SameBill(DidStopLoading(adapter), adapter)
           /\ DidStopLoading(adapter).attached = adapter.attached
           /\ ~DidStopLoading(adapter).timeoutTimer
BY DEF CutOff, DidStopLoading, SameBill, Adapters

\* The callbacks with which an ad moves on.
LEMMA AdMoves ==
    ASSUME TypeOK
    PROVE  /\ GDTWillPresent =>
                gdt.phase = "presented" /\ gdt'.phase = "visible"
           /\ GDTDidPresent =>
                gdt.phase \in {"visible", "shown"} /\ gdt'.phase = "shown"
           /\ GDTWillPresent \/ GDTDidPresent => gdt'.adValid = gdt.adValid
           /\ GDTExpires =>
                /\ gdt.phase = "loaded" /\ gdt'.phase = "loaded"
                /\ ~gdt'.adValid
BY DEF GDTWillPresent, GDTDidPresent, GDTExpires, TypeOK, Ads

\* A presentation or a click changes the bill and nothing else.
LEMMA BillingSteps ==
    ASSUME TypeOK, GDTDidPresent \/ GDTClicked
    PROVE  /\ adapter'.attached = adapter.attached
           /\ adapter'.timeoutTimer = adapter.timeoutTimer
BY DEF GDTDidPresent, GDTClicked, TypeOK, Adapters

\* A walk keeps AdInv if what it may keep satisfies it.
LEMMA WalkAdInv ==
    ASSUME AdInv, NEW kept, NEW ad, NEW calls, WalkOutcome(kept, ad, calls),
           SameBill(kept, adapter), ad = gdt \/ ad = DeadAd
    PROVE  AdInv'
<1>1. CASE adapter' = kept /\ gdt' = ad
  BY <1>1, RecordValues DEF AdInv, SameBill
<1>2. CASE /\ adapter' \in {NewAdapter, DidStopLoading(NewAdapter)}
           /\ gdt' \in {NoAd, DeadAd, RequestedAd}
  BY <1>2, RecordValues DEF AdInv
<1> QED BY <1>1, <1>2 DEF WalkOutcome, LeftBehind

LEMMA FailToLoadAdInv ==
    ASSUME TypeOK, AdInv, NEW ad, ad = gdt \/ ad = DeadAd, NEW calls,
           FailToLoad(ad, calls)
    PROVE  AdInv'
<1>1. SameBill(DidStopLoading(adapter), adapter)
  BY KeptValues DEF TypeOK
<1>2. CASE WalkOutcome(DidStopLoading(adapter), ad, calls)
  BY <1>1, <1>2, WalkAdInv
<1>3. CASE Unheard(ad, calls)
  BY <1>1, <1>3, RecordValues DEF Unheard, AdInv, SameBill
<1> QED BY <1>2, <1>3, Walks

LEMMA AdInvStep == TypeOK /\ AdInv /\ [Next]_vars => AdInv'
<1> SUFFICES ASSUME TypeOK, AdInv, [Next]_vars PROVE AdInv'
  OBVIOUS
<1>1. CASE LoadWhenReady \/ Load \/ CommunicatorDidFail \/ GDTInforms
           \/ UNCHANGED vars
  BY <1>1
     DEF LoadWhenReady, Load, CommunicatorDidFail, GDTInforms, vars, AdInv
<1>2. CASE Show
  <2>1. CASE gdt' = gdt /\ adapter' = adapter
    BY <2>1 DEF AdInv
  <2>2. CASE /\ gdt' = [phase |-> "presented", adValid |-> FALSE]
             /\ adapter' = adapter
    <3>1. ~gdt'.adValid
      BY <2>2
    <3> QED BY <2>2, <3>1 DEF AdInv
  <2>3. CASE FailToLoad(gdt, {"show"})
    BY <2>3, FailToLoadAdInv
  <2> QED BY <1>2, <2>1, <2>2, <2>3 DEF Show
<1>3. CASE CommunicatorDidReceive
  <2>1. SameBill(adapter, adapter)
    BY DEF SameBill
  <2> QED BY <1>3, <2>1, Walks, WalkAdInv
<1>4. CASE Timeout
  <2>1. SameBill(CutOff, adapter)
    BY KeptValues DEF TypeOK
  <2>2. CASE WalkOutcome(CutOff, gdt, {})
    BY <2>1, <2>2, WalkAdInv
  <2>3. CASE adapter' = CutOff /\ gdt' = gdt
    BY <2>1, <2>3 DEF AdInv, SameBill
  <2> QED BY <1>4, <2>2, <2>3, Walks
<1>5. CASE GDTSuccessToLoad
  <2>1. SameBill(adapter', adapter) /\ gdt'.phase = "loaded"
    BY <1>5, KeptValues DEF GDTSuccessToLoad, TypeOK
  <2> QED BY <2>1 DEF AdInv, SameBill
<1>6. CASE GDTFails
  BY <1>6, FailToLoadAdInv DEF GDTFails
<1>7. CASE GDTWillPresent \/ GDTExpires
  <2>1. adapter' = adapter
    BY <1>7 DEF GDTWillPresent, GDTExpires
  <2> QED BY <1>7, <2>1, AdMoves DEF AdInv
<1>8. CASE GDTDidPresent
  <2>1. ~gdt'.adValid
    BY <1>8, AdMoves DEF AdInv
  <2>2. CASE adapter.hasTrackedImpression
    BY <1>8, <2>1, <2>2 DEF GDTDidPresent, AdInv
  <2>3. CASE ~adapter.hasTrackedImpression
    <3>1. adapter.impressions = 0
      BY <2>3 DEF AdInv
    <3>2. /\ adapter'.hasTrackedImpression
          /\ adapter'.impressions = adapter.impressions + 1
          /\ adapter'.hasTrackedClick = adapter.hasTrackedClick
          /\ adapter'.clicks = adapter.clicks
      BY <1>8, <2>3 DEF GDTDidPresent, TypeOK, Adapters
    <3> QED BY <2>1, <3>1, <3>2 DEF AdInv
  <2> QED BY <2>2, <2>3
<1>9. CASE GDTClicked
  <2>1. CASE adapter.hasTrackedClick
    BY <1>9, <2>1 DEF GDTClicked, AdInv
  <2>2. CASE ~adapter.hasTrackedClick
    <3>1. adapter.clicks = 0 /\ gdt' = gdt
      BY <1>9, <2>2 DEF GDTClicked, AdInv
    <3>2. /\ adapter'.hasTrackedClick /\ adapter'.clicks = adapter.clicks + 1
          /\ adapter'.hasTrackedImpression = adapter.hasTrackedImpression
          /\ adapter'.impressions = adapter.impressions
      BY <1>9, <2>2 DEF GDTClicked, TypeOK, Adapters
    <3> QED BY <3>1, <3>2 DEF AdInv
  <2> QED BY <2>1, <2>2
<1>10. CASE GDTDidDismiss \/ GDTDidDismissAndAppLoads
  BY <1>10, RecordValues DEF GDTDidDismiss, GDTDidDismissAndAppLoads, AdInv
<1> QED
  BY <1>1, <1>2, <1>3, <1>4, <1>5, <1>6, <1>7, <1>8, <1>9, <1>10
     DEF Next, AppCalls, ServerAnswers, GDTCallbacks

LEMMA AlwaysAdInv == Spec => [](TypeOK /\ AdInv)
<1>1. Init => AdInv
  BY InitValues, RecordValues DEF AdInv
<1> QED BY <1>1, InitType, TypeStep, AdInvStep, PTL DEF Spec

\* However often an interstitial appears and is tapped, one impression and one
\* click are billed.
THEOREM InterstitialBilling == Spec => []BilledOnce
<1>1. AdInv => BilledOnce
  BY DEF AdInv, BilledOnce
<1> QED BY <1>1, AlwaysAdInv, PTL

----------------------------------------------------------------------------
(* Something is due.                                                       *)

\* A load under way has a config request out or the load timer of an adapter
\* that is listened to, also after failures out of turn.
WaitInv ==
    loading => requests > 0 \/ (adapter.timeoutTimer /\ adapter.attached)

\* A walk ends the load or leaves a timer for it.
LEMMA WalkWaits ==
    ASSUME NEW kept, NEW ad, NEW calls, WalkOutcome(kept, ad, calls)
    PROVE  WaitInv'
BY RecordValues DEF WalkOutcome, WaitInv

\* A failure that nobody hears leaves a manager that waits for a request.
LEMMA FailToLoadWaits ==
    ASSUME TypeOK, WaitInv, NEW ad, NEW calls, FailToLoad(ad, calls),
           requests' = requests
    PROVE  WaitInv'
<1>1. CASE WalkOutcome(DidStopLoading(adapter), ad, calls)
  BY <1>1, WalkWaits
<1>2. CASE Unheard(ad, calls)
  BY <1>2 DEF Unheard, managerVars, WaitInv
<1> QED BY <1>1, <1>2, Walks

LEMMA LoadAdWithURLWaits ==
    ASSUME TypeOK, WaitInv, LoadAdWithURL, adapter' = adapter
    PROVE  WaitInv'
<1>1. requests \in Nat
  BY MaxRequestsAssumption DEF TypeOK
<1>2. CASE loading
  BY <1>2 DEF LoadAdWithURL, WaitInv
<1>3. CASE ~loading
  BY <1>1, <1>3 DEF LoadAdWithURL, WaitInv
<1> QED BY <1>2, <1>3

LEMMA WaitStep == TypeOK /\ WaitInv /\ [Next]_vars => WaitInv'
<1> SUFFICES ASSUME TypeOK, WaitInv, [Next]_vars PROVE WaitInv'
  OBVIOUS
<1>1. CASE LoadWhenReady \/ GDTWillPresent \/ GDTInforms \/ GDTDidDismiss
           \/ GDTExpires \/ UNCHANGED vars
  BY <1>1
     DEF LoadWhenReady, GDTWillPresent, GDTInforms, GDTDidDismiss, GDTExpires,
         PassOn, managerVars, vars, WaitInv
<1>2. CASE Load
  BY <1>2, LoadAdWithURLWaits DEF Load
<1>3. CASE Show
  <2>1. CASE FailToLoad(gdt, {"show"})
    BY <1>3, <2>1, FailToLoadWaits DEF Show
  <2>2. CASE UNCHANGED <<managerVars, adapter>>
    BY <1>3, <2>2 DEF Show, managerVars, WaitInv
  <2> QED BY <1>3, <2>1, <2>2 DEF Show
<1>4. CASE CommunicatorDidReceive
  BY <1>4, Walks, WalkWaits
<1>5. CASE CommunicatorDidFail
  BY <1>5 DEF CommunicatorDidFail, WaitInv
<1>6. CASE Timeout
  <2>1. CASE WalkOutcome(CutOff, gdt, {})
    BY <2>1, WalkWaits
  <2>2. CASE ~adapter.attached /\ UNCHANGED managerVars
    BY <1>6, <2>2 DEF Timeout, managerVars, WaitInv
  <2> QED BY <1>6, <2>1, <2>2, Walks
<1>7. CASE GDTSuccessToLoad
  <2>1. CASE adapter.attached
    BY <1>7, <2>1 DEF GDTSuccessToLoad, WaitInv
  <2>2. CASE ~adapter.attached
    BY <1>7, <2>2 DEF GDTSuccessToLoad, managerVars, WaitInv
  <2> QED BY <2>1, <2>2
<1>8. CASE GDTFails
  BY <1>8, FailToLoadWaits DEF GDTFails
<1>9. CASE GDTDidPresent \/ GDTClicked
  BY <1>9, BillingSteps
     DEF GDTDidPresent, GDTClicked, PassOn, managerVars, WaitInv
<1>10. CASE GDTDidDismissAndAppLoads
  <2>1. CASE ready
    BY <1>10, <2>1 DEF GDTDidDismissAndAppLoads, WaitInv
  <2>2. CASE ~ready
    BY <1>10, <2>2, LoadAdWithURLWaits DEF GDTDidDismissAndAppLoads
  <2> QED BY <2>1, <2>2
<1> QED
  BY <1>1, <1>2, <1>3, <1>4, <1>5, <1>6, <1>7, <1>8, <1>9, <1>10
     DEF Next, AppCalls, ServerAnswers, GDTCallbacks

----------------------------------------------------------------------------
(* Until a failure out of turn: one answer is due, and a ready ad is there. *)

\* One thing will end a load; a request of an adapter that is listened to has
\* its timer; an ad on screen is ready; a ready ad is loaded or on screen, its
\* adapter is listened to, and no load will replace it.
InTurn ==
    /\ requests <= 1
    /\ gdt.phase = "loading" => (adapter.attached <=> adapter.timeoutTimer)
    /\ loading <=> \/ requests = 1
                   \/ gdt.phase = "loading" /\ adapter.timeoutTimer
    /\ requests = 1 => gdt.phase # "loading" \/ ~adapter.attached
    /\ OnScreen => ready
    /\ ready => /\ gdt.phase \in {"loaded"} \cup OnScreenPhases
                /\ adapter.attached /\ ~adapter.timeoutTimer
                /\ ~loading

TurnInv == ~strayed => InTurn

\* What InTurn says of a state in which a load is under way.
LEMMA LoadingInTurn ==
    ASSUME InTurn, loading
    PROVE  /\ ~ready /\ ~OnScreen
           /\ \/ requests = 1 /\ ~(gdt.phase = "loading" /\ adapter.attached)
              \/ gdt.phase = "loading" /\ adapter.attached /\ requests # 1
BY DEF InTurn

\* A walk of a load that nothing else will end, if the request of the adapter
\* it may keep is no longer waited for.
LEMMA WalkInTurn ==
    ASSUME InTurn, NEW kept, NEW ad, NEW calls, WalkOutcome(kept, ad, calls),
           loading, requests' = 0, ad.phase \notin OnScreenPhases,
           ad.phase = "loading" => ~kept.attached /\ ~kept.timeoutTimer
    PROVE  InTurn'
<1>1. ready' = ready \/ ready' = FALSE
  BY DEF WalkOutcome
<1>2. ~ready'
  BY <1>1, LoadingInTurn
<1>3. CASE adapter' = kept /\ gdt' = ad /\ loading' = FALSE
  <2>1. /\ ~OnScreen' /\ ~loading'
        /\ gdt'.phase = "loading" =>
             ~adapter'.attached /\ ~adapter'.timeoutTimer
    BY <1>3 DEF OnScreen
  <2> QED BY <1>2, <2>1 DEF InTurn
<1>4. CASE gdt' \in {NoAd, DeadAd} /\ loading' = FALSE
  <2>1. ~OnScreen' /\ ~loading' /\ gdt'.phase # "loading"
    BY <1>4, RecordValues DEF OnScreen, OnScreenPhases
  <2> QED BY <1>2, <2>1 DEF InTurn
<1>5. CASE adapter' = NewAdapter /\ gdt' = RequestedAd /\ loading' = loading
  <2>1. /\ ~OnScreen' /\ loading' /\ gdt'.phase = "loading"
        /\ adapter'.attached /\ adapter'.timeoutTimer
    BY <1>5, RecordValues DEF OnScreen, OnScreenPhases
  <2> QED BY <1>2, <2>1 DEF InTurn
<1> QED BY <1>3, <1>4, <1>5 DEF WalkOutcome, LeftBehind

\* A failure that is noted as no stray comes during a load, no request out.
LEMMA NotedInTurn ==
    ASSUME TypeOK, NoteStray, ~strayed'
    PROVE  loading /\ requests = 0
<1>1. loading /\ ~(requests > 0)
  BY Zenon DEF NoteStray
<1>2. requests \in Nat
  BY MaxRequestsAssumption DEF TypeOK
<1> QED BY <1>1, <1>2

\* A failure in its turn is the outcome of the load under way.
LEMMA FailToLoadInTurn ==
    ASSUME TypeOK, InTurn, ~strayed', NEW ad, NEW calls, FailToLoad(ad, calls),
           adapter.attached
    PROVE  /\ loading /\ requests = 0 /\ gdt.phase = "loading" /\ ~ready
           /\ WalkOutcome(DidStopLoading(adapter), ad, calls)
<1>1. WalkOutcome(DidStopLoading(adapter), ad, calls) /\ NoteStray
  BY Walks DEF Unheard
<1>2. loading /\ requests = 0
  BY <1>1, NotedInTurn
<1> QED BY <1>1, <1>2, LoadingInTurn

\* A request goes out only if nothing else will end a load.
LEMMA LoadInTurn ==
    ASSUME TypeOK, InTurn, Load
    PROVE  InTurn'
<1>1. /\ ~ready /\ ready' = ready /\ loading' /\ requests \in Nat
      /\ adapter' = adapter /\ gdt' = gdt /\ OnScreen' = OnScreen
      /\ requests' = IF loading THEN requests ELSE requests + 1
  BY MaxRequestsAssumption DEF Load, LoadAdWithURL, TypeOK, OnScreen
<1>2. CASE loading
  BY <1>1, <1>2 DEF InTurn
<1>3. CASE ~loading
  <2>1. requests' = 1 /\ ~(gdt.phase = "loading" /\ adapter.attached)
    BY <1>1, <1>3 DEF InTurn
  <2> QED BY <1>1, <2>1 DEF InTurn
<1> QED BY <1>2, <1>3

\* The timer of a request, or one left behind by a refusal.
LEMMA TimeoutInTurn ==
    ASSUME TypeOK, InTurn, Timeout, ~strayed'
    PROVE  InTurn'
<1>1. ~CutOff.attached /\ ~CutOff.timeoutTimer
  BY KeptValues DEF TypeOK
<1>2. requests' = requests /\ adapter.timeoutTimer
  BY DEF Timeout
<1>3. CASE adapter.attached /\ WalkOutcome(CutOff, gdt, {}) /\ NoteStray
  <2>1. loading /\ requests' = 0
    BY <1>2, <1>3, NotedInTurn
  <2>2. gdt.phase \notin OnScreenPhases
    BY <2>1, LoadingInTurn DEF OnScreen
  <2> QED BY <1>1, <1>3, <2>1, <2>2, WalkInTurn
<1>4. CASE ~adapter.attached /\ adapter' = CutOff
           /\ UNCHANGED <<managerVars, gdt, strayed>>
  <2>1. ~ready /\ gdt.phase # "loading"
    BY <1>2, <1>4 DEF InTurn
  <2>2. /\ ready' = ready /\ loading' = loading /\ gdt' = gdt
        /\ OnScreen' = OnScreen
    BY <1>4 DEF managerVars, OnScreen
  <2> QED BY <1>2, <2>1, <2>2 DEF InTurn
<1> QED BY <1>3, <1>4, Walks

\* The arrival of an ad.
LEMMA SuccessInTurn ==
    ASSUME TypeOK, InTurn, GDTSuccessToLoad
    PROVE  InTurn'
<1>1. /\ gdt.phase = "loading" /\ gdt'.phase = "loaded"
      /\ requests' = requests /\ ~OnScreen'
  BY DEF GDTSuccessToLoad, OnScreen, OnScreenPhases
<1>2. adapter'.attached = adapter.attached /\ ~adapter'.timeoutTimer
  BY KeptValues DEF GDTSuccessToLoad, TypeOK
<1>3. CASE adapter.attached
  <2>1. requests # 1
    BY <1>1, <1>3 DEF InTurn
  <2>2. ready' /\ ~loading'
    BY <1>3 DEF GDTSuccessToLoad
  <2> QED BY <1>1, <1>2, <1>3, <2>1, <2>2 DEF InTurn
<1>4. CASE ~adapter.attached
  <2>1. ~ready /\ (loading <=> requests = 1)
    BY <1>1, <1>4 DEF InTurn
  <2>2. ready' = ready /\ loading' = loading
    BY <1>4 DEF GDTSuccessToLoad, managerVars
  <2> QED BY <1>1, <2>1, <2>2 DEF InTurn
<1> QED BY <1>3, <1>4

\* A failed request, or a presentation that nobody hears the failure of.
LEMMA FailsInTurn ==
    ASSUME TypeOK, InTurn, GDTFails, ~strayed'
    PROVE  InTurn'
<1>1. FailToLoad(DeadAd, {}) /\ requests' = requests
  BY DEF GDTFails
<1>2. DeadAd.phase = "over" /\ "over" \notin OnScreenPhases
  BY RecordValues DEF OnScreenPhases
<1>3. CASE adapter.attached
  BY <1>1, <1>2, <1>3, FailToLoadInTurn, WalkInTurn
<1>4. CASE ~adapter.attached
  <2>1. gdt' = DeadAd /\ ready' = ready /\ loading' = loading
    BY <1>1, <1>4 DEF FailToLoad, managerVars
  <2>2. ~OnScreen' /\ gdt'.phase # "loading"
    BY <1>2, <2>1 DEF OnScreen
  <2>3. ~ready /\ (loading <=> requests = 1)
    BY <1>4 DEF InTurn
  <2> QED BY <1>1, <2>1, <2>2, <2>3 DEF InTurn
<1> QED BY <1>3, <1>4

\* A dismissed ad was on screen, so it was ready and no load is under way.
LEMMA DismissInTurn ==
    ASSUME TypeOK, InTurn, GDTDidDismiss \/ GDTDidDismissAndAppLoads
    PROVE  InTurn'
<1>1. OnScreen
  BY DEF GDTDidDismiss, GDTDidDismissAndAppLoads, OnScreen, OnScreenPhases
<1>2. ready /\ adapter.attached /\ ~loading
  BY <1>1 DEF InTurn
<1>3. /\ gdt' = DeadAd /\ ~ready' /\ loading' = loading
      /\ requests' = requests
  BY <1>2 DEF GDTDidDismiss, GDTDidDismissAndAppLoads, DidDisappear
<1>4. ~OnScreen' /\ gdt'.phase # "loading"
  BY <1>3, RecordValues DEF OnScreen, OnScreenPhases
<1> QED BY <1>2, <1>3, <1>4 DEF InTurn

\* A show of an ad that can no longer be shown is a failure out of turn.
LEMMA ShowInTurn ==
    ASSUME TypeOK, AdInv, InTurn, Show, ~strayed'
    PROVE  /\ gdt.phase = "loaded" /\ gdt'.phase = "presented"
           /\ io' = {"show"} /\ requests' = requests
           /\ UNCHANGED <<managerVars, adapter>>
<1>1. ready /\ adapter.attached /\ ~loading /\ gdt.phase # "none"
  BY DEF Show, InTurn, OnScreenPhases
<1>2. ~FailToLoad(gdt, {"show"})
  BY <1>1, FailToLoadInTurn
<1>3. gdt.adValid
  BY <1>1, <1>2 DEF Show
<1> QED BY <1>1, <1>2, <1>3 DEF Show, AdInv

\* Failures out of turn are never forgotten.
LEMMA StrayStays ==
    ASSUME [Next]_vars, ~strayed' PROVE ~strayed
BY DEF Next, AppCalls, ServerAnswers, GDTCallbacks, LoadWhenReady, Load, Show,
       CommunicatorDidReceive, CommunicatorDidFail, Timeout, FailToLoad,
       NoteStray, GDTSuccessToLoad, GDTFails, GDTWillPresent, GDTDidPresent,
       GDTClicked, GDTInforms, GDTDidDismiss, GDTDidDismissAndAppLoads,
       GDTExpires, vars

LEMMA TurnStep == TypeOK /\ AdInv /\ TurnInv /\ [Next]_vars => TurnInv'
<1> SUFFICES ASSUME TypeOK, AdInv, TurnInv, [Next]_vars, ~strayed'
             PROVE  InTurn'
  BY DEF TurnInv
<1>0. InTurn
  BY StrayStays DEF TurnInv
<1>1. CASE LoadWhenReady \/ GDTInforms \/ UNCHANGED vars
  BY <1>0, <1>1
     DEF LoadWhenReady, GDTInforms, PassOn, managerVars, vars, InTurn, OnScreen
<1>2. CASE Load
  BY <1>0, <1>2, LoadInTurn
<1>3. CASE Show
  <2>1. /\ gdt.phase = "loaded" /\ gdt'.phase = "presented"
        /\ requests' = requests /\ UNCHANGED <<managerVars, adapter>>
    BY <1>0, <1>3, ShowInTurn
  <2>2. ready
    BY <1>3 DEF Show
  <2>3. "presented" \in OnScreenPhases
    BY DEF OnScreenPhases
  <2> QED BY <1>0, <2>1, <2>2, <2>3 DEF InTurn, managerVars, OnScreen
<1>4. CASE CommunicatorDidReceive
  <2>1. requests = 1 /\ requests' = 0 /\ loading
    BY <1>0, <1>4, MaxRequestsAssumption
       DEF CommunicatorDidReceive, InTurn, TypeOK
  <2>2. /\ gdt.phase \notin OnScreenPhases
        /\ gdt.phase = "loading" =>
             ~adapter.attached /\ ~adapter.timeoutTimer
    BY <1>0, <2>1, LoadingInTurn DEF InTurn, OnScreen
  <2> QED BY <1>0, <1>4, <2>1, <2>2, Walks, WalkInTurn
<1>5. CASE CommunicatorDidFail
  <2>1. requests = 1 /\ requests' = 0 /\ loading
    BY <1>0, <1>5, MaxRequestsAssumption DEF CommunicatorDidFail, InTurn, TypeOK
  <2>2. ~OnScreen /\ ~(gdt.phase = "loading" /\ adapter.attached)
    BY <1>0, <2>1, LoadingInTurn
  <2>3. /\ ~ready' /\ ~loading' /\ adapter' = adapter /\ gdt' = gdt
        /\ OnScreen' = OnScreen
    BY <1>5 DEF CommunicatorDidFail, OnScreen
  <2> QED BY <1>0, <2>1, <2>2, <2>3 DEF InTurn
<1>6. CASE Timeout
  BY <1>0, <1>6, TimeoutInTurn
<1>7. CASE GDTSuccessToLoad
  BY <1>0, <1>7, SuccessInTurn
<1>8. CASE GDTFails
  BY <1>0, <1>8, FailsInTurn
<1>9. CASE GDTWillPresent \/ GDTDidPresent
  <2>1. OnScreen /\ gdt'.phase \in OnScreenPhases /\ gdt'.phase # "loading"
        /\ gdt.phase # "loading"
    BY <1>9, AdMoves DEF OnScreen, OnScreenPhases
  <2>2. /\ adapter'.attached = adapter.attached
        /\ adapter'.timeoutTimer = adapter.timeoutTimer
    BY <1>9, BillingSteps DEF GDTWillPresent
  <2>3. requests' = requests /\ ready' = ready /\ loading' = loading
    BY <1>9 DEF GDTWillPresent, GDTDidPresent, PassOn, managerVars
  <2> QED BY <1>0, <2>1, <2>2, <2>3 DEF InTurn
<1>10. CASE GDTClicked
  BY <1>0, <1>10, BillingSteps
     DEF GDTClicked, PassOn, managerVars, InTurn, OnScreen
<1>11. CASE GDTDidDismiss \/ GDTDidDismissAndAppLoads
  BY <1>0, <1>11, DismissInTurn
<1>12. CASE GDTExpires
  <2>1. /\ gdt'.phase = gdt.phase /\ adapter' = adapter
        /\ requests' = requests /\ ready' = ready /\ loading' = loading
    BY <1>12, AdMoves DEF GDTExpires, managerVars
  <2> QED BY <1>0, <2>1 DEF InTurn, OnScreen
<1> QED
  BY <1>1, <1>2, <1>3, <1>4, <1>5, <1>6, <1>7, <1>8, <1>9, <1>10, <1>11,
     <1>12 DEF Next, AppCalls, ServerAnswers, GDTCallbacks

LEMMA AlwaysInTurn == Spec => [](TypeOK /\ AdInv /\ WaitInv /\ TurnInv)
<1>1. ASSUME Init PROVE WaitInv /\ InTurn
  <2>1. /\ requests = 0 /\ ~loading /\ ~ready
        /\ gdt.phase # "loading" /\ ~OnScreen
    BY <1>1, RecordValues DEF Init, OnScreen, OnScreenPhases
  <2> QED BY <2>1 DEF WaitInv, InTurn
<1>2. Init => WaitInv /\ TurnInv
  BY <1>1 DEF TurnInv
<1> QED BY <1>2, AlwaysAdInv, WaitStep, TurnStep, PTL DEF Spec

\* Something is always due that ends the load under way, and until an adapter
\* reports a failure out of turn it is one thing only.
THEOREM InterstitialAnswerDue == Spec => []OneAnswerDue
<1>1. WaitInv /\ TurnInv => OneAnswerDue
  BY DEF WaitInv, TurnInv, InTurn, OneAnswerDue
<1> QED BY <1>1, AlwaysInTurn, PTL

\* Until an adapter reports a failure out of turn, a ready interstitial is the
\* loaded ad of an adapter that is listened to, and no load will replace it.
THEOREM InterstitialReadyIsLoaded == Spec => []ReadyMeansLoaded
<1>1. TurnInv => ReadyMeansLoaded
  BY DEF TurnInv, InTurn, ReadyMeansLoaded
<1> QED BY <1>1, AlwaysInTurn, PTL

\* In turn, an ad on screen stays there, heard and ready, until it disappears.
LEMMA OnScreenStep ==
    ASSUME TypeOK, AdInv, TurnInv, Next, ~strayed', OnScreen
    PROVE  \/ gdt'.phase \in OnScreenPhases /\ ready' /\ adapter'.attached
           \/ "didDisappear" \in io'
<1>0. InTurn
  BY StrayStays DEF TurnInv
<1>1. /\ ready /\ adapter.attached /\ ~adapter.timeoutTimer /\ ~loading
      /\ requests = 0
  BY <1>0, MaxRequestsAssumption DEF InTurn, TypeOK
<1>2. CASE LoadWhenReady \/ GDTInforms
  BY <1>1, <1>2
     DEF LoadWhenReady, GDTInforms, PassOn, managerVars, OnScreen
<1>3. CASE Load \/ CommunicatorDidReceive \/ CommunicatorDidFail \/ Timeout
  BY <1>1, <1>3
     DEF Load, CommunicatorDidReceive, CommunicatorDidFail, Timeout
<1>4. CASE Show
  BY <1>0, <1>4, ShowInTurn DEF OnScreen, OnScreenPhases
<1>5. CASE GDTSuccessToLoad \/ GDTExpires
  BY <1>5 DEF GDTSuccessToLoad, GDTExpires, OnScreen, OnScreenPhases
<1>6. CASE GDTFails
  BY <1>0, <1>1, <1>6, FailToLoadInTurn DEF GDTFails
<1>7. CASE GDTWillPresent \/ GDTDidPresent
  <2>1. gdt'.phase \in OnScreenPhases
    BY <1>7, AdMoves DEF OnScreenPhases
  <2>2. ready' = ready /\ adapter'.attached = adapter.attached
    BY <1>7, BillingSteps
       DEF GDTWillPresent, GDTDidPresent, PassOn, managerVars
  <2> QED BY <1>1, <2>1, <2>2
<1>8. CASE GDTClicked
  BY <1>1, <1>8, BillingSteps DEF GDTClicked, PassOn, managerVars, OnScreen
<1>9. CASE GDTDidDismiss \/ GDTDidDismissAndAppLoads
  BY <1>1, <1>9 DEF GDTDidDismiss, GDTDidDismissAndAppLoads, DidDisappear
<1> QED
  BY <1>2, <1>3, <1>4, <1>5, <1>6, <1>7, <1>8, <1>9
     DEF Next, AppCalls, ServerAnswers, GDTCallbacks

\* Unless an adapter reports a failure out of turn, an ad on screen leaves it
\* only with didDisappear, and until then it is ready and heard.
THEOREM InterstitialOnScreenIsKept == Spec => OnScreenAdIsKept
<1>1. TypeOK /\ AdInv /\ TurnInv /\ [Next]_vars
        => [~strayed' /\ OnScreen =>
              \/ gdt'.phase \in OnScreenPhases /\ ready' /\ adapter'.attached
              \/ "didDisappear" \in io']_vars
  BY OnScreenStep
<1> QED BY <1>1, AlwaysInTurn, PTL DEF Spec, OnScreenAdIsKept

\* What a step may tell and change: outcomes told outside a load call end the
\* load under way, and ready changes only when the app is told.
Due ==
    /\ io' \cap Answers # {} /\ "load" \notin io'
         => loading /\ ~loading' /\ (ready' <=> "didLoad" \in io')
    /\ ready' # ready => io' \cap (Answers \cup {"didDisappear"}) # {}

\* A step that tells no outcome and leaves ready alone.
LEMMA QuietDue ==
    ASSUME ready' = ready, io' \cap Answers = {} PROVE Due
BY DEF Due

\* A walk of the load under way.
LEMMA WalkDue ==
    ASSUME NEW kept, NEW ad, WalkOutcome(kept, ad, {}), loading, ~ready,
           ready \in BOOLEAN
    PROVE  Due
<1>1. CASE ready' = ready /\ io' = {}
  BY <1>1 DEF Due
<1>2. CASE /\ ready' = ready \/ ready' = FALSE
           /\ loading' = FALSE /\ io' = {} \cup {"didFailToLoad"}
  <2>0. ready = FALSE
    OBVIOUS
  <2>1. ~ready' /\ ~loading' /\ ready' = ready
    BY <1>2, <2>0
  <2>2. "didLoad" \notin io'
    BY <1>2
  <2> QED BY <2>1, <2>2 DEF Due
<1> QED BY <1>1, <1>2 DEF WalkOutcome

LEMMA DueStep ==
    ASSUME TypeOK, AdInv, TurnInv, Next, ~strayed'
    PROVE  Due
<1>0. InTurn
  BY StrayStays DEF TurnInv
<1>1. CASE LoadWhenReady \/ Load
  BY <1>1 DEF LoadWhenReady, Load, managerVars, Due
<1>2. CASE Show
  <2>1. ready' = ready /\ io' = {"show"}
    BY <1>0, <1>2, ShowInTurn DEF managerVars
  <2> QED BY <2>1, QuietDue DEF Answers
<1>3. CASE CommunicatorDidReceive
  <2>1. loading /\ ~ready
    BY <1>0, <1>3, MaxRequestsAssumption
       DEF CommunicatorDidReceive, InTurn, TypeOK
  <2> QED BY <1>3, <2>1, Walks, WalkDue DEF TypeOK
<1>4. CASE CommunicatorDidFail
  <2>1. loading /\ ~ready
    BY <1>0, <1>4, MaxRequestsAssumption DEF CommunicatorDidFail, InTurn, TypeOK
  <2>2. ~ready' /\ ~loading' /\ io' = {"didFailToLoad"}
    BY <1>4 DEF CommunicatorDidFail
  <2> QED BY <2>1, <2>2 DEF Due, Answers
<1>5. CASE Timeout
  <2>1. CASE WalkOutcome(CutOff, gdt, {}) /\ NoteStray
    <3>1. loading
      BY <2>1, NotedInTurn
    <3> QED BY <1>0, <2>1, <3>1, LoadingInTurn, WalkDue DEF TypeOK
  <2>2. CASE io' = {} /\ UNCHANGED managerVars
    BY <2>2, QuietDue DEF managerVars
  <2> QED BY <1>5, <2>1, <2>2, Walks
<1>6. CASE GDTSuccessToLoad
  <2>1. CASE adapter.attached
    <3>1. loading
      BY <1>0, <1>6, <2>1 DEF GDTSuccessToLoad, InTurn
    <3>2. ready' /\ ~loading' /\ io' = {"didLoad"}
      BY <1>6, <2>1 DEF GDTSuccessToLoad
    <3> QED BY <3>1, <3>2 DEF Due, Answers
  <2>2. CASE ~adapter.attached
    BY <1>6, <2>2, QuietDue DEF GDTSuccessToLoad, managerVars
  <2> QED BY <2>1, <2>2
<1>7. CASE GDTFails
  <2>1. CASE adapter.attached
    <3>1. /\ loading /\ ~ready
          /\ WalkOutcome(DidStopLoading(adapter), DeadAd, {})
      BY <1>0, <1>7, <2>1, FailToLoadInTurn DEF GDTFails
    <3> QED BY <3>1, WalkDue DEF TypeOK
  <2>2. CASE ~adapter.attached
    BY <1>7, <2>2, QuietDue DEF GDTFails, FailToLoad, managerVars
  <2> QED BY <2>1, <2>2
<1>8. CASE GDTWillPresent \/ GDTDidPresent \/ GDTClicked \/ GDTInforms
  <2>1. /\ ready' = ready
        /\ io' \in {{}, {"willAppear"}, {"didAppear"}, {"tap"},
                    {"willPresentModal"}}
    BY <1>8 DEF GDTWillPresent, GDTDidPresent, GDTClicked, GDTInforms, PassOn,
                managerVars
  <2> QED BY <2>1, QuietDue DEF Answers
<1>9. CASE GDTDidDismiss \/ GDTDidDismissAndAppLoads
  <2>1. OnScreen
    BY <1>9
       DEF GDTDidDismiss, GDTDidDismissAndAppLoads, OnScreen, OnScreenPhases
  <2>2. ready /\ adapter.attached
    BY <1>0, <2>1 DEF InTurn
  <2>3. io' = {"willDisappear"} \cup {"didDisappear"} \/ "load" \in io'
    BY <1>9, <2>2
       DEF GDTDidDismiss, GDTDidDismissAndAppLoads, DidDisappear
  <2>4. "didDisappear" \in io'
    BY <1>9, <2>2
       DEF GDTDidDismiss, GDTDidDismissAndAppLoads, DidDisappear
  <2> QED BY <2>3, <2>4 DEF Due, Answers
<1>10. CASE GDTExpires
  BY <1>10, QuietDue DEF GDTExpires, managerVars
<1> QED
  BY <1>1, <1>2, <1>3, <1>4, <1>5, <1>6, <1>7, <1>8, <1>9, <1>10
     DEF Next, AppCalls, ServerAnswers, GDTCallbacks

\* Until an adapter reports a failure out of turn, an outcome told outside a
\* load call ends the load under way, and ready changes only when the app is
\* told.
THEOREM InterstitialAnswersAreDue == Spec => AnswersAreDue
<1>1. TypeOK /\ AdInv /\ TurnInv /\ [Next]_vars => [~strayed' => Due]_vars
  BY DueStep
<1> QED BY <1>1, AlwaysInTurn, PTL DEF Spec, AnswersAreDue, Due
=============================================================================
