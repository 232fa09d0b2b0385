--------------------- MODULE MobiGDTRewardedVideo_proofs ---------------------
(***************************************************************************)
(* Proofs about MobiGDTRewardedVideo for every length of the waterfall and *)
(* both kinds of client.                                                   *)
(*                                                                         *)
(* The walk over the waterfall is the only part of the model that looks at *)
(* sequences: WalkOutcomes says once what it can do, and the invariance    *)
(* proofs use that instead of the definition of Walk.                      *)
(***************************************************************************)
EXTENDS MobiGDTRewardedVideo, MobiWaterfall_proofs, TLAPS

\* What a walk leaves behind: the load has failed, or a new request is out.
WalkOutcome(kept) ==
    /\ playedAd' = playedAd
    /\ remaining' \in Seq(Kinds) /\ Len(remaining') < MaxConfigs
    /\ \/ /\ ready' \in {ready, FALSE}
          /\ loading' = FALSE
          /\ io' = {"didFailToLoad"}
          /\ \/ adapter' = kept /\ gdt' = gdt
             \/ adapter' = RefusedAdapter /\ gdt' = NoAd
       \/ /\ ready' = ready
          /\ loading' = loading
          /\ io' = {}
          /\ adapter' = NewAdapter /\ gdt' = RequestedAd

\* Walk, whatever list it starts from, has one of the outcomes above.
LEMMA WalkOutcomes ==
    ASSUME NEW cs \in Seq(Kinds), Len(cs) <= MaxConfigs, NEW kept,
           loading \in BOOLEAN, Walk(cs, kept)
    PROVE  WalkOutcome(kept)
<1>1. CASE /\ Exhausted(cs)
           /\ ready' = FALSE
           /\ loading' = FALSE
           /\ remaining' = <<>>
           /\ adapter' = IF cs = <<>> THEN kept ELSE RefusedAdapter
           /\ gdt' = IF cs = <<>> THEN gdt ELSE NoAd
           /\ io' = {"didFailToLoad"}
  <2>1. remaining' \in Seq(Kinds) /\ Len(remaining') < MaxConfigs
    BY <1>1, NothingLeft
  <2>2. QED
    BY <1>1, <2>1 DEF Walk, WalkOutcome
<1>2. ASSUME NEW k \in 1..Len(cs),
             remaining' = Rest(cs, k),
             ready' = ready,
             \/ /\ cs[k] = "stop"
                /\ loading' = FALSE
                /\ adapter' = IF k = 1 THEN kept ELSE RefusedAdapter
                /\ gdt' = IF k = 1 THEN gdt ELSE NoAd
                /\ io' = {"didFailToLoad"}
             \/ /\ cs[k] = "gdt"
                /\ adapter' = NewAdapter
                /\ gdt' = RequestedAd
                /\ io' = {}
                /\ UNCHANGED loading
      PROVE  WalkOutcome(kept)
  <2>1. remaining' \in Seq(Kinds) /\ Len(remaining') < MaxConfigs
    BY <1>2, RestType, MaxConfigsAssumption
  <2>2. QED
    BY <1>2, <2>1 DEF Walk, WalkOutcome
<1>3. QED
  BY <1>1, <1>2 DEF Walk

----------------------------------------------------------------------------
(* Types.                                                                  *)

\* The records a load starts from have their types.
LEMMA RecordTypes ==
    /\ NewAdapter \in Adapters /\ RefusedAdapter \in Adapters
    /\ NoAd \in Ads /\ RequestedAd \in Ads
BY DEF NewAdapter, RefusedAdapter, Adapters, NoAd, RequestedAd, Ads, Phases

\* A walk that starts from typed values ends in typed values.
LEMMA WalkType ==
    ASSUME TypeOK, NEW kept \in Adapters, WalkOutcome(kept),
           comm' \in {"none", "idle", "request"}
    PROVE  TypeOK'
BY RecordTypes DEF TypeOK, WalkOutcome

\* Expiry, as any handler reports it, changes values within their types.
LEMMA DidExpireType ==
    ASSUME TypeOK, NEW a \in Adapters, DidExpire(a), gdt' \in Ads,
           comm' = comm
    PROVE  TypeOK'
<1>1. adapter' \in Adapters
  BY DEF DidExpire, Adapters
<1>2. QED
  BY <1>1 DEF TypeOK, DidExpire

\* Every step keeps every variable in its type.
LEMMA TypeStep ==
    TypeOK /\ [Next]_vars => TypeOK'
<1> SUFFICES ASSUME TypeOK, [Next]_vars
             PROVE  TypeOK'
  OBVIOUS
<1>1. CASE LoadWhenReady \/ Load \/ ShowRefused
  BY <1>1 DEF TypeOK, LoadWhenReady, Load, ShowRefused, managerVars
<1>2. CASE Show
  BY <1>2 DEF TypeOK, Show, DidFailToPlay, managerVars, Ads, Phases
<1>3. CASE HandleAdPlayed
  BY <1>3, DidExpireType DEF HandleAdPlayed, TypeOK
<1>4. CASE CommunicatorDidReceive
  <2>1. PICK cs \in Configs : Walk(cs, adapter)
    BY <1>4 DEF CommunicatorDidReceive
  <2>2. WalkOutcome(adapter)
    BY <2>1, ConfigsType, WalkOutcomes DEF TypeOK
  <2>3. QED
    BY <1>4, <2>2, WalkType DEF CommunicatorDidReceive, TypeOK
<1>5. CASE CommunicatorDidFail
  BY <1>5 DEF TypeOK, CommunicatorDidFail
<1>6. CASE Timeout
  <2> DEFINE kept == [adapter EXCEPT !.timeoutTimer = FALSE,
                                     !.attached = FALSE]
  <2>1. kept \in Adapters
    BY DEF TypeOK, Adapters
  <2>2. Len(remaining) <= MaxConfigs
    BY MaxConfigsAssumption DEF TypeOK
  <2>3. WalkOutcome(kept)
    BY <1>6, <2>2, WalkOutcomes DEF Timeout, TypeOK
  <2>4. QED
    BY <1>6, <2>1, <2>3, WalkType DEF Timeout, TypeOK
<1>7. CASE ExpirationTimerFires
  <2>1. [adapter EXCEPT !.expirationTimer = FALSE] \in Adapters
    BY DEF TypeOK, Adapters
  <2>2. QED
    BY <1>7, <2>1, DidExpireType DEF ExpirationTimerFires, TypeOK
<1>8. CASE GDTDidLoad
  <2>1. adapter' \in Adapters /\ gdt' \in Ads
    BY <1>8 DEF GDTDidLoad, DidStopLoading, TypeOK, Adapters, Ads, Phases
  <2>2. remaining' \in Seq(Kinds) /\ Len(remaining') < MaxConfigs
    BY <1>8, NothingLeft DEF GDTDidLoad, TypeOK
  <2>3. QED
    BY <1>8, <2>1, <2>2 DEF GDTDidLoad, TypeOK
<1>9. CASE GDTVideoDidLoad
  <2>1. gdt' \in Ads
    BY <1>9 DEF GDTVideoDidLoad, TypeOK, Ads
  <2>2. CASE gdt.stale \/ ~gdt.adValid
    BY <1>9, <2>1, <2>2, DidExpireType DEF GDTVideoDidLoad, TypeOK
  <2>3. CASE ~(gdt.stale \/ ~gdt.adValid)
    BY <1>9, <2>1, <2>3 DEF GDTVideoDidLoad, PassOn, managerVars, TypeOK
  <2>4. QED
    BY <2>2, <2>3
<1>10. CASE GDTWillVisible
  BY <1>10 DEF GDTWillVisible, PassOn, managerVars, TypeOK, Ads, Phases
<1>11. CASE GDTDidExposed
  <2>1. adapter.impressions + 1 \in Nat
    BY DEF TypeOK, Adapters
  <2>2. adapter' \in Adapters
    BY <1>11, <2>1 DEF GDTDidExposed, TypeOK, Adapters
  <2>3. gdt' \in Ads
    BY <1>11 DEF GDTDidExposed, TypeOK, Ads, Phases
  <2>4. QED
    BY <1>11, <2>2, <2>3 DEF GDTDidExposed, PassOn, managerVars, TypeOK
<1>12. CASE GDTDidClicked
  <2>1. adapter.clicks + 1 \in Nat
    BY DEF TypeOK, Adapters
  <2>2. adapter' \in Adapters
    BY <1>12, <2>1 DEF GDTDidClicked, TypeOK, Adapters
  <2>3. QED
    BY <1>12, <2>2 DEF GDTDidClicked, PassOn, managerVars, TypeOK
<1>13. CASE GDTDidClose
  BY <1>13 DEF GDTDidClose, TypeOK, Ads, Phases
<1>14. CASE GDTDidFail
  <2>1. gdt' \in Ads
    BY <1>14 DEF GDTDidFail, TypeOK, Ads, Phases
  <2>2. QED
    BY <1>14, <2>1 DEF GDTDidFail, DidFailToPlay, TypeOK
<1>15. CASE GDTDidRewardEffective \/ GDTExpires
  <2>1. gdt' \in Ads
    BY <1>15 DEF GDTDidRewardEffective, GDTExpires, TypeOK, Ads
  <2>2. QED
    BY <1>15, <2>1
    DEF GDTDidRewardEffective, GDTExpires, managerVars, TypeOK
<1>16. CASE UNCHANGED vars
  BY <1>16 DEF vars, TypeOK
<1>17. QED
  BY <1>1, <1>2, <1>3, <1>4, <1>5, <1>6, <1>7, <1>8, <1>9, <1>10, <1>11,
     <1>12, <1>13, <1>14, <1>15, <1>16
  DEF Next, AppCalls, ServerAnswers, GDTCallbacks

\* Type correctness: in every reachable state every variable has its type,
\* and the manager's list no longer holds the configuration being fetched.
THEOREM TypeCorrect == Spec => []TypeOK
<1>1. Init => TypeOK
  BY RecordTypes, NothingLeft
  DEF Init, TypeOK, RefusedAdapter, NewAdapter, Adapters
<1>2. QED
  BY <1>1, TypeStep, PTL DEF Spec

\* The field values of the records a load starts from.
LEMMA RecordValues ==
    /\ NewAdapter.attached = TRUE /\ NewAdapter.timeoutTimer = TRUE
    /\ RefusedAdapter.attached = TRUE /\ RefusedAdapter.timeoutTimer = FALSE
    /\ \A a \in {NewAdapter, RefusedAdapter} :
         /\ a.expirationTimer = FALSE /\ a.hasSuccessfullyLoaded = FALSE
         /\ a.hasTrackedImpression = FALSE /\ a.impressions = 0
         /\ a.hasTrackedClick = FALSE /\ a.clicks = 0
         /\ a.hasExpired = FALSE
    /\ NoAd.phase = "none" /\ NoAd.adValid = FALSE
    /\ RequestedAd.phase = "loading" /\ RequestedAd.adValid = FALSE
BY DEF NewAdapter, RefusedAdapter, NoAd, RequestedAd

\* DidExpire marks the adapter as expired and touches nothing else of it.
LEMMA DidExpireKeeps ==
    ASSUME TypeOK, NEW a \in Adapters, DidExpire(a)
    PROVE  /\ adapter' \in Adapters
           /\ adapter'.attached = a.attached
           /\ adapter'.timeoutTimer = a.timeoutTimer
           /\ adapter'.expirationTimer = a.expirationTimer
           /\ adapter'.hasSuccessfullyLoaded = a.hasSuccessfullyLoaded
           /\ adapter'.hasTrackedImpression = a.hasTrackedImpression
           /\ adapter'.impressions = a.impressions
           /\ adapter'.hasTrackedClick = a.hasTrackedClick
           /\ adapter'.clicks = a.clicks
           /\ adapter'.hasExpired = TRUE
           /\ loading' = loading /\ playedAd' = playedAd
BY DEF DidExpire, Adapters

----------------------------------------------------------------------------
(* Loading, showing and billing an ad go together.                         *)

\* GDT vouches only for an ad that is loaded and not yet shown; an ad that
\* can be seen was loaded through its adapter; impressions and clicks are
\* counted with their flags, and the first impression ends the expiry timer.
AdInv ==
    /\ gdt.adValid => gdt.phase = "loaded"
    /\ gdt.phase \in {"loaded", "closed"} \cup OnScreenPhases
         => adapter.hasSuccessfullyLoaded
    /\ adapter.expirationTimer \/ adapter.hasTrackedImpression
         => adapter.hasSuccessfullyLoaded
    /\ adapter.hasTrackedImpression => ~adapter.expirationTimer
    /\ adapter.impressions = IF adapter.hasTrackedImpression THEN 1 ELSE 0
    /\ adapter.clicks = IF adapter.hasTrackedClick THEN 1 ELSE 0

\* A walk keeps AdInv if the adapter it may keep satisfies it.
LEMMA WalkAdInv ==
    ASSUME TypeOK, AdInv, NEW kept \in Adapters, WalkOutcome(kept),
           kept.expirationTimer = adapter.expirationTimer,
           kept.hasSuccessfullyLoaded = adapter.hasSuccessfullyLoaded,
           kept.hasTrackedImpression = adapter.hasTrackedImpression,
           kept.impressions = adapter.impressions,
           kept.hasTrackedClick = adapter.hasTrackedClick,
           kept.clicks = adapter.clicks
    PROVE  AdInv'
<1>1. CASE adapter' = kept /\ gdt' = gdt
  BY <1>1 DEF AdInv
<1>2. CASE adapter' \in {NewAdapter, RefusedAdapter}
           /\ gdt' \in {NoAd, RequestedAd}
  BY <1>2, RecordValues DEF AdInv, OnScreenPhases
<1>3. QED
  BY <1>1, <1>2 DEF WalkOutcome

\* AdInv is inductive relative to the types.
LEMMA AdInvStep ==
    TypeOK /\ AdInv /\ [Next]_vars => AdInv'
<1> SUFFICES ASSUME TypeOK, AdInv, [Next]_vars
             PROVE  AdInv'
  OBVIOUS
<1>1. CASE LoadWhenReady \/ Load \/ ShowRefused \/ CommunicatorDidFail
  BY <1>1 DEF AdInv, LoadWhenReady, Load, ShowRefused, CommunicatorDidFail
<1>2. CASE Show
  <2>1. adapter' = adapter
    BY <1>2 DEF Show, DidFailToPlay
  <2>2. CASE gdt' = gdt
    BY <2>1, <2>2 DEF AdInv
  <2>3. CASE /\ gdt.adValid
             /\ gdt' = [gdt EXCEPT !.phase = "presented", !.adValid = FALSE]
    <3>1. gdt'.phase = "presented" /\ gdt'.adValid = FALSE
      BY <2>3 DEF TypeOK, Ads
    <3>2. adapter.hasSuccessfullyLoaded
      BY <2>3 DEF AdInv
    <3>3. QED
      BY <2>1, <3>1, <3>2 DEF AdInv
  <2>4. QED
    BY <1>2, <2>2, <2>3 DEF Show
<1>3. CASE HandleAdPlayed
  BY <1>3, DidExpireKeeps DEF HandleAdPlayed, TypeOK, AdInv
<1>4. CASE CommunicatorDidReceive
  <2>1. PICK cs \in Configs : Walk(cs, adapter)
    BY <1>4 DEF CommunicatorDidReceive
  <2>2. WalkOutcome(adapter)
    BY <2>1, ConfigsType, WalkOutcomes DEF TypeOK
  <2>3. QED
    BY <2>2, WalkAdInv DEF TypeOK
<1>5. CASE Timeout
  <2> DEFINE kept == [adapter EXCEPT !.timeoutTimer = FALSE,
                                     !.attached = FALSE]
  <2>1. /\ kept \in Adapters
        /\ kept.expirationTimer = adapter.expirationTimer
        /\ kept.hasSuccessfullyLoaded = adapter.hasSuccessfullyLoaded
        /\ kept.hasTrackedImpression = adapter.hasTrackedImpression
        /\ kept.impressions = adapter.impressions
        /\ kept.hasTrackedClick = adapter.hasTrackedClick
        /\ kept.clicks = adapter.clicks
    BY DEF TypeOK, Adapters
  <2>2. Len(remaining) <= MaxConfigs
    BY MaxConfigsAssumption DEF TypeOK
  <2>3. WalkOutcome(kept)
    BY <1>5, <2>2, WalkOutcomes DEF Timeout, TypeOK
  <2> HIDE DEF kept
  <2>4. QED
    BY <2>1, <2>3, WalkAdInv
<1>6. CASE ExpirationTimerFires
  <2> DEFINE a == [adapter EXCEPT !.expirationTimer = FALSE]
  <2>1. /\ a \in Adapters
        /\ a.expirationTimer = FALSE
        /\ a.hasSuccessfullyLoaded = adapter.hasSuccessfullyLoaded
        /\ a.hasTrackedImpression = adapter.hasTrackedImpression
        /\ a.impressions = adapter.impressions
        /\ a.hasTrackedClick = adapter.hasTrackedClick
        /\ a.clicks = adapter.clicks
    BY DEF TypeOK, Adapters
  <2>2. DidExpire(a) /\ gdt' = gdt
    BY <1>6 DEF ExpirationTimerFires
  <2> HIDE DEF a
  <2>3. QED
    BY <2>1, <2>2, DidExpireKeeps DEF AdInv
<1>7. CASE GDTDidLoad
  <2>1. gdt'.phase = "loaded"
    BY <1>7 DEF GDTDidLoad, TypeOK, Ads
  <2>2. CASE adapter.hasSuccessfullyLoaded
    BY <1>7, <2>1, <2>2 DEF GDTDidLoad, AdInv
  <2>3. CASE ~adapter.hasSuccessfullyLoaded
    <3>1. /\ adapter'.hasSuccessfullyLoaded = TRUE
          /\ adapter'.hasTrackedImpression = adapter.hasTrackedImpression
          /\ adapter'.impressions = adapter.impressions
          /\ adapter'.hasTrackedClick = adapter.hasTrackedClick
          /\ adapter'.clicks = adapter.clicks
      BY <1>7, <2>3 DEF GDTDidLoad, DidStopLoading, TypeOK, Adapters
    <3>2. ~adapter.hasTrackedImpression
      BY <2>3 DEF AdInv
    <3>3. QED
      BY <2>1, <3>1, <3>2 DEF AdInv
  <2>4. QED
    BY <2>2, <2>3
<1>8. CASE GDTVideoDidLoad
  <2>1. gdt'.phase = gdt.phase /\ gdt'.adValid = gdt.adValid
    BY <1>8 DEF GDTVideoDidLoad, TypeOK, Ads
  <2>2. CASE DidExpire(adapter)
    BY <2>1, <2>2, DidExpireKeeps DEF TypeOK, AdInv
  <2>3. CASE adapter' = adapter
    BY <2>1, <2>3 DEF AdInv
  <2>4. QED
    BY <1>8, <2>2, <2>3 DEF GDTVideoDidLoad
<1>9. CASE GDTWillVisible
  <2>1. gdt'.phase = "visible" /\ gdt'.adValid = gdt.adValid
    BY <1>9 DEF GDTWillVisible, TypeOK, Ads
  <2>2. adapter' = adapter /\ gdt.phase = "presented"
    BY <1>9 DEF GDTWillVisible
  <2>3. QED
    BY <2>1, <2>2 DEF AdInv, OnScreenPhases
<1>10. CASE GDTDidExposed
  <2>1. gdt'.phase = "exposed" /\ gdt'.adValid = gdt.adValid
    BY <1>10 DEF GDTDidExposed, TypeOK, Ads
  <2>2. gdt.phase \in OnScreenPhases /\ gdt.phase # "loaded"
    BY <1>10 DEF GDTDidExposed, OnScreenPhases
  <2>3. CASE adapter.hasTrackedImpression
    BY <1>10, <2>1, <2>2, <2>3 DEF GDTDidExposed, AdInv
  <2>4. CASE ~adapter.hasTrackedImpression
    <3>1. /\ adapter'.hasSuccessfullyLoaded = adapter.hasSuccessfullyLoaded
          /\ adapter'.hasTrackedImpression = TRUE
          /\ adapter'.expirationTimer = FALSE
          /\ adapter'.impressions = adapter.impressions + 1
          /\ adapter'.hasTrackedClick = adapter.hasTrackedClick
          /\ adapter'.clicks = adapter.clicks
      BY <1>10, <2>4 DEF GDTDidExposed, TypeOK, Adapters
    <3>2. QED
      BY <2>1, <2>2, <2>4, <3>1 DEF AdInv
  <2>5. QED
    BY <2>3, <2>4
<1>11. CASE GDTDidClicked
  <2>1. CASE adapter.hasTrackedClick
    BY <1>11, <2>1 DEF GDTDidClicked, AdInv
  <2>2. CASE ~adapter.hasTrackedClick
    <3>1. /\ adapter'.hasSuccessfullyLoaded = adapter.hasSuccessfullyLoaded
          /\ adapter'.hasTrackedImpression = adapter.hasTrackedImpression
          /\ adapter'.expirationTimer = adapter.expirationTimer
          /\ adapter'.impressions = adapter.impressions
          /\ adapter'.hasTrackedClick = TRUE
          /\ adapter'.clicks = adapter.clicks + 1
      BY <1>11, <2>2 DEF GDTDidClicked, TypeOK, Adapters
    <3>2. QED
      BY <1>11, <2>2, <3>1 DEF GDTDidClicked, AdInv
  <2>3. QED
    BY <2>1, <2>2
<1>12. CASE GDTDidClose
  <2>1. gdt'.phase = "closed" /\ gdt'.adValid = gdt.adValid
    BY <1>12 DEF GDTDidClose, TypeOK, Ads
  <2>2. adapter' = adapter /\ gdt.phase \in OnScreenPhases
    BY <1>12 DEF GDTDidClose, OnScreenPhases
  <2>3. QED
    BY <1>12, <2>1, <2>2 DEF GDTDidClose, AdInv
<1>13. CASE GDTDidFail
  <2>1. adapter' = adapter
    BY <1>13 DEF GDTDidFail, DidFailToPlay
  <2>2. /\ gdt'.phase \in {gdt.phase, "failed"}
        /\ gdt'.adValid => gdt.adValid /\ gdt'.phase = gdt.phase
    BY <1>13 DEF GDTDidFail, TypeOK, Ads, AdInv, OnScreenPhases
  <2>3. QED
    BY <2>1, <2>2 DEF AdInv, OnScreenPhases
<1>14. CASE GDTDidRewardEffective \/ GDTExpires
  <2>1. gdt'.phase = gdt.phase /\ (gdt'.adValid => gdt.adValid)
    BY <1>14 DEF GDTDidRewardEffective, GDTExpires, TypeOK, Ads
  <2>2. adapter' = adapter
    BY <1>14 DEF GDTDidRewardEffective, GDTExpires
  <2>3. QED
    BY <2>1, <2>2 DEF AdInv
<1>15. CASE UNCHANGED vars
  BY <1>15 DEF vars, AdInv
<1>16. QED
  BY <1>1, <1>2, <1>3, <1>4, <1>5, <1>6, <1>7, <1>8, <1>9, <1>10, <1>11,
     <1>12, <1>13, <1>14, <1>15
  DEF Next, AppCalls, ServerAnswers, GDTCallbacks

\* AdInv holds from the start, and so for ever.
LEMMA AdInvHolds == Spec => []AdInv
<1>1. Init => AdInv
  BY DEF Init, AdInv, RefusedAdapter, NewAdapter, NoAd, OnScreenPhases
<1>2. QED
  BY <1>1, TypeCorrect, AdInvStep, PTL DEF Spec

\* However often GDT reports an exposure or a click, at most one of each is
\* reported to the tracker, and an ad that has been seen does not expire.
THEOREM Billing == Spec => []BilledOnce
<1>1. AdInv => BilledOnce
  BY DEF AdInv, BilledOnce
<1>2. QED
  BY <1>1, AdInvHolds, PTL

----------------------------------------------------------------------------
(* A load always has exactly one thing that will end it.                   *)

\* A walk takes over from whatever was going to answer: it starts during a
\* load, with the server's answer in and no timer running.
LEMMA WalkAnswerDue ==
    ASSUME NEW kept, WalkOutcome(kept), loading = TRUE,
           kept.timeoutTimer = FALSE, comm' # "request",
           ~(kept.attached /\ gdt.phase = "loading")
    PROVE  OneAnswerDue'
<1>1. CASE loading' = FALSE /\ adapter' = kept /\ gdt' = gdt
  BY <1>1 DEF OneAnswerDue
<1>2. CASE loading' = FALSE /\ adapter' = RefusedAdapter /\ gdt' = NoAd
  BY <1>2, RecordValues DEF OneAnswerDue
<1>3. CASE loading' = loading /\ adapter' = NewAdapter /\ gdt' = RequestedAd
  BY <1>3, RecordValues DEF OneAnswerDue
<1>4. QED
  BY <1>1, <1>2, <1>3 DEF WalkOutcome

\* OneAnswerDue is inductive relative to the types and AdInv, which excludes
\* a second first load of the same adapter.
LEMMA OneAnswerDueStep ==
    TypeOK /\ AdInv /\ OneAnswerDue /\ [Next]_vars => OneAnswerDue'
<1> SUFFICES ASSUME TypeOK, AdInv, OneAnswerDue, [Next]_vars
             PROVE  OneAnswerDue'
  OBVIOUS
<1>1. CASE LoadWhenReady \/ Load \/ ShowRefused
  BY <1>1
  DEF TypeOK, OneAnswerDue, LoadWhenReady, Load, ShowRefused, managerVars
<1>2. CASE Show
  <2>1. UNCHANGED <<loading, comm, adapter>>
    BY <1>2 DEF Show, DidFailToPlay, managerVars
  <2>2. gdt' = gdt \/ gdt'.phase = "presented"
    BY <1>2 DEF Show, TypeOK, Ads
  <2>3. QED
    BY <2>1, <2>2 DEF OneAnswerDue
<1>3. CASE HandleAdPlayed
  BY <1>3, DidExpireKeeps DEF HandleAdPlayed, TypeOK, OneAnswerDue
<1>4. CASE CommunicatorDidReceive
  <2>1. PICK cs \in Configs : Walk(cs, adapter)
    BY <1>4 DEF CommunicatorDidReceive
  <2>2. WalkOutcome(adapter)
    BY <2>1, ConfigsType, WalkOutcomes DEF TypeOK
  <2>3. /\ loading = TRUE /\ adapter.timeoutTimer = FALSE
        /\ ~(adapter.attached /\ gdt.phase = "loading")
    BY <1>4 DEF CommunicatorDidReceive, TypeOK, Adapters, OneAnswerDue
  <2>4. QED
    BY <1>4, <2>2, <2>3, WalkAnswerDue DEF CommunicatorDidReceive
<1>5. CASE CommunicatorDidFail
  BY <1>5 DEF TypeOK, OneAnswerDue, CommunicatorDidFail
<1>6. CASE Timeout
  <2> DEFINE kept == [adapter EXCEPT !.timeoutTimer = FALSE,
                                     !.attached = FALSE]
  <2>1. kept.timeoutTimer = FALSE /\ kept.attached = FALSE
    BY DEF TypeOK, Adapters
  <2>2. Len(remaining) <= MaxConfigs
    BY MaxConfigsAssumption DEF TypeOK
  <2>3. WalkOutcome(kept)
    BY <1>6, <2>2, WalkOutcomes DEF Timeout, TypeOK
  <2> HIDE DEF kept
  <2>4. QED
    BY <1>6, <2>1, <2>3, WalkAnswerDue DEF Timeout, TypeOK, OneAnswerDue
<1>7. CASE ExpirationTimerFires
  <2> DEFINE a == [adapter EXCEPT !.expirationTimer = FALSE]
  <2>1. /\ a \in Adapters
        /\ a.attached = adapter.attached
        /\ a.timeoutTimer = adapter.timeoutTimer
    BY DEF TypeOK, Adapters
  <2>2. DidExpire(a) /\ UNCHANGED <<comm, gdt>>
    BY <1>7 DEF ExpirationTimerFires
  <2> HIDE DEF a
  <2>3. QED
    BY <2>1, <2>2, DidExpireKeeps DEF TypeOK, OneAnswerDue
<1>8. CASE GDTDidLoad
  <2>1. gdt'.phase = "loaded" /\ comm' = comm
    BY <1>8 DEF GDTDidLoad, TypeOK, Ads
  <2>2. CASE adapter.hasSuccessfullyLoaded
    <3>1. adapter' = adapter /\ loading' = loading
      BY <1>8, <2>2 DEF GDTDidLoad
    <3>2. QED
      BY <2>1, <3>1 DEF OneAnswerDue
  <2>3. CASE ~adapter.hasSuccessfullyLoaded
    <3>1. /\ adapter'.attached = adapter.attached
          /\ adapter'.timeoutTimer = FALSE
      BY <1>8, <2>3 DEF GDTDidLoad, DidStopLoading, TypeOK, Adapters
    <3>2. gdt.phase = "loading"
      BY <1>8, <2>3 DEF GDTDidLoad, AdInv
    <3>3. loading' = (loading /\ ~adapter.attached)
      BY <1>8, <2>3 DEF GDTDidLoad, TypeOK
    <3>4. QED
      BY <2>1, <3>1, <3>2, <3>3 DEF OneAnswerDue
  <2>4. QED
    BY <2>2, <2>3
<1>9. CASE GDTVideoDidLoad
  <2>1. gdt'.phase = gdt.phase
    BY <1>9 DEF GDTVideoDidLoad, TypeOK, Ads
  <2>2. /\ adapter'.attached = adapter.attached
        /\ adapter'.timeoutTimer = adapter.timeoutTimer
        /\ loading' = loading /\ comm' = comm
    BY <1>9, DidExpireKeeps
    DEF GDTVideoDidLoad, PassOn, managerVars, TypeOK
  <2>3. QED
    BY <2>1, <2>2 DEF OneAnswerDue
<1>10. CASE GDTWillVisible \/ GDTDidExposed \/ GDTDidClicked
  <2>1. /\ adapter'.attached = adapter.attached
        /\ adapter'.timeoutTimer = adapter.timeoutTimer
    BY <1>10
    DEF GDTWillVisible, GDTDidExposed, GDTDidClicked, TypeOK, Adapters
  <2>2. gdt'.phase # "loading" /\ loading' = loading /\ comm' = comm
    BY <1>10
    DEF GDTWillVisible, GDTDidExposed, GDTDidClicked, PassOn, managerVars,
        TypeOK, Ads
  <2>3. QED
    BY <2>1, <2>2 DEF OneAnswerDue
<1>11. CASE GDTDidClose \/ GDTDidFail
  <2>1. gdt'.phase # "loading"
    BY <1>11 DEF GDTDidClose, GDTDidFail, TypeOK, Ads, OnScreenPhases
  <2>2. QED
    BY <1>11, <2>1 DEF GDTDidClose, GDTDidFail, DidFailToPlay, OneAnswerDue
<1>12. CASE GDTDidRewardEffective \/ GDTExpires
  <2>1. gdt'.phase = gdt.phase
    BY <1>12 DEF GDTDidRewardEffective, GDTExpires, TypeOK, Ads
  <2>2. QED
    BY <1>12, <2>1
    DEF GDTDidRewardEffective, GDTExpires, managerVars, OneAnswerDue
<1>13. CASE UNCHANGED vars
  BY <1>13 DEF vars, OneAnswerDue
<1>14. QED
  BY <1>1, <1>2, <1>3, <1>4, <1>5, <1>6, <1>7, <1>8, <1>9, <1>10, <1>11,
     <1>12, <1>13
  DEF Next, AppCalls, ServerAnswers, GDTCallbacks

\* For every waterfall and every client: the manager is loading exactly while
\* the config server or the load timer of the current adapter owes an answer.
THEOREM AnswerDue == Spec => []OneAnswerDue
<1>1. Init => OneAnswerDue
  BY RecordValues
  DEF Init, OneAnswerDue, RefusedAdapter, NewAdapter, NoAd
<1>2. QED
  BY <1>1, TypeCorrect, AdInvHolds, OneAnswerDueStep, PTL DEF Spec

----------------------------------------------------------------------------
(* The load protocol.                                                      *)

\* Every step is a step of AdLoadProtocol, or one it does not see.
LEMMA ProtocolStep ==
    TypeOK /\ AdInv /\ OneAnswerDue /\ [Next]_vars
      => [Protocol!Next]_(Protocol!vars)
<1> SUFFICES ASSUME TypeOK, AdInv, OneAnswerDue, [Next]_vars
             PROVE  [Protocol!Next]_(Protocol!vars)
  OBVIOUS
<1> USE DEF Protocol!Next, Protocol!Answers
<1>1. CASE LoadWhenReady
  <2>1. Protocol!AskForCached
    BY <1>1 DEF LoadWhenReady, managerVars, Protocol!AskForCached
  <2>2. QED
    BY <2>1
<1>2. CASE Load
  <2>1. Protocol!Ask \/ Protocol!AskAgain
    BY <1>2 DEF Load, TypeOK, Protocol!Ask, Protocol!AskAgain
  <2>2. QED
    BY <2>1
<1>3. CASE CommunicatorDidReceive
  <2>1. PICK cs \in Configs : Walk(cs, adapter)
    BY <1>3 DEF CommunicatorDidReceive
  <2>2. WalkOutcome(adapter)
    BY <2>1, ConfigsType, WalkOutcomes DEF TypeOK
  <2>3. loading = TRUE
    BY <1>3 DEF CommunicatorDidReceive, TypeOK, OneAnswerDue
  <2>4. QED
    BY <2>2, <2>3 DEF WalkOutcome, Protocol!Answer, Protocol!Other
<1>4. CASE CommunicatorDidFail
  <2>1. loading = TRUE
    BY <1>4 DEF CommunicatorDidFail, TypeOK, OneAnswerDue
  <2>2. QED
    BY <1>4, <2>1 DEF CommunicatorDidFail, Protocol!Answer
<1>5. CASE Timeout
  <2> DEFINE kept == [adapter EXCEPT !.timeoutTimer = FALSE,
                                     !.attached = FALSE]
  <2>1. Len(remaining) <= MaxConfigs
    BY MaxConfigsAssumption DEF TypeOK
  <2>2. WalkOutcome(kept)
    BY <1>5, <2>1, WalkOutcomes DEF Timeout, TypeOK
  <2>3. loading = TRUE
    BY <1>5 DEF Timeout, TypeOK, OneAnswerDue
  <2> HIDE DEF kept
  <2>4. QED
    BY <2>2, <2>3 DEF WalkOutcome, Protocol!Answer, Protocol!Other
<1>6. CASE GDTDidLoad
  <2>1. CASE adapter.attached /\ ~adapter.hasSuccessfullyLoaded
    <3>1. gdt.phase = "loading"
      BY <1>6, <2>1 DEF GDTDidLoad, AdInv
    <3>2. loading = TRUE
      BY <2>1, <3>1 DEF TypeOK, OneAnswerDue
    <3>3. QED
      BY <1>6, <2>1, <3>2 DEF GDTDidLoad, Protocol!Answer
  <2>2. CASE ~(adapter.attached /\ ~adapter.hasSuccessfullyLoaded)
    BY <1>6, <2>2 DEF GDTDidLoad, Protocol!Other
  <2>3. QED
    BY <2>1, <2>2
<1>7. CASE ShowRefused \/ Show \/ HandleAdPlayed \/ ExpirationTimerFires
  BY <1>7
  DEF ShowRefused, Show, HandleAdPlayed, ExpirationTimerFires, DidExpire,
      DidFailToPlay, managerVars, Protocol!Other
<1>8. CASE \/ GDTVideoDidLoad \/ GDTWillVisible \/ GDTDidExposed
           \/ GDTDidClicked \/ GDTDidClose \/ GDTDidFail
           \/ GDTDidRewardEffective \/ GDTExpires
  <2>1. /\ UNCHANGED loading
        /\ io' \cap (Protocol!Answers \cup {"load"}) = {}
    BY <1>8
    DEF GDTVideoDidLoad, GDTWillVisible, GDTDidExposed, GDTDidClicked,
        GDTDidClose, GDTDidFail, GDTDidRewardEffective, GDTExpires,
        DidExpire, DidFailToPlay, PassOn, managerVars
  <2>2. QED
    BY <2>1 DEF Protocol!Other
<1>9. CASE UNCHANGED vars
  BY <1>9 DEF vars, Protocol!vars
<1>10. QED
  BY <1>1, <1>2, <1>3, <1>4, <1>5, <1>6, <1>7, <1>8, <1>9
  DEF Next, AppCalls, ServerAnswers, GDTCallbacks

\* The whole rewarded-video chain implements the load protocol: no load is
\* answered twice, and nobody is told of a load that is not under way,
\* whatever GDT, the timers, the server and the app do.
THEOREM ImplementsProtocol == Spec => Protocol!SafeSpec
<1>1. Init => Protocol!Init
  BY DEF Init, Protocol!Init
<1>2. QED
  BY <1>1, TypeCorrect, AdInvHolds, AnswerDue, ProtocolStep, PTL
  DEF Spec, Protocol!SafeSpec

----------------------------------------------------------------------------
(* A client that asks for no ad while one is on screen.                    *)

\* While such a client's load is under way there is nothing to show and
\* nothing on screen, so neither the answer nor the timer disturbs an ad.
SerialInv ==
    /\ loading => ~ready /\ ~playedAd /\ ~OnScreen
    /\ adapter.hasExpired => adapter.hasSuccessfullyLoaded
    /\ ReadyMeansLoaded

\* Expiry takes a ready ad away, and only from an adapter that loaded it.
LEMMA DidExpireSerial ==
    ASSUME TypeOK, SerialInv, NEW a \in Adapters, DidExpire(a),
           a.attached = adapter.attached,
           a.hasSuccessfullyLoaded = TRUE, gdt'.phase = gdt.phase
    PROVE  SerialInv'
<1>1. ready' = FALSE
  BY DEF DidExpire, TypeOK, Adapters, SerialInv, ReadyMeansLoaded
<1>2. adapter'.hasSuccessfullyLoaded = TRUE
  BY DidExpireKeeps
<1>3. QED
  BY <1>1, <1>2
  DEF DidExpire, SerialInv, ReadyMeansLoaded, OnScreen

\* A walk happens during a load: there is no ad for it to disturb.
LEMMA WalkSerial ==
    ASSUME TypeOK, SerialInv, loading = TRUE, NEW kept,
           kept.hasExpired = adapter.hasExpired,
           kept.hasSuccessfullyLoaded = adapter.hasSuccessfullyLoaded,
           WalkOutcome(kept)
    PROVE  SerialInv' /\ ready = FALSE /\ ready' = FALSE
<1>1. ready = FALSE /\ ready' = FALSE /\ playedAd' = FALSE
  BY DEF TypeOK, SerialInv, WalkOutcome
<1>2. CASE loading' = FALSE /\ adapter' = kept /\ gdt' = gdt
  BY <1>1, <1>2 DEF SerialInv, ReadyMeansLoaded
<1>3. CASE adapter' \in {NewAdapter, RefusedAdapter}
           /\ gdt' \in {NoAd, RequestedAd}
  BY <1>1, <1>3, RecordValues
  DEF SerialInv, ReadyMeansLoaded, OnScreen, OnScreenPhases
<1>4. QED
  BY <1>1, <1>2, <1>3 DEF WalkOutcome

\* The two steps that walk the waterfall do so during a load.
LEMMA WalkingSteps ==
    ASSUME TypeOK, OneAnswerDue, SerialInv, CommunicatorDidReceive \/ Timeout
    PROVE  /\ loading = TRUE
           /\ SerialInv' /\ ready = FALSE /\ ready' = FALSE
           /\ io' \in {{}, {"didFailToLoad"}}
<1>1. CASE CommunicatorDidReceive
  <2>1. PICK cs \in Configs : Walk(cs, adapter)
    BY <1>1 DEF CommunicatorDidReceive
  <2>2. WalkOutcome(adapter)
    BY <2>1, ConfigsType, WalkOutcomes DEF TypeOK
  <2>3. loading = TRUE
    BY <1>1 DEF CommunicatorDidReceive, TypeOK, OneAnswerDue
  <2>4. io' \in {{}, {"didFailToLoad"}}
    BY <2>2 DEF WalkOutcome
  <2>5. QED
    BY <2>2, <2>3, <2>4, WalkSerial
<1>2. CASE Timeout
  <2> DEFINE kept == [adapter EXCEPT !.timeoutTimer = FALSE,
                                     !.attached = FALSE]
  <2>1. /\ kept.hasExpired = adapter.hasExpired
        /\ kept.hasSuccessfullyLoaded = adapter.hasSuccessfullyLoaded
    BY DEF TypeOK, Adapters
  <2>2. Len(remaining) <= MaxConfigs
    BY MaxConfigsAssumption DEF TypeOK
  <2>3. WalkOutcome(kept)
    BY <1>2, <2>2, WalkOutcomes DEF Timeout, TypeOK
  <2>4. loading = TRUE
    BY <1>2 DEF Timeout, TypeOK, OneAnswerDue
  <2> HIDE DEF kept
  <2>5. io' \in {{}, {"didFailToLoad"}}
    BY <2>3 DEF WalkOutcome
  <2>6. QED
    BY <2>1, <2>3, <2>4, <2>5, WalkSerial
<1>3. QED
  BY <1>1, <1>2

\* SerialInv is inductive for a serial client, relative to the above.
LEMMA SerialInvStep ==
    ASSUME SerialClient
    PROVE  TypeOK /\ AdInv /\ OneAnswerDue /\ SerialInv /\ [Next]_vars
             => SerialInv'
<1> SUFFICES ASSUME TypeOK, AdInv, OneAnswerDue, SerialInv, [Next]_vars
             PROVE  SerialInv'
  OBVIOUS
<1>1. CASE LoadWhenReady \/ Load \/ ShowRefused \/ CommunicatorDidFail
  BY <1>1
  DEF LoadWhenReady, Load, ShowRefused, CommunicatorDidFail, managerVars,
      TypeOK, SerialInv, ReadyMeansLoaded, OnScreen
<1>2. CASE Show
  <2>1. adapter' = adapter /\ loading' = loading /\ loading = FALSE
    BY <1>2 DEF Show, DidFailToPlay, managerVars, TypeOK, SerialInv
  <2>2. \/ gdt'.phase = "presented" /\ ready' = ready /\ playedAd' = playedAd
        \/ gdt' = gdt /\ (ready' => ready) /\ playedAd' = FALSE
    BY <1>2
    DEF Show, DidFailToPlay, managerVars, TypeOK, Ads, SerialInv,
        ReadyMeansLoaded
  <2>3. QED
    BY <2>1, <2>2
    DEF SerialInv, ReadyMeansLoaded, OnScreen, OnScreenPhases
<1>3. CASE HandleAdPlayed
  <2>1. adapter \in Adapters /\ adapter.hasSuccessfullyLoaded = TRUE
    BY <1>3
    DEF HandleAdPlayed, TypeOK, Adapters, SerialInv, ReadyMeansLoaded
  <2>2. QED
    BY <1>3, <2>1, DidExpireSerial DEF HandleAdPlayed
<1>4. CASE CommunicatorDidReceive \/ Timeout
  BY <1>4, WalkingSteps
<1>5. CASE ExpirationTimerFires
  <2> DEFINE a == [adapter EXCEPT !.expirationTimer = FALSE]
  <2>1. /\ a \in Adapters
        /\ a.attached = adapter.attached
        /\ a.hasSuccessfullyLoaded = TRUE
    BY <1>5 DEF ExpirationTimerFires, TypeOK, Adapters, AdInv
  <2>2. DidExpire(a) /\ gdt' = gdt
    BY <1>5 DEF ExpirationTimerFires
  <2> HIDE DEF a
  <2>3. QED
    BY <2>1, <2>2, DidExpireSerial
<1>6. CASE GDTDidLoad
  <2>1. gdt'.phase = "loaded"
    BY <1>6 DEF GDTDidLoad, TypeOK, Ads
  <2>2. CASE adapter.hasSuccessfullyLoaded
    BY <1>6, <2>1, <2>2
    DEF GDTDidLoad, SerialInv, ReadyMeansLoaded, OnScreen, OnScreenPhases
  <2>3. CASE ~adapter.hasSuccessfullyLoaded
    <3>1. /\ adapter'.hasSuccessfullyLoaded = TRUE
          /\ adapter'.hasExpired = adapter.hasExpired
          /\ adapter'.attached = adapter.attached
      BY <1>6, <2>3 DEF GDTDidLoad, DidStopLoading, TypeOK, Adapters
    <3>2. gdt.phase = "loading" /\ ~adapter.hasExpired /\ ~ready
      BY <1>6, <2>3 DEF GDTDidLoad, AdInv, SerialInv, ReadyMeansLoaded
    <3>3. CASE adapter.attached
      <4>1. ~playedAd
        BY <3>2, <3>3 DEF OneAnswerDue, SerialInv
      <4>2. QED
        BY <1>6, <2>1, <2>3, <3>1, <3>2, <3>3, <4>1
        DEF GDTDidLoad, SerialInv, ReadyMeansLoaded
    <3>4. CASE ~adapter.attached
      BY <1>6, <2>1, <3>1, <3>2, <3>4
      DEF GDTDidLoad, SerialInv, ReadyMeansLoaded, OnScreen, OnScreenPhases
    <3>5. QED
      BY <3>3, <3>4
  <2>4. QED
    BY <2>2, <2>3
<1>7. CASE GDTVideoDidLoad
  <2>1. gdt'.phase = gdt.phase
    BY <1>7 DEF GDTVideoDidLoad, TypeOK, Ads
  <2>2. adapter \in Adapters /\ adapter.hasSuccessfullyLoaded = TRUE
    BY <1>7 DEF GDTVideoDidLoad, TypeOK, Adapters, AdInv
  <2>3. CASE DidExpire(adapter)
    BY <2>1, <2>2, <2>3, DidExpireSerial
  <2>4. CASE PassOn({"videoDidLoad"}) /\ UNCHANGED adapter
    BY <2>1, <2>4
    DEF PassOn, managerVars, SerialInv, ReadyMeansLoaded, OnScreen
  <2>5. QED
    BY <1>7, <2>3, <2>4 DEF GDTVideoDidLoad
<1>8. CASE GDTWillVisible \/ GDTDidExposed \/ GDTDidClicked
  <2>1. /\ adapter'.attached = adapter.attached
        /\ adapter'.hasExpired = adapter.hasExpired
        /\ adapter'.hasSuccessfullyLoaded = adapter.hasSuccessfullyLoaded
    BY <1>8
    DEF GDTWillVisible, GDTDidExposed, GDTDidClicked, TypeOK, Adapters
  <2>2. gdt.phase \in OnScreenPhases /\ gdt'.phase \in OnScreenPhases
    BY <1>8
    DEF GDTWillVisible, GDTDidExposed, GDTDidClicked, TypeOK, Ads,
        OnScreenPhases
  <2>3. UNCHANGED managerVars
    BY <1>8 DEF GDTWillVisible, GDTDidExposed, GDTDidClicked, PassOn
  <2>4. QED
    BY <2>1, <2>2, <2>3
    DEF managerVars, SerialInv, ReadyMeansLoaded, OnScreen
<1>9. CASE GDTDidClose
  <2>1. gdt'.phase = "closed" /\ ~loading
    BY <1>9
    DEF GDTDidClose, TypeOK, Ads, SerialInv, OnScreen, OnScreenPhases
  <2>2. QED
    BY <1>9, <2>1 DEF GDTDidClose, SerialInv, ReadyMeansLoaded
<1>10. CASE GDTDidFail
  <2>1. gdt'.phase \in {gdt.phase, "failed"}
    BY <1>10 DEF GDTDidFail, TypeOK, Ads
  <2>2. ready' = FALSE /\ (playedAd' => playedAd)
    BY <1>10
    DEF GDTDidFail, DidFailToPlay, TypeOK, SerialInv, ReadyMeansLoaded
  <2>3. adapter' = adapter /\ loading' = loading
    BY <1>10 DEF GDTDidFail, DidFailToPlay
  <2>4. QED
    BY <2>1, <2>2, <2>3
    DEF SerialInv, ReadyMeansLoaded, OnScreen, OnScreenPhases
<1>11. CASE GDTDidRewardEffective \/ GDTExpires
  <2>1. gdt'.phase = gdt.phase
    BY <1>11 DEF GDTDidRewardEffective, GDTExpires, TypeOK, Ads
  <2>2. QED
    BY <1>11, <2>1
    DEF GDTDidRewardEffective, GDTExpires, managerVars, SerialInv,
        ReadyMeansLoaded, OnScreen
<1>12. CASE UNCHANGED vars
  BY <1>12 DEF vars, SerialInv, ReadyMeansLoaded, OnScreen
<1>13. QED
  BY <1>1, <1>2, <1>3, <1>4, <1>5, <1>6, <1>7, <1>8, <1>9, <1>10, <1>11,
     <1>12
  DEF Next, AppCalls, ServerAnswers, GDTCallbacks

\* SerialInv holds from the start, and so for ever.
LEMMA SerialInvHolds ==
    ASSUME SerialClient
    PROVE  Spec => []SerialInv
<1>1. Init => SerialInv
  BY DEF Init, SerialInv, ReadyMeansLoaded, OnScreen, OnScreenPhases,
         RefusedAdapter, NewAdapter, NoAd
<1>2. QED
  BY <1>1, TypeCorrect, AdInvHolds, AnswerDue, SerialInvStep, PTL DEF Spec

\* For a serial client, whatever it does otherwise: an ad the manager calls
\* ready is loaded, unexpired and unplayed, and its callbacks arrive.
THEOREM ReadyIsLoaded ==
    ASSUME SerialClient
    PROVE  Spec => []ReadyMeansLoaded
<1>1. SerialInv => ReadyMeansLoaded
  BY DEF SerialInv
<1>2. QED
  BY <1>1, SerialInvHolds, PTL

\* For a serial client, hasAdAvailable never vouches for an ad that cannot
\* be shown or whose callbacks are lost.
THEOREM AvailabilityIsTrue ==
    ASSUME SerialClient
    PROVE  Spec => []AvailableIsPresentable
<1>1. AdInv /\ SerialInv => AvailableIsPresentable
  BY DEF AdInv, SerialInv, ReadyMeansLoaded, AvailableIsPresentable,
         HasAdAvailable
<1>2. QED
  BY <1>1, AdInvHolds, SerialInvHolds, PTL

\* For a serial client, no step replaces the adapter of an ad on screen.
THEOREM OnScreenAdStays ==
    ASSUME SerialClient
    PROVE  Spec => OnScreenAdIsKept
<1> DEFINE Kept == OnScreen => gdt'.phase \notin {"none", "loading"}
<1>1. TypeOK /\ OneAnswerDue /\ SerialInv /\ [Next]_vars => [Kept]_vars
  <2> SUFFICES ASSUME TypeOK, OneAnswerDue, SerialInv, Next, OnScreen
               PROVE  gdt'.phase \notin {"none", "loading"}
    BY DEF Kept
  <2>1. ~(CommunicatorDidReceive \/ Timeout)
    BY WalkingSteps DEF SerialInv
  <2>2. CASE gdt' = gdt
    BY <2>2 DEF OnScreen, OnScreenPhases
  <2>3. CASE gdt' # gdt
    <3>1. \/ Show \/ GDTDidLoad \/ GDTVideoDidLoad \/ GDTWillVisible
          \/ GDTDidExposed \/ GDTDidClose \/ GDTDidFail
          \/ GDTDidRewardEffective \/ GDTExpires
      BY <2>1, <2>3
      DEF Next, AppCalls, ServerAnswers, GDTCallbacks, LoadWhenReady, Load,
          ShowRefused, HandleAdPlayed, CommunicatorDidFail,
          ExpirationTimerFires, GDTDidClicked
    <3>2. CASE Show \/ GDTDidLoad \/ GDTVideoDidLoad \/ GDTWillVisible
      <4>1. CASE Show
        <5>1. gdt' = gdt \/ gdt'.phase = "presented"
          BY <4>1 DEF Show, TypeOK, Ads
        <5>2. QED
          BY <2>3, <5>1
      <4>2. CASE GDTDidLoad
        BY <4>2 DEF GDTDidLoad, TypeOK, Ads
      <4>3. CASE GDTVideoDidLoad \/ GDTWillVisible
        BY <4>3
        DEF GDTVideoDidLoad, GDTWillVisible, TypeOK, Ads, OnScreen,
            OnScreenPhases
      <4>4. QED
        BY <3>2, <4>1, <4>2, <4>3
    <3>3. CASE GDTDidExposed \/ GDTDidClose \/ GDTDidFail
      BY <3>3
      DEF GDTDidExposed, GDTDidClose, GDTDidFail, TypeOK, Ads, OnScreen,
          OnScreenPhases
    <3>4. CASE GDTDidRewardEffective \/ GDTExpires
      BY <3>4
      DEF GDTDidRewardEffective, GDTExpires, TypeOK, Ads, OnScreen,
          OnScreenPhases
    <3>5. QED
      BY <3>1, <3>2, <3>3, <3>4
  <2>4. QED
    BY <2>2, <2>3
<1>2. QED
  BY <1>1, TypeCorrect, AnswerDue, SerialInvHolds, PTL
  DEF Spec, OnScreenAdIsKept

----------------------------------------------------------------------------
(* What the app can tell from its callbacks.                               *)

\* The three cases of CallbacksTellReady for one step.
Told ==
    /\ "didLoad" \in io' => ready' = TRUE
    /\ "didLoad" \notin io' /\ io' \cap Losses = {} => ready' = ready
    /\ "didLoad" \notin io' /\ io' \cap Losses # {} => ready' = FALSE

\* A step that leaves ready alone and tells neither a load nor a loss.
LEMMA QuietTold ==
    ASSUME ready' = ready, "didLoad" \notin io', io' \cap Losses = {}
    PROVE  Told
BY DEF Told

\* A step that takes the ad away and says so.
LEMMA LossTold ==
    ASSUME ready' = FALSE, "didLoad" \notin io', io' \cap Losses # {}
    PROVE  Told
BY DEF Told

\* A callback that is only passed on tells neither a load nor a loss.
LEMMA PassOnTold ==
    ASSUME NEW events, "didLoad" \notin events, events \cap Losses = {},
           PassOn(events)
    PROVE  Told
BY QuietTold DEF PassOn, managerVars

\* An expiry is told exactly when it takes the ad away.
LEMMA DidExpireTold ==
    ASSUME NEW a, DidExpire(a) PROVE Told
<1>1. CASE ready' = FALSE /\ io' = {"didExpire"}
  BY <1>1, LossTold DEF Losses
<1>2. CASE ready' = ready /\ io' = {}
  BY <1>2, QuietTold
<1>3. QED
  BY <1>1, <1>2 DEF DidExpire

\* A failure to play is told exactly when it takes the ad away.
LEMMA DidFailToPlayTold ==
    ASSUME NEW calls \in SUBSET {"show"}, DidFailToPlay(calls) PROVE Told
<1>1. CASE ready' = FALSE /\ io' = calls \cup {"didFailToPlay"}
  <2>1. "didLoad" \notin io' /\ "didFailToPlay" \in io'
    BY <1>1
  <2>2. QED
    BY <1>1, <2>1, LossTold DEF Losses
<1>2. CASE ready' = ready /\ io' = calls
  BY <1>2, QuietTold DEF Losses
<1>3. QED
  BY <1>1, <1>2 DEF DidFailToPlay

LEMMA ToldStep ==
    ASSUME TypeOK, OneAnswerDue, SerialInv, Next
    PROVE  Told
<1>1. CASE LoadWhenReady
  BY <1>1 DEF LoadWhenReady, managerVars, TypeOK, Told
<1>2. CASE Load
  <2>1. ready' = ready /\ io' = {"load"}
    BY <1>2 DEF Load
  <2>2. QED
    BY <2>1, QuietTold DEF Losses
<1>3. CASE ShowRefused
  <2>1. ready' = FALSE
    BY <1>3
    DEF ShowRefused, managerVars, SerialInv, ReadyMeansLoaded, TypeOK
  <2>2. io' = {"show", "didFailToPlay"}
    BY <1>3 DEF ShowRefused
  <2>3. QED
    BY <2>1, <2>2, LossTold DEF Losses
<1>4. CASE Show
  <2>1. CASE DidFailToPlay({"show"})
    BY <2>1, DidFailToPlayTold
  <2>2. CASE io' = {"show"} /\ UNCHANGED managerVars
    BY <2>2, QuietTold DEF managerVars, Losses
  <2>3. QED
    BY <1>4, <2>1, <2>2 DEF Show
<1>5. CASE HandleAdPlayed \/ ExpirationTimerFires
  BY <1>5, DidExpireTold DEF HandleAdPlayed, ExpirationTimerFires
<1>6. CASE CommunicatorDidReceive \/ Timeout
  <2>1. ready = FALSE /\ ready' = FALSE /\ io' \in {{}, {"didFailToLoad"}}
    BY <1>6, WalkingSteps
  <2>2. QED
    BY <2>1 DEF Told
<1>7. CASE CommunicatorDidFail
  BY <1>7, LossTold DEF CommunicatorDidFail, Losses
<1>8. CASE GDTDidLoad
  <2>1. CASE ready' = TRUE /\ io' = {"didLoad"}
    BY <2>1 DEF Told
  <2>2. CASE ready' = ready /\ io' = {}
    BY <2>2, QuietTold
  <2>3. QED
    BY <1>8, <2>1, <2>2 DEF GDTDidLoad
<1>9. CASE GDTVideoDidLoad
  <2>1. CASE DidExpire(adapter)
    BY <2>1, DidExpireTold
  <2>2. CASE PassOn({"videoDidLoad"})
    BY <2>2, PassOnTold DEF Losses
  <2>3. QED
    BY <1>9, <2>1, <2>2 DEF GDTVideoDidLoad
<1>10. CASE GDTWillVisible \/ GDTDidExposed \/ GDTDidClicked
  <2>1. PICK events \in {{"willAppear"}, {"didAppear"}, {"didReceiveTap"}} :
          PassOn(events)
    BY <1>10 DEF GDTWillVisible, GDTDidExposed, GDTDidClicked
  <2>2. QED
    BY <2>1, PassOnTold DEF Losses
<1>11. CASE GDTDidClose
  <2>1. CASE ready' = FALSE /\ io' = {"willDisappear", "didDisappear"}
    BY <2>1, LossTold DEF Losses
  <2>2. CASE ready' = ready /\ io' = {}
    BY <2>2, QuietTold
  <2>3. QED
    BY <1>11, <2>1, <2>2 DEF GDTDidClose
<1>12. CASE GDTDidFail
  BY <1>12, DidFailToPlayTold DEF GDTDidFail
<1>13. CASE GDTDidRewardEffective \/ GDTExpires
  BY <1>13, QuietTold DEF GDTDidRewardEffective, GDTExpires, managerVars
<1>14. QED
  BY <1>1, <1>2, <1>3, <1>4, <1>5, <1>6, <1>7, <1>8, <1>9, <1>10, <1>11,
     <1>12, <1>13
  DEF Next, AppCalls, ServerAnswers, GDTCallbacks

\* For a serial client: didLoad tells that there is an ad, each of the four
\* losses that there is none, and nothing else changes what there is.
THEOREM CallbacksAreTrue ==
    ASSUME SerialClient
    PROVE  Spec => CallbacksTellReady
<1> DEFINE Tells == ready' = IF "didLoad" \in io' THEN TRUE
                             ELSE ready /\ io' \cap Losses = {}
<1>1. TypeOK /\ OneAnswerDue /\ SerialInv /\ [Next]_vars => [Tells]_vars
  <2> SUFFICES ASSUME TypeOK, OneAnswerDue, SerialInv, Next PROVE Tells
    OBVIOUS
  <2>1. ready \in BOOLEAN /\ Told
    BY ToldStep DEF TypeOK
  <2>2. QED
    BY <2>1 DEF Told
<1>2. QED
  BY <1>1, TypeCorrect, AnswerDue, SerialInvHolds, PTL
  DEF Spec, CallbacksTellReady
=============================================================================
