---------------------------- MODULE MobiWaterfall ----------------------------
(***************************************************************************)
(* The waterfall of ad configurations that every ad manager of the         *)
(* mediation SDK walks: the server returns a list, and the manager tries   *)
(* them in order (fetchAdWithConfiguration: and the ...DidFailToLoad...    *)
(* delegate methods of MobiRewardedVideoAdManager, MobiSplashAdManager,    *)
(* MobiFeedAdManager).  A configuration matters to the control flow only   *)
(* through what fetching it does at once.                                  *)
(***************************************************************************)
EXTENDS Naturals, Sequences

CONSTANT MaxConfigs  \* bound on the configurations in one server response

ASSUME MaxConfigsAssumption == MaxConfigs \in Nat \ {0}

Kinds == {
    "gdt",      \* a GDT placement: the custom event issues a GDT request
    "refused",  \* no adunit, or no such custom event class: the new adapter
                \* reports the load failure before getAd returns
    "stop"      \* adUnitWarmingUp or adType unknown: fetching gives up and
                \* the configurations after it are not tried
    }

\* A response without ads is reported as a failure by MobiAdConfigServer, so
\* the list a manager receives is never empty.
Configs == UNION {[1..n -> Kinds] : n \in 1..MaxConfigs}

\* The walk over cs comes to rest at k: refused configurations fail within
\* the call, and each such failure fetches the next one.
StopsAt(cs, k) ==
    /\ cs[k] # "refused"
    /\ \A j \in 1..(k - 1) : cs[j] = "refused"

\* Mutant: the configuration being fetched stays in the list.
RestKeepsFetched(cs, k) == SubSeq(cs, k, Len(cs))

\* removeFirst, once for every configuration fetched: what is left at k.
Rest(cs, k) == SubSeq(cs, k + 1, Len(cs))

\* Every configuration is refused: the walk runs off the end of the list.
Exhausted(cs) == \A i \in 1..Len(cs) : cs[i] = "refused"
=============================================================================
