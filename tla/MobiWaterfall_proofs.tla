------------------------- MODULE MobiWaterfall_proofs -------------------------
(***************************************************************************)
(* Facts about the waterfall that the proofs of every ad format use.       *)
(***************************************************************************)
EXTENDS MobiWaterfall, TLAPS

\* A response of the config server is a list of at most MaxConfigs entries.
LEMMA ConfigsType ==
    \A cs \in Configs : cs \in Seq(Kinds) /\ Len(cs) <= MaxConfigs
<1>1. SUFFICES ASSUME NEW cs \in Configs
               PROVE  cs \in Seq(Kinds) /\ Len(cs) <= MaxConfigs
  OBVIOUS
<1>2. PICK n \in 1..MaxConfigs : cs \in [1..n -> Kinds]
  BY DEF Configs
<1>3. n \in Nat /\ n <= MaxConfigs
  BY MaxConfigsAssumption
<1>4. cs \in Seq(Kinds) /\ Len(cs) = n
  BY <1>2, <1>3
<1>5. QED
  BY <1>3, <1>4

\* Fetching the configuration at k consumes at least that one.
LEMMA RestType ==
    ASSUME NEW cs \in Seq(Kinds), NEW k \in 1..Len(cs)
    PROVE  Rest(cs, k) \in Seq(Kinds) /\ Len(Rest(cs, k)) < Len(cs)
BY DEF Rest

\* The list that is left when there is nothing more to try.
LEMMA NothingLeft ==
    <<>> \in Seq(Kinds) /\ Len(<<>>) < MaxConfigs
BY MaxConfigsAssumption
===============================================================================
