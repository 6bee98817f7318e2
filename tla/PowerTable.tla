----------------------------- MODULE PowerTable -----------------------------
(***************************************************************************)
(* The pure part of the voting power of finality providers:                *)
(* x/finality/types/power_table.go (who is active) and the quorum test of  *)
(* x/finality/keeper/tallying.go.                                          *)
(*                                                                         *)
(* A distribution cache (VotingPowerDistCache) is a record with            *)
(*   sats    the bonded satoshis of every provider; a provider with 0 has  *)
(*           no entry in the cache,                                        *)
(*   jailed, stamped   the providers whose entry carries IsJailed,         *)
(*           IsTimestamped (IsSlashed is never set: a slashed provider is  *)
(*           dropped from the cache instead),                              *)
(*   active  the first NumActiveFps entries of the sorted list.            *)
(* Providers are natural numbers, ordered as their BTC public keys are.    *)
(***************************************************************************)
EXTENDS Integers, FiniteSetsExt

CONSTANT FPs   \* the registered finality providers

ASSUME FPsAssumption == FPs \subseteq Nat /\ IsFiniteSet(FPs)

Dist == [sats : [FPs -> Nat], jailed : SUBSET FPs,
         stamped : SUBSET FPs, active : SUBSET FPs]

EmptyDist == [sats |-> [f \in FPs |-> 0], jailed |-> {}, stamped |-> {}, active |-> {}]

\* The providers that have an entry in a distribution cache.
Entries(d) == {f \in FPs : d.sats[f] > 0}

-----------------------------------------------------------------------------
\* SortFinalityProvidersWithZeroedVotingPower: more sats first, ties by key.
RanksBefore(sats, g, f) == sats[g] > sats[f] \/ (sats[g] = sats[f] /\ g < f)

\* The entries at which the loop of ApplyActiveFinalityProviders does not stop.
Eligible(d) == {f \in Entries(d) : f \in d.stamped /\ f \notin d.jailed}

TopRanked(d, n) ==
    {f \in Eligible(d) :
        Cardinality({g \in Eligible(d) : RanksBefore(d.sats, g, f)}) < n}

ApplyActiveFinalityProviders(d, n) == [d EXCEPT !.active = TopRanked(d, n)]

-----------------------------------------------------------------------------
\* One height of the voting power table: the power of every provider, or
\* NoPower where the store has no key. A zero power is a key.
NoPower == -1
Table == [FPs -> Nat \cup {NoPower}]
EmptyTable == [f \in FPs |-> NoPower]
HasTable(t) == \E f \in FPs : t[f] # NoPower

PowerOf(t, S) == MapThenSumSet(LAMBDA f : IF t[f] = NoPower THEN 0 ELSE t[f], S)

\* A quorum is more than two thirds of the power of the table.
tally(t, voters) == 3 * PowerOf(t, FPs \cap voters) > 2 * PowerOf(t, FPs)
=============================================================================
