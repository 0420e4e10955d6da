------------------------- MODULE MCSubscriptionRefresh -------------------------
(***************************************************************************)
(* Model values for checking SubscriptionRefresh with TLC.                 *)
(***************************************************************************)
EXTENDS SubscriptionRefresh, TLC

CONSTANTS s1, s2,           \* subscriptions
          web, dated, file, \* a server with ETags, one without, a local file
          c1, c2, r1, r2

None == {}

OneSubscription == {s1}
TwoSubscriptions == {s1, s2}
SecondBuiltin == {s2}

Web == {web}
Dated == {dated}
File == {file}
WebAndDated == {web, dated}
WebAndFile == {web, file}
AllSources == {web, dated, file}

OneCategory == {c1}
TwoCategories == {c1, c2}

OneRefresher == {r1}
TwoRefreshers == {r1, r2}

\* Refreshes that keep apart, of subscriptions whose address and category are
\* settled before the first.
ApartNext == Next /\ Apart' /\ SettledFirst
ApartSpec == Init /\ [][ApartNext]_vars

Symmetry == Permutations(TwoRefreshers) \cup Permutations(TwoCategories)

\* Where no subscription is built-in.
SubscriptionSymmetry == Symmetry \cup Permutations(TwoSubscriptions)
=============================================================================
