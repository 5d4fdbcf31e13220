------------------------------- MODULE MCCrm -------------------------------
(***************************************************************************)
(* Two leads on pages of one, two synchronisations and two people; the     *)
(* suggestions over every small table of candidates, and over the deals    *)
(* and orders of the reached states.                                       *)
(***************************************************************************)
EXTENDS Crm, CrmMatch, TLC

Phone == <<"phone", "phone", Unknown>>
Card(id, name, money, created) == [id |-> id, phone |-> Phone[id], name |-> name, money |-> money, created |-> created]
DealCard == <<Card(1, "client", 30000, 0), Card(2, Unknown, 30000, 10)>>
OrderCard == [o \in OrderIds |-> Card(IF o = CHOOSE p \in OrderIds : TRUE THEN 1 ELSE 3, "client", 30017, 9)]

\* Every table of up to six candidates between two deals and three orders.
Tables == [(1..2) \X (1..3) -> {<<NoReason, 0>>} \union (0..1) \X (0..1)]
Candidates(t) ==
  {[left |-> [id |-> p[1]], right |-> [id |-> p[2]], rank |-> t[p][1], days |-> t[p][2]] :
     p \in {p \in DOMAIN t : t[p][1] # NoReason}}
BoundedSuggestionsAreSound == \A t \in Tables : Sound(Candidates(t), Pairs(Candidates(t)))

\* matchSuggestions and inboxSuggestions propose nobody twice, and leave a possible pair
\* out only for one at least as strong ("занятые более сильной парой, во вторую не попадают").
SuggestionsAreSound ==
  LET deals == {DealCard[l] : l \in {l \in Undismissed : deal[l].order = NoOrder}}
      orders == {OrderCard[o] : o \in {o \in OrderIds : order[o] \in {"open", "paid"} /\ Free(o)}}
  IN  /\ BoundedSuggestionsAreSound
      /\ Sound(DealCandidates(deals, orders), MatchDealsToOrders(deals, orders))
      /\ Sound(LineCandidates(orders, deals), MatchLinesToDeals(orders, deals))
=============================================================================
