------------------------------ MODULE CrmMatch ------------------------------
(***************************************************************************)
(* crm-match.ts: which order of the books a deal of amoCRM is, and which   *)
(* deal an income of the bank pays.  Pure functions; a deal and an order   *)
(* are records with what the rules compare.  Money is in kopecks (amoCRM   *)
(* keeps whole roubles), dates are days, and the comparison of names in    *)
(* free text is an equality of names.                                      *)
(***************************************************************************)
EXTENDS Integers, Sequences, FiniteSets
LOCAL INSTANCE SequencesExt

CONSTANT Unknown                \* no phone, no name

MoneyEps == 100
SumDateWindowDays == 14

Distance(a, b) == IF a > b THEN a - b ELSE b - a
SamePhone(deal, order) == deal.phone # Unknown /\ deal.phone = order.phone
SameName(deal, order) == order.name # Unknown /\ deal.name = order.name
SameMoney(a, b) == Distance(a, b) <= MoneyEps
DaysApart(deal, order) == Distance(deal.created, order.created)

\* PRIORITY of the rules: the first that applies; 5 when none does.
NoReason == 5
ReasonFor(deal, order) ==
  LET sum == SameMoney(deal.money, order.money)
      rules == << SamePhone(deal, order) /\ sum,
                  sum /\ SameName(deal, order),
                  SamePhone(deal, order),
                  SameName(deal, order),
                  sum /\ DaysApart(deal, order) <= SumDateWindowDays >>
  IN  Cardinality({i \in 1..5 : \A j \in 1..i : ~rules[j]})

\* candidates.sort: the stronger first, then the nearer in time; a stable sort leaves
\* equal ones as they were listed, which is by their ids here.
Before(c, d) == c.rank < d.rank \/ (c.rank = d.rank /\ c.days < d.days)
Listed(c, d) == c.left.id < d.left.id \/ (c.left.id = d.left.id /\ c.right.id < d.right.id)
Foremost(candidates) ==
  CHOOSE c \in candidates : \A d \in candidates \ {c} : Before(c, d) \/ (~Before(d, c) /\ Listed(c, d))

Clash(c, d) == c.left = d.left \/ c.right = d.right

\* A plausible slip: the order remembered as used, the deal forgotten.
TakeForgettingDeal(pairs, c) == IF \E p \in pairs : p.right = c.right THEN pairs ELSE pairs \union {c}

Take(pairs, c) == IF \E p \in pairs : Clash(p, c) THEN pairs ELSE pairs \union {c}

\* The loop of matchDealsToOrders and of matchLinesToDeals over the sorted candidates.
Pairs(candidates) ==
  LET Visit(done, i) ==
        LET c == Foremost(done.left) IN [left |-> done.left \ {c}, pairs |-> Take(done.pairs, c)]
  IN  FoldLeft(Visit, [left |-> candidates, pairs |-> {}], [i \in 1..Cardinality(candidates) |-> i]).pairs

DealCandidates(deals, orders) ==
  {c \in {[left |-> d, right |-> o, rank |-> ReasonFor(d, o), days |-> DaysApart(d, o)] : d \in deals, o \in orders} :
     c.rank # NoReason}

LineCandidates(lines, deals) ==
  {[left |-> l, right |-> d, rank |-> Distance(l.money, d.money), days |-> DaysApart(l, d)] :
     <<l, d>> \in {p \in lines \X deals : SameMoney(p[1].money, p[2].money)}}

MatchDealsToOrders(deals, orders) == Pairs(DealCandidates(deals, orders))
MatchLinesToDeals(lines, deals) == Pairs(LineCandidates(lines, deals))

\* What a list of suggestions promises: nobody twice, and whoever is left out was
\* taken by a pair at least as strong ("занятые более сильной парой").
OneToOne(pairs) == \A p, q \in pairs : Clash(p, q) => p = q
Fair(candidates, pairs) == \A c \in candidates : \E p \in pairs : Clash(p, c) /\ ~Before(c, p)
Sound(candidates, pairs) == pairs \subseteq candidates /\ OneToOne(pairs) /\ Fair(candidates, pairs)
=============================================================================
