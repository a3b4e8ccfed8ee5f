------------------------------- MODULE Market -------------------------------
(***************************************************************************)
(* The bonded market (gyza/economy/market.py) and the rounds that settle   *)
(* it (gyza/economy/resolution.py).  Agents bond a stake on a claim; a     *)
(* round takes the open tasks with the most contested stake and settles    *)
(* each against a signed verdict, or refunds it.  Capital is the fold of   *)
(* the entries that _credit appends, kept here as its value per agent; a   *)
(* share of a pot is exact, where the code has floats.                     *)
(***************************************************************************)
EXTENDS Integers, FiniteSetsExt

CONSTANTS
    Traders,
    Seed,           \* [Traders -> Nat]: initial_capital
    MarketTasks,
    MarketClaims,
    Stakes,         \* multiples of a unit that makes every share whole
    Truths,         \* what the checker may find, also what nobody claims
    RoundBudget,    \* tasks resolved in a round
    MaxSubmits      \* bound on accepted submissions

ASSUME MarketAssumption ==
    /\ Seed \in [Traders -> Nat] /\ IsFiniteSet(Traders) /\ IsFiniteSet(MarketTasks)
    /\ Stakes \subseteq Nat \ {0}
    /\ RoundBudget \in Nat \ {0} /\ MaxSubmits \in Nat

VARIABLES
    capital,    \* [Traders -> Int]: fold_capital of the entries
    bonds,      \* [MarketTasks -> SUBSET assertions]: _open
    escrow,     \* [MarketTasks -> [Traders -> Nat]], 0 for none
    truth,      \* [MarketTasks -> Truths]: what is the case
    todo,       \* tasks of the round under way
    said,       \* history: [Traders -> SUBSET <<task, claim>>], all bonded claims
    submits     \* accepted submissions

marketVars == <<capital, bonds, escrow, truth, todo, said, submits>>

NoEscrow == [a \in Traders |-> 0]
SumOf(f) == MapThenSumSet(LAMBDA x : f[x], DOMAIN f)
StakeOf(B) == MapThenSumSet(LAMBDA b : b.stake, B)
Open == {t \in MarketTasks : bonds[t] # {}}

-----------------------------------------------------------------------------
(* A verified assertion; any holder may submit it, and again once its task  *)
(* was settled or cancelled, as nothing remembers its nonce.                *)
submit(t, b) ==
    /\ todo = {} /\ submits < MaxSubmits
    /\ escrow[t][b.agent] = 0 /\ capital[b.agent] >= b.stake
    /\ capital' = [capital EXCEPT ![b.agent] = @ - b.stake]
    /\ bonds' = [bonds EXCEPT ![t] = @ \cup {b}]
    /\ escrow' = [escrow EXCEPT ![t][b.agent] = @ + b.stake]
    /\ said' = [said EXCEPT ![b.agent] = @ \cup {<<t, b.claim>>}]
    /\ submits' = submits + 1
    /\ UNCHANGED <<truth, todo>>

(* What would change hands.                                                 *)
contested_stake(t) ==
    LET byClaim == [c \in MarketClaims |-> StakeOf({b \in bonds[t] : b.claim = c})]
    IN SumOf(byClaim) - Max({byClaim[c] : c \in MarketClaims})

(* The budget's worth of open tasks with the highest contested stake; ties  *)
(* go by the order of submission, here any.                                 *)
select_targeted ==
    /\ todo = {} /\ Open # {}
    /\ \E T \in SUBSET Open :
         /\ Cardinality(T) = Min({RoundBudget, Cardinality(Open)})
         /\ \A t \in T, u \in Open \ T : contested_stake(t) >= contested_stake(u)
         /\ todo' = T
    /\ UNCHANGED <<capital, bonds, escrow, truth, said, submits>>

Winners(B, v) == {b \in B : b.claim = v}

ShareAmongWrong(B, v, b) ==
    LET wrong == B \ Winners(B, v) IN
    IF wrong = {} THEN 0
    ELSE IF b \in wrong THEN ((StakeOf(B) - StakeOf(wrong)) * b.stake) \div StakeOf(wrong)
    ELSE - b.stake

PotKept(B, v, b) == IF b \in Winners(B, v) THEN 0 ELSE - b.stake

(* settle: the profit or loss of the assertion b among B, given the truth v. *)
pnl(B, v, b) ==
    LET won == StakeOf(Winners(B, v)) IN
    IF won = 0 THEN 0
    ELSE IF b \in Winners(B, v) THEN ((StakeOf(B) - won) * b.stake) \div won
    ELSE - b.stake

PaidOut(t, v) ==
    [a \in Traders |->
        capital[a] + escrow[t][a]
          + MapThenSumSet(LAMBDA b : pnl(bonds[t], v, b), {b \in bonds[t] : b.agent = a})]

EscrowKept(t) ==
    /\ bonds' = [bonds EXCEPT ![t] = {}]
    /\ todo' = todo \ {t}
    /\ UNCHANGED <<escrow, truth, said, submits>>

Closed(t) ==
    /\ bonds' = [bonds EXCEPT ![t] = {}]
    /\ escrow' = [escrow EXCEPT ![t] = NoEscrow]
    /\ todo' = todo \ {t}
    /\ UNCHANGED <<truth, said, submits>>

(* resolve_round at t: a verified verdict settles, none or a bad one        *)
(* refunds.                                                                 *)
resolve(t) ==
    /\ t \in todo
    /\ capital' = PaidOut(t, truth[t])
    /\ Closed(t)

cancel(t) ==
    /\ t \in todo
    /\ capital' = [a \in Traders |-> capital[a] + escrow[t][a]]
    /\ Closed(t)

MarketInit ==
    /\ capital = Seed
    /\ bonds = [t \in MarketTasks |-> {}]
    /\ escrow = [t \in MarketTasks |-> NoEscrow]
    /\ truth \in [MarketTasks -> Truths]
    /\ todo = {} /\ said = [a \in Traders |-> {}] /\ submits = 0

Assertions == [agent : Traders, claim : MarketClaims, stake : Stakes]

MarketNext ==
    \/ \E t \in MarketTasks : \/ \E b \in Assertions : submit(t, b)
                              \/ resolve(t) \/ cancel(t)
    \/ select_targeted

-----------------------------------------------------------------------------
(* The escrow is what the open assertions bonded, one per agent and task.   *)
MarketTypeOK ==
    /\ capital \in [Traders -> Nat] /\ todo \subseteq Open
    /\ \A t \in MarketTasks : \A a \in Traders :
         /\ escrow[t][a] = StakeOf({b \in bonds[t] : b.agent = a})
         /\ Cardinality({b \in bonds[t] : b.agent = a}) <= 1

Wealth(a) == capital[a] + MapThenSumSet(LAMBDA t : escrow[t][a], MarketTasks)

(* Through any sequence of bonds, settlements and refunds, with or without  *)
(* a winner, capital and escrow together are what the market was seeded     *)
(* with.                                                                    *)
CapitalConserved == MapThenSumSet(Wealth, Traders) = SumOf(Seed)

Right(a) == \A s \in said[a] : s[2] = truth[s[1]]
Wrong(a) == \A s \in said[a] : s[2] # truth[s[1]]

(* An agent that only bonds on what is the case never falls below its       *)
(* seed, and one that never does never rises above it, whoever it bonds     *)
(* against and whichever tasks a round reaches.                             *)
InfluenceFollowsTruth ==
    \A a \in Traders : /\ Right(a) => Wealth(a) >= Seed[a]
                       /\ Wrong(a) => Wealth(a) <= Seed[a]

(* Capital is conserved and moves from the wrong to the right (settle), in  *)
(* whatever rounds are held: when a bond is released is left to whoever     *)
(* holds them, since select_targeted may pass over a task nobody contests   *)
(* for as long as others are contested anew.                                *)
CapitalFollowsTruth == MarketTypeOK /\ CapitalConserved /\ InfluenceFollowsTruth
=============================================================================
