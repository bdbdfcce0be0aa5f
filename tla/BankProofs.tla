----------------------------- MODULE BankProofs -----------------------------
(***************************************************************************)
(* Proofs about Bank, for any players, offices, amounts and rates: no      *)
(* balance, purse or guild account ever goes below zero, and gold is       *)
(* neither made nor lost.                                                  *)
(***************************************************************************)
EXTENDS Bank, FiniteSums

-----------------------------------------------------------------------------
(* Taxes are natural numbers and at most what they are levied on. *)

\* Quotients of natural numbers, for the divisors the code uses.
LEMMA Quotients ==
    ASSUME NEW a \in Nat
    PROVE  /\ a \div 20 \in Nat /\ a \div 20 <= a
           /\ a \div 5 \in Nat /\ a \div 5 <= a
           /\ a \div 4 \in Nat /\ a \div 4 <= a
           /\ a \div 100 \in Nat
  BY SMT

\* The IOF of the bank NPC (bank_system.lua, iofBreakdown) is at most the amount,
\* and the shares are natural numbers.
LEMMA IofBounds ==
    ASSUME NEW a \in Nat
    PROVE  /\ Iof(a) \in Nat /\ Iof(a) <= a
           /\ IofFederal(a) \in Nat /\ IofEach(a) \in Nat
  <1>1. Iof(a) \in Nat /\ Iof(a) <= a
    BY Quotients DEF Iof
  <1>2. IofFederal(a) \in Nat /\ IofFederal(a) <= Iof(a)
    BY <1>1, Quotients DEF IofFederal
  <1>3. Iof(a) - IofFederal(a) \in Nat
    BY <1>1, <1>2
  <1>4. IofEach(a) \in Nat
    BY <1>3, Quotients DEF IofEach
  <1> QED BY <1>1, <1>2, <1>4

\* A rate between 0 and 15 per cent takes at most 15 hundredths, rounded down.
LEMMA Percent ==
    ASSUME NEW a \in Nat, NEW r \in 0 .. 15
    PROVE  (a * r) \div 100 \in Nat /\ 5 * ((a * r) \div 100) <= a
  <1>1. a * r \in Nat /\ a * r <= 15 * a
    BY SMT
  <1> QED BY <1>1, SMT

\* The federal and state taxes on a sale are together at most its price.
LEMMA TaxBounds ==
    ASSUME TypeOK, NEW p \in Player, NEW a \in Nat
    PROVE  /\ Federal(a) \in Nat /\ State(p, a) \in Nat
           /\ Tax(p, a) \in Nat /\ Tax(p, a) <= a
  <1>1. rate[0] \in 0 .. 15
    BY DEF TypeOK
  <1>2. (IF Kingdom[p] = 0 THEN 0 ELSE rate[Kingdom[p]]) \in 0 .. 15
    BY BankAssumption DEF TypeOK
  <1>3. Federal(a) \in Nat /\ 5 * Federal(a) <= a
    BY <1>1, Percent DEF Federal
  <1>4. State(p, a) \in Nat /\ 5 * State(p, a) <= a
    BY <1>2, Percent DEF State
  <1> QED BY <1>3, <1>4 DEF Tax

-----------------------------------------------------------------------------
(* Operations on balances. *)

\* Adding to one account, or taking from it no more than it holds.
LEMMA AddType ==
    ASSUME NEW f \in [Player -> Nat], NEW p, NEW n \in Int,
           p \in Player => f[p] + n >= 0
    PROVE  /\ Add(f, p, n) \in [Player -> Nat]
           /\ p \in Player => Add(f, p, n)[p] = f[p] + n
           /\ \A q \in Player \ {p} : Add(f, p, n)[q] = f[q]
  <1>1. CASE p \in Player
    <2>1. f[p] + n \in Nat
      BY <1>1
    <2> QED BY <1>1, <2>1 DEF Add
  <1>2. CASE p \notin Player
    BY <1>2 DEF Add
  <1> QED BY <1>1, <1>2

LEMMA HeldType ==
    ASSUME TypeOK
    PROVE  /\ Held \in [Player -> Nat]
           /\ \A p \in online : p \in Player /\ Held[p] = balance[p]
  BY DEF TypeOK, Held

LEMMA SetHeldType ==
    ASSUME TypeOK, NEW h \in [Player -> Nat], SetHeld(h)
    PROVE  balance' \in [Player -> Nat] /\ row' \in [Player -> Nat]
  BY DEF TypeOK, SetHeld

LEMMA DistributeIofType ==
    ASSUME NEW h \in [Player -> Nat], NEW a \in Nat
    PROVE  DistributeIof(h, a) \in [Player -> Nat]
  <1>1. IofFederal(a) \in Nat /\ IofEach(a) \in Nat
    BY IofBounds
  <1> QED BY <1>1 DEF DistributeIof

LEMMA DistributeTaxType ==
    ASSUME TypeOK, NEW h \in [Player -> Nat], NEW p \in Player, NEW a \in Nat
    PROVE  DistributeTax(h, p, a) \in [Player -> Nat]
  <1>1. Federal(a) \in Nat /\ State(p, a) \in Nat
    BY TaxBounds
  <1> QED BY <1>1 DEF DistributeTax

\* Spending takes coins first and the rest from the balance.
LEMMA SpendType ==
    ASSUME TypeOK, NEW p \in online, NEW n \in Nat, CanSpend(p, n)
    PROVE  /\ Spend(p, n).money \in [Player -> Nat]
           /\ Spend(p, n).held \in [Player -> Nat]
  <1> DEFINE c == IF money[p] < n THEN money[p] ELSE n
  <1>1. p \in Player /\ money \in [Player -> Nat] /\ money[p] \in Nat /\ balance[p] \in Nat
    BY DEF TypeOK
  <1>2. Held \in [Player -> Nat] /\ Held[p] = balance[p]
    BY HeldType
  <1>3. c \in Nat /\ c <= money[p] /\ c <= n /\ n - c <= balance[p]
    BY <1>1 DEF CanSpend
  <1>4. Spend(p, n) = [money |-> Add(money, p, - c), held |-> Add(Held, p, c - n)]
    BY DEF Spend
  <1> HIDE DEF c
  <1>5. Add(money, p, - c) \in [Player -> Nat]
    BY <1>1, <1>3, AddType
  <1>6. Add(Held, p, c - n) \in [Player -> Nat]
    BY <1>1, <1>2, <1>3, AddType
  <1> QED BY <1>4, <1>5, <1>6

LEMMA MovesType ==
    ASSUME TypeOK, NEW x \in Nat, NEW y \in Nat, NEW z \in Nat, Moves(x, y, z)
    PROVE  book' \in [paid : Nat, earned : Nat, taxed : Nat, moves : Nat]
  BY DEF TypeOK, Moves

\* The dialogue: what the NPC remembers is a topic, an amount and a name.
LEMMA SaidType ==
    ASSUME TypeOK, NEW p \in Player, NEW t \in Topic, NEW n \in Nat,
           NEW q \in Player \cup {Nobody}, Said(p, t, n, q)
    PROVE  TypeOK'
  BY DEF TypeOK, Said, Saying, accounts, state

LEMMA EndTalkType ==
    ASSUME TypeOK, NEW p \in Player, EndTalk(p)
    PROVE  talk' \in [Player -> [topic : Topic, count : Nat, to : Player \cup {Nobody}]]
  BY DEF TypeOK, EndTalk, Idle, Saying, Topic

LEMMA RefuseType ==
    ASSUME TypeOK, NEW p \in Player, Refuse(p)
    PROVE  TypeOK'
  BY EndTalkType DEF TypeOK, Refuse, accounts, state

-----------------------------------------------------------------------------
(* The bank NPC's operations. *)

LEMMA DepositType ==
    ASSUME TypeOK, NEW p \in online, NEW a \in Nat, Deposit(p, a)
    PROVE  TypeOK'
  <1> DEFINE h == Add(Held, p, a - Iof(a))
  <1>1. p \in Player /\ Held \in [Player -> Nat] /\ money \in [Player -> Nat]
    BY HeldType DEF TypeOK
  <1>2. Iof(a) \in Nat /\ Iof(a) <= a
    BY IofBounds
  <1>3. money' \in [Player -> Nat]
    BY <1>1, AddType DEF Deposit
  <1>4. h \in [Player -> Nat]
    BY <1>1, <1>2, AddType
  <1>5. SetHeld(DistributeIof(h, a))
    BY DEF Deposit
  <1> HIDE DEF h
  <1>6. balance' \in [Player -> Nat] /\ row' \in [Player -> Nat]
    BY <1>4, <1>5, DistributeIofType, SetHeldType
  <1>7. book' \in [paid : Nat, earned : Nat, taxed : Nat, moves : Nat]
    BY <1>2, MovesType DEF Deposit
  <1>8. talk' \in [Player -> [topic : Topic, count : Nat, to : Player \cup {Nobody}]]
    BY <1>1, EndTalkType DEF Deposit
  <1> QED BY <1>3, <1>6, <1>7, <1>8 DEF TypeOK, Deposit, state

LEMMA WithdrawType ==
    ASSUME TypeOK, NEW p \in online, NEW a \in Nat, Withdraw(p, a)
    PROVE  TypeOK'
  <1> DEFINE h == Add(Held, p, - a)
  <1>1. /\ p \in Player /\ Held \in [Player -> Nat] /\ money \in [Player -> Nat]
        /\ Held[p] >= a
    BY HeldType DEF TypeOK, Withdraw
  <1>2. Iof(a) \in Nat /\ Iof(a) <= a
    BY IofBounds
  <1>3. money' \in [Player -> Nat]
    BY <1>1, <1>2, AddType DEF Withdraw
  <1>4. h \in [Player -> Nat]
    BY <1>1, AddType
  <1>5. SetHeld(DistributeIof(h, a))
    BY DEF Withdraw
  <1> HIDE DEF h
  <1>6. balance' \in [Player -> Nat] /\ row' \in [Player -> Nat]
    BY <1>4, <1>5, DistributeIofType, SetHeldType
  <1>7. book' \in [paid : Nat, earned : Nat, taxed : Nat, moves : Nat]
    BY <1>2, MovesType DEF Withdraw
  <1>8. talk' \in [Player -> [topic : Topic, count : Nat, to : Player \cup {Nobody}]]
    BY <1>1, EndTalkType DEF Withdraw
  <1> QED BY <1>3, <1>6, <1>7, <1>8 DEF TypeOK, Withdraw, state

\* The sender's balance covers net amount and tax, which is taken after the
\* recipient was credited.
LEMMA TransferType ==
    ASSUME TypeOK, NEW p \in online, NEW q \in Player \cup {Nobody}, NEW a \in Nat,
           Transfer(p, q, a)
    PROVE  TypeOK'
  <1> DEFINE h1 == Add(Held, p, Iof(a) - a)
             h2 == Add(h1, q, a - Iof(a))
             h3 == Add(h2, p, - Iof(a))
  <1>1. p \in Player /\ Held \in [Player -> Nat] /\ Held[p] >= a + Iof(a)
    BY HeldType DEF TypeOK, Transfer
  <1>2. Iof(a) \in Nat /\ Iof(a) <= a
    BY IofBounds
  <1>3. h1 \in [Player -> Nat] /\ h1[p] >= Iof(a) + Iof(a)
    BY <1>1, <1>2, AddType
  <1>4. SetHeld(DistributeIof(h3, a))
    BY DEF Transfer
  <1> HIDE DEF h1
  <1>5. h2 \in [Player -> Nat] /\ h2[p] >= h1[p]
    <2>1. a - Iof(a) \in Nat /\ h1[p] \in Nat
      BY <1>1, <1>2, <1>3
    <2>2. h2 \in [Player -> Nat]
      BY <2>1, <1>3, AddType
    <2>3. CASE q = p
      BY <2>1, <2>3, <1>1, <1>3, AddType
    <2>4. CASE q # p
      BY <2>1, <2>4, <1>1, <1>3, AddType
    <2> QED BY <2>2, <2>3, <2>4
  <1> HIDE DEF h2
  <1>6. h3 \in [Player -> Nat]
    BY <1>1, <1>2, <1>3, <1>5, AddType
  <1> HIDE DEF h3
  <1>7. balance' \in [Player -> Nat] /\ row' \in [Player -> Nat]
    BY <1>4, <1>6, DistributeIofType, SetHeldType
  <1>8. book' \in [paid : Nat, earned : Nat, taxed : Nat, moves : Nat]
    BY <1>2, MovesType DEF Transfer
  <1>9. talk' \in [Player -> [topic : Topic, count : Nat, to : Player \cup {Nobody}]]
    BY <1>1, EndTalkType DEF Transfer
  <1> QED BY <1>7, <1>8, <1>9 DEF TypeOK, Transfer, state

\* Every message the NPC hears.
LEMMA HearType ==
    ASSUME TypeOK, NEW p \in online, NEW m \in Message, Hear(p, m)
    PROVE  TypeOK'
  <1>1. /\ p \in Player /\ m.amount \in Nat /\ m.to \in Player \cup {Nobody}
        /\ money[p] \in Nat /\ balance[p] \in Nat
        /\ talk[p].count \in Nat /\ talk[p].to \in Player \cup {Nobody}
    <2>1. p \in Player /\ money[p] \in Nat /\ balance[p] \in Nat
      BY DEF TypeOK
    <2>2. talk[p] \in [topic : Topic, count : Nat, to : Player \cup {Nobody}]
      BY <2>1 DEF TypeOK
    <2>3. Amount \cup {0} \subseteq Nat
      BY BankAssumption
    <2>4. m.amount \in Amount \cup {0} /\ m.to \in Player \cup {Nobody}
      BY DEF Message
    <2> QED BY <2>1, <2>2, <2>3, <2>4
  <1>2. /\ Nobody \in Player \cup {Nobody} /\ 0 \in Nat
        /\ {"depositAmount", "deposit", "withdrawAmount", "withdraw", "transferAmount",
            "transferName", "transfer", "change"} \subseteq Topic
    BY DEF Topic
  <1>3. ASSUME NEW a \in Nat, OfferDeposit(p, a) PROVE TypeOK'
    BY <1>1, <1>2, <1>3, SaidType, RefuseType DEF OfferDeposit
  <1>4. ASSUME NEW a \in Nat, OfferWithdraw(p, a) PROVE TypeOK'
    BY <1>1, <1>2, <1>4, SaidType, RefuseType DEF OfferWithdraw
  <1>5. ASSUME NEW a \in Nat, NEW q \in Player \cup {Nobody}, NameRecipient(p, a, q)
        PROVE  TypeOK'
    BY <1>1, <1>2, <1>5, SaidType, RefuseType DEF NameRecipient
  <1>6. CASE AskDeposit(p, m)
    BY <1>1, <1>2, <1>3, <1>6, SaidType DEF AskDeposit
  <1>7. CASE NameDeposit(p, m)
    BY <1>1, <1>3, <1>7 DEF NameDeposit
  <1>8. CASE AnswerDeposit(p, m)
    BY <1>1, <1>8, DepositType, RefuseType DEF AnswerDeposit
  <1>9. CASE AskWithdraw(p, m)
    BY <1>1, <1>2, <1>4, <1>9, SaidType DEF AskWithdraw
  <1>10. CASE NameWithdraw(p, m)
    BY <1>1, <1>4, <1>10 DEF NameWithdraw
  <1>11. CASE AnswerWithdraw(p, m)
    BY <1>1, <1>11, WithdrawType, RefuseType DEF AnswerWithdraw
  <1>12. CASE AskTransfer(p, m)
    BY <1>1, <1>2, <1>5, <1>12, SaidType, RefuseType DEF AskTransfer
  <1>13. CASE NameTransfer(p, m)
    BY <1>1, <1>2, <1>13, SaidType, RefuseType DEF NameTransfer
  <1>14. CASE NameTransferee(p, m)
    BY <1>1, <1>5, <1>14 DEF NameTransferee
  <1>15. CASE AnswerTransfer(p, m)
    BY <1>1, <1>15, TransferType, RefuseType DEF AnswerTransfer
  <1>16. CASE ChangeCoins(p, m)
    BY <1>1, <1>2, <1>16, SaidType, RefuseType DEF ChangeCoins
  <1> QED BY <1>6, <1>7, <1>8, <1>9, <1>10, <1>11, <1>12, <1>13, <1>14, <1>15, <1>16 DEF Hear

-----------------------------------------------------------------------------
(* The guild's account and the shops. *)

LEMMA GuildType ==
    ASSUME TypeOK, NEW p \in online, NEW a \in Nat,
           GuildDeposit(p, a) \/ GuildWithdraw(p, a)
    PROVE  TypeOK'
  <1>1. p \in Player /\ Held \in [Player -> Nat] /\ Held[p] = balance[p] /\ guild \in Nat
    BY HeldType DEF TypeOK
  <1>2. book' \in [paid : Nat, earned : Nat, taxed : Nat, moves : Nat]
    BY MovesType DEF GuildDeposit, GuildWithdraw
  <1>3. talk' \in [Player -> [topic : Topic, count : Nat, to : Player \cup {Nobody}]]
    BY <1>1, EndTalkType DEF GuildDeposit, GuildWithdraw
  <1>4. CASE GuildDeposit(p, a)
    <2>1. Add(Held, p, - a) \in [Player -> Nat]
      BY <1>1, <1>4, AddType DEF GuildDeposit
    <2>2. balance' \in [Player -> Nat] /\ row' \in [Player -> Nat]
      BY <1>4, <2>1, SetHeldType DEF GuildDeposit
    <2> QED BY <1>1, <1>2, <1>3, <1>4, <2>2 DEF TypeOK, GuildDeposit, state
  <1>5. CASE GuildWithdraw(p, a)
    <2>1. Add(Held, p, a) \in [Player -> Nat]
      BY <1>1, AddType
    <2>2. balance' \in [Player -> Nat] /\ row' \in [Player -> Nat]
      BY <1>5, <2>1, SetHeldType DEF GuildWithdraw
    <2>3. guild' \in Nat
      BY <1>1, <1>5 DEF GuildWithdraw
    <2> QED BY <1>2, <1>3, <1>5, <2>2, <2>3 DEF TypeOK, GuildWithdraw, state
  <1> QED BY <1>4, <1>5

LEMMA BuyType ==
    ASSUME TypeOK, NEW p \in online, NEW a \in Nat, Buy(p, a)
    PROVE  TypeOK'
  <1>1. p \in Player /\ Tax(p, a) \in Nat
    BY TaxBounds DEF TypeOK
  <1>2. CASE CanSpend(p, a + Tax(p, a))
    <2> DEFINE left == Spend(p, a + Tax(p, a))
    <2>1. left.money \in [Player -> Nat] /\ left.held \in [Player -> Nat]
      BY <1>1, <1>2, SpendType
    <2>2. /\ Moves(a, 0, Tax(p, a)) /\ money' = left.money
          /\ SetHeld(DistributeTax(left.held, p, a))
          /\ UNCHANGED <<online, guild, state, talk>>
      BY <1>2 DEF Buy
    <2> HIDE DEF left
    <2>3. balance' \in [Player -> Nat] /\ row' \in [Player -> Nat]
      BY <1>1, <2>1, <2>2, DistributeTaxType, SetHeldType
    <2>4. book' \in [paid : Nat, earned : Nat, taxed : Nat, moves : Nat]
      BY <1>1, <2>2, MovesType
    <2> QED BY <2>1, <2>2, <2>3, <2>4 DEF TypeOK, state
  <1>3. CASE ~CanSpend(p, a + Tax(p, a))
    <2>1. Moves(0, 0, 0) /\ UNCHANGED <<accounts, state, talk>>
      BY <1>3 DEF Buy
    <2>2. book' \in [paid : Nat, earned : Nat, taxed : Nat, moves : Nat]
      BY <2>1, MovesType
    <2> QED BY <2>1, <2>2 DEF TypeOK, accounts, state
  <1> QED BY <1>2, <1>3

LEMMA SellType ==
    ASSUME TypeOK, NEW p \in online, NEW a \in Nat, Sell(p, a)
    PROVE  TypeOK'
  <1> DEFINE net == a - Tax(p, a)
             h == IF AutoBank THEN Add(Held, p, net) ELSE Held
  <1>1. p \in Player /\ Tax(p, a) \in Nat /\ net \in Nat
    BY TaxBounds DEF TypeOK
  <1>2. Held \in [Player -> Nat] /\ money \in [Player -> Nat]
    BY HeldType DEF TypeOK
  <1>3. /\ Moves(0, a, Tax(p, a)) /\ money' = IF AutoBank THEN money ELSE Add(money, p, net)
        /\ SetHeld(DistributeTax(h, p, a))
        /\ UNCHANGED <<online, guild, state, talk>>
    BY DEF Sell
  <1> HIDE DEF net
  <1>4. Add(money, p, net) \in [Player -> Nat] /\ h \in [Player -> Nat]
    BY <1>1, <1>2, AddType
  <1> HIDE DEF h
  <1>5. balance' \in [Player -> Nat] /\ row' \in [Player -> Nat]
    BY <1>1, <1>3, <1>4, DistributeTaxType, SetHeldType
  <1>6. book' \in [paid : Nat, earned : Nat, taxed : Nat, moves : Nat]
    BY <1>1, <1>3, MovesType
  <1>7. money' \in [Player -> Nat]
    BY <1>2, <1>3, <1>4
  <1> QED BY <1>3, <1>5, <1>6, <1>7 DEF TypeOK, state

LEMMA RemoveMoneyBankType ==
    ASSUME TypeOK, NEW p \in online, NEW a \in Nat, RemoveMoneyBank(p, a)
    PROVE  TypeOK'
  <1> DEFINE left == Spend(p, a + Tax(p, a))
  <1>1. p \in Player /\ Tax(p, a) \in Nat
    BY TaxBounds DEF TypeOK
  <1>2. left.money \in [Player -> Nat] /\ left.held \in [Player -> Nat]
    BY <1>1, SpendType DEF RemoveMoneyBank
  <1>3. /\ Moves(a, 0, Tax(p, a)) /\ money' = left.money
        /\ SetHeld(DistributeTax(left.held, p, a))
        /\ UNCHANGED <<online, guild, state, talk>>
    BY DEF RemoveMoneyBank
  <1> HIDE DEF left
  <1>4. balance' \in [Player -> Nat] /\ row' \in [Player -> Nat]
    BY <1>1, <1>2, <1>3, DistributeTaxType, SetHeldType
  <1>5. book' \in [paid : Nat, earned : Nat, taxed : Nat, moves : Nat]
    BY <1>1, <1>3, MovesType
  <1> QED BY <1>2, <1>3, <1>4, <1>5 DEF TypeOK, state

-----------------------------------------------------------------------------
\* No balance, purse or guild account is ever taken below zero, whatever the
\* players, offices, amounts and rates: each check the code makes before it
\* subtracts (Bank::debit, removeMoney, the bank NPC's hasBalance) covers what
\* is subtracted, and no tax exceeds what it is levied on.
THEOREM TypeCorrect == Spec => []TypeOK
<1>1. Init => TypeOK
  BY BankAssumption DEF Init, TypeOK, Idle, Saying, Topic
<1>2. TypeOK /\ [Next]_vars => TypeOK'
  <2> SUFFICES ASSUME TypeOK, [Next]_vars PROVE TypeOK'
    OBVIOUS
  <2>1. ASSUME NEW p \in Player, Login(p) PROVE TypeOK'
    BY <2>1 DEF TypeOK, Login
  <2>2. ASSUME NEW p \in online, Save(p) PROVE TypeOK'
    BY <2>2 DEF TypeOK, Save, WriteRow
  <2>3. ASSUME NEW p \in online, Logout(p) PROVE TypeOK'
    <3>1. talk' \in [Player -> [topic : Topic, count : Nat, to : Player \cup {Nobody}]]
      BY <2>3, EndTalkType DEF Logout, EndTalk, TypeOK
    <3> QED BY <2>3, <3>1 DEF TypeOK, Logout, WriteRow
  <2>4. ASSUME NEW p \in online, NEW n \in Rate, FederalTax(p, n) \/ StateTax(p, n)
        PROVE  TypeOK'
    <3>1. n \in Nat
      BY BankAssumption
    <3>2. Capped(n, 15) \in 0 .. 15 /\ Capped(n, 10) \in 0 .. 15
      BY <3>1 DEF Capped
    <3> QED BY <2>4, <3>2 DEF TypeOK, FederalTax, StateTax, accounts
  <2>5. CASE Vacancy
    BY <2>5 DEF TypeOK, Vacancy, accounts
  <2>6. ASSUME NEW p \in online, WalkAway(p) PROVE TypeOK'
    BY <2>6, RefuseType DEF WalkAway, TypeOK
  <2>7. ASSUME NEW p \in online, NEW a \in Amount,
               \/ GuildDeposit(p, a) \/ GuildWithdraw(p, a)
               \/ Buy(p, a) \/ Sell(p, a) \/ RemoveMoneyBank(p, a)
        PROVE  TypeOK'
    <3>1. a \in Nat
      BY BankAssumption
    <3> QED BY <2>7, <3>1, GuildType, BuyType, SellType, RemoveMoneyBankType
  <2>8. CASE UNCHANGED vars
    BY <2>8 DEF TypeOK, vars, accounts, state
  <2> QED BY <2>1, <2>2, <2>3, <2>4, <2>5, <2>6, <2>7, <2>8, HearType DEF Next
<1> QED BY <1>1, <1>2, PTL DEF Spec

-----------------------------------------------------------------------------
(* Sums over the players. *)

LEMMA AddSum ==
    ASSUME NEW f \in [Player -> Int], NEW p \in Player, NEW n \in Int
    PROVE  /\ Add(f, p, n) \in [Player -> Int]
           /\ SumFunction(f) \in Int
           /\ SumFunction(Add(f, p, n)) = SumFunction(f) + n
  <1> DEFINE k == Only(Player, p, n)
             s == Add(f, p, n)
  <1>1. k \in [Player -> Int] /\ SumFunction(k) = n
    BY SumOnly, BankAssumption
  <1>2. s \in [Player -> Int] /\ \A x \in Player : s[x] = f[x] + k[x]
    BY DEF Add, Only
  <1> HIDE DEF k, s
  <1>3. SumFunction(s) = SumFunction(f) + SumFunction(k)
    BY <1>1, <1>2, SumPlus, BankAssumption
  <1> QED BY <1>1, <1>2, <1>3, SumType, BankAssumption DEF s

\* Player y, if there is one, is paid n.
Paid(f, y, n) == [x \in Player |-> f[x] + IF x = y THEN n ELSE 0]

LEMMA PaidSum ==
    ASSUME NEW f \in [Player -> Int], NEW y, NEW n \in Nat
    PROVE  /\ Paid(f, y, n) \in [Player -> Int]
           /\ SumFunction(f) \in Int /\ SumFunction(Paid(f, y, n)) \in Int
           /\ SumFunction(Paid(f, y, n)) <= SumFunction(f) + n
  <1> DEFINE k == Only(Player, y, n)
             s == Paid(f, y, n)
  <1>1. k \in [Player -> Int] /\ SumFunction(k) \in 0 .. n
    BY SumOnly, BankAssumption
  <1>2. s \in [Player -> Int] /\ \A x \in Player : s[x] = f[x] + k[x]
    BY DEF Paid, Only
  <1> HIDE DEF k, s
  <1>3. SumFunction(s) = SumFunction(f) + SumFunction(k)
    BY <1>1, <1>2, SumPlus, BankAssumption
  <1>4. SumFunction(f) \in Int /\ SumFunction(s) \in Int
    BY <1>2, SumType, BankAssumption
  <1> QED BY <1>1, <1>2, <1>3, <1>4 DEF s

-----------------------------------------------------------------------------
(* The officers' shares are at most the tax: offices are never held by more
   players than the database's unique keys allow. *)

Officers == \A p \in Player : office[p] \subseteq Elected[p] /\ officeRow[p] \subseteq Elected[p]

President == CHOOSE p \in Player : "president" \in officeRow[p]
Governor(k) == CHOOSE p \in Player : "governor" \in officeRow[p] /\ Kingdom[p] = k

LEMMA OnePresident ==
    ASSUME TypeOK, Officers, NEW p \in Player, "president" \in officeRow[p]
    PROVE  p = President
  <1> DEFINE q == President
  <1>1. q \in Player /\ "president" \in officeRow[q]
    BY DEF President
  <1> HIDE DEF q
  <1>2. "president" \in Elected[p] /\ "president" \in Elected[q]
    BY <1>1 DEF Officers
  <1>3. p = q
    BY <1>1, <1>2, BankAssumption
  <1> QED BY <1>3 DEF q

LEMMA OneGovernor ==
    ASSUME TypeOK, Officers, NEW p \in Player, "governor" \in officeRow[p]
    PROVE  p = Governor(Kingdom[p])
  <1> DEFINE q == Governor(Kingdom[p])
  <1>1. q \in Player /\ "governor" \in officeRow[q] /\ Kingdom[q] = Kingdom[p]
    BY DEF Governor
  <1> HIDE DEF q
  <1>2. "governor" \in Elected[p] /\ "governor" \in Elected[q]
    BY <1>1 DEF Officers
  <1>3. p = q
    BY <1>1, <1>2, BankAssumption
  <1> QED BY <1>3 DEF q

\* distributeIOF pays out at most the IOF that was taken.
LEMMA IofShares ==
    ASSUME TypeOK, Officers, NEW h \in [Player -> Int], NEW a \in Nat
    PROVE  /\ SumFunction(h) \in Int /\ SumFunction(DistributeIof(h, a)) \in Int
           /\ SumFunction(h) <= SumFunction(DistributeIof(h, a))
           /\ SumFunction(DistributeIof(h, a)) <= SumFunction(h) + Iof(a)
  <1> DEFINE F == IofFederal(a)
             E == IofEach(a)
             h0 == Paid(h, President, F)
             h1 == Paid(h0, Governor(1), E)
             h2 == Paid(h1, Governor(2), E)
             h3 == Paid(h2, Governor(3), E)
             h4 == Paid(h3, Governor(4), E)
             d == DistributeIof(h, a)
  <1>1. Iof(a) \in Nat /\ F \in Nat /\ E \in Nat
    BY IofBounds
  <1>2. F + 4 * E <= Iof(a)
    BY <1>1 DEF IofFederal, IofEach
  <1>3. d \in [Player -> Int]
    BY <1>1 DEF DistributeIof
  <1>4. \A x \in Player : h[x] <= d[x]
    BY <1>1 DEF DistributeIof
  <1>5. ASSUME NEW x \in Player PROVE d[x] <= h4[x]
    <2>1. CASE "president" \in officeRow[x]
      <3>1. x = President /\ d[x] = h[x] + F
        BY <2>1, OnePresident DEF DistributeIof
      <3> QED BY <3>1, <1>1 DEF Paid
    <2>2. CASE "president" \notin officeRow[x] /\ "governor" \in officeRow[x] /\ Kingdom[x] # 0
      <3>1. x = Governor(Kingdom[x]) /\ d[x] = h[x] + E
        BY <2>2, OneGovernor DEF DistributeIof
      <3>2. Kingdom[x] \in 1 .. 4
        BY <2>2, BankAssumption
      <3> HIDE DEF F, E, d
      <3>3. CASE Kingdom[x] = 1
        BY <3>1, <3>3, <1>1 DEF Paid
      <3>4. CASE Kingdom[x] = 2
        BY <3>1, <3>4, <1>1 DEF Paid
      <3>5. CASE Kingdom[x] = 3
        BY <3>1, <3>5, <1>1 DEF Paid
      <3>6. CASE Kingdom[x] = 4
        BY <3>1, <3>6, <1>1 DEF Paid
      <3> QED BY <3>2, <3>3, <3>4, <3>5, <3>6
    <2>3. CASE "president" \notin officeRow[x] /\ ~("governor" \in officeRow[x] /\ Kingdom[x] # 0)
      <3>1. d[x] = h[x]
        BY <2>3 DEF DistributeIof
      <3> QED BY <3>1, <1>1 DEF Paid
    <2> QED BY <2>1, <2>2, <2>3
  <1> HIDE DEF F, E, d, h0, h1, h2, h3, h4
  <1>6. h0 \in [Player -> Int] /\ SumFunction(h) \in Int
        /\ SumFunction(h0) \in Int /\ SumFunction(h0) <= SumFunction(h) + F
    BY <1>1, PaidSum DEF h0
  <1>7. h1 \in [Player -> Int] /\ SumFunction(h1) \in Int /\ SumFunction(h1) <= SumFunction(h0) + E
    BY <1>1, <1>6, PaidSum DEF h1
  <1>8. h2 \in [Player -> Int] /\ SumFunction(h2) \in Int /\ SumFunction(h2) <= SumFunction(h1) + E
    BY <1>1, <1>7, PaidSum DEF h2
  <1>9. h3 \in [Player -> Int] /\ SumFunction(h3) \in Int /\ SumFunction(h3) <= SumFunction(h2) + E
    BY <1>1, <1>8, PaidSum DEF h3
  <1>10. h4 \in [Player -> Int] /\ SumFunction(h4) \in Int /\ SumFunction(h4) <= SumFunction(h3) + E
    BY <1>1, <1>9, PaidSum DEF h4
  <1>11. SumFunction(d) \in Int /\ SumFunction(h) <= SumFunction(d) /\ SumFunction(d) <= SumFunction(h4)
    BY <1>3, <1>4, <1>5, <1>10, SumType, SumAtMost, BankAssumption
  <1>12. SumFunction(d) <= SumFunction(h) + Iof(a)
    BY <1>1, <1>2, <1>6, <1>7, <1>8, <1>9, <1>10, <1>11
  <1> QED BY <1>6, <1>11, <1>12 DEF d

\* distributeTax pays out at most the tax that was taken.
LEMMA TaxShares ==
    ASSUME TypeOK, Officers, NEW h \in [Player -> Int], NEW p \in Player, NEW a \in Nat
    PROVE  /\ SumFunction(h) \in Int /\ SumFunction(DistributeTax(h, p, a)) \in Int
           /\ SumFunction(h) <= SumFunction(DistributeTax(h, p, a))
           /\ SumFunction(DistributeTax(h, p, a)) <= SumFunction(h) + Tax(p, a)
  <1> DEFINE F == Federal(a)
             E == State(p, a)
             h0 == Paid(h, President, F)
             h1 == Paid(h0, Governor(Kingdom[p]), E)
             d == DistributeTax(h, p, a)
  <1>1. F \in Nat /\ E \in Nat /\ Tax(p, a) = F + E
    BY TaxBounds DEF Tax
  <1>2. d \in [Player -> Int]
    BY <1>1 DEF DistributeTax
  <1>3. \A x \in Player : h[x] <= d[x]
    BY <1>1 DEF DistributeTax
  <1>4. ASSUME NEW x \in Player PROVE d[x] <= h1[x]
    <2>1. CASE "president" \in officeRow[x]
      <3>1. x = President /\ d[x] = h[x] + F
        BY <2>1, OnePresident DEF DistributeTax
      <3> QED BY <3>1, <1>1 DEF Paid
    <2>2. CASE "president" \notin officeRow[x] /\ "governor" \in officeRow[x] /\ Kingdom[x] = Kingdom[p]
      <3>1. x = Governor(Kingdom[p]) /\ d[x] = h[x] + E
        BY <2>2, OneGovernor DEF DistributeTax
      <3> QED BY <3>1, <1>1 DEF Paid
    <2>3. CASE "president" \notin officeRow[x] /\ ~("governor" \in officeRow[x] /\ Kingdom[x] = Kingdom[p])
      <3>1. d[x] = h[x]
        BY <2>3 DEF DistributeTax
      <3> QED BY <3>1, <1>1 DEF Paid
    <2> QED BY <2>1, <2>2, <2>3
  <1> HIDE DEF F, E, d
  <1>5. h0 \in [Player -> Int] /\ SumFunction(h) \in Int
        /\ SumFunction(h0) \in Int /\ SumFunction(h0) <= SumFunction(h) + F
    BY <1>1, PaidSum
  <1> HIDE DEF h0
  <1>6. h1 \in [Player -> Int] /\ SumFunction(h1) \in Int /\ SumFunction(h1) <= SumFunction(h0) + E
    BY <1>1, <1>5, PaidSum
  <1> HIDE DEF h1
  <1>7. SumFunction(d) \in Int /\ SumFunction(h) <= SumFunction(d) /\ SumFunction(d) <= SumFunction(h1)
    BY <1>2, <1>3, <1>4, <1>6, SumType, SumAtMost, BankAssumption
  <1>8. SumFunction(d) <= SumFunction(h) + Tax(p, a)
    BY <1>1, <1>5, <1>6, <1>7
  <1> QED BY <1>5, <1>7, <1>8 DEF d

-----------------------------------------------------------------------------
(* Gold is conserved. *)

\* The NPC takes a transfer to "yes" only when the recipient is a player.
Named == \A p \in Player : talk[p].topic = "transfer" => talk[p].to \in Player

\* The inductive invariant.
BankInv == TypeOK /\ Officers /\ Named /\ Conserved

\* A step that pays and earns at shops, and of whose tax some part is lost.
Balanced(paid, earned, taxed) ==
    /\ Total' <= Total + earned - paid
    /\ Total' >= Total + earned - paid - taxed

LEMMA TotalType ==
    ASSUME TypeOK
    PROVE  /\ money \in [Player -> Int] /\ Held \in [Player -> Int]
           /\ SumFunction(money) \in Int /\ SumFunction(Held) \in Int
           /\ guild \in Int /\ Total \in Int
           /\ SumFunction(Coins) \in Int /\ SumFunction(Savings) \in Int
  <1>1. money \in [Player -> Int] /\ Held \in [Player -> Int] /\ guild \in Int
    BY HeldType DEF TypeOK
  <1>2. Coins \in [Player -> Int] /\ Savings \in [Player -> Int]
    BY BankAssumption
  <1> QED BY <1>1, <1>2, SumType, BankAssumption DEF Total

LEMMA BooksClose ==
    ASSUME TypeOK, TypeOK', Conserved, NEW x \in Nat, NEW y \in Nat, NEW z \in Nat,
           Moves(x, y, z), Balanced(x, y, z)
    PROVE  Conserved'
  <1>1. Total \in Int /\ SumFunction(Coins) \in Int /\ SumFunction(Savings) \in Int
    BY TotalType
  <1>2. Total' \in Int
    <2>1. money' \in [Player -> Int] /\ Held' \in [Player -> Int] /\ guild' \in Int
      BY DEF TypeOK, Held
    <2> QED BY <2>1, SumType, BankAssumption DEF Total
  <1>3. book.paid \in Nat /\ book.earned \in Nat /\ book.taxed \in Nat
    BY DEF TypeOK
  <1>4. /\ book'.paid = book.paid + x
        /\ book'.earned = book.earned + y
        /\ book'.taxed = book.taxed + z
    BY DEF Moves
  <1> QED BY <1>1, <1>2, <1>3, <1>4 DEF Conserved, Balanced

\* A step that leaves money where it is.
LEMMA NothingMoves ==
    ASSUME Conserved, UNCHANGED <<money, guild, book>>, Held' = Held
    PROVE  Conserved'
  BY DEF Conserved, Total

LEMMA SetHeldHeld ==
    ASSUME NEW h \in [Player -> Int], SetHeld(h), UNCHANGED online
    PROVE  Held' = h
  <1>1. \A p \in Player : Held'[p] = h[p]
    BY DEF SetHeld, Held
  <1> QED BY <1>1 DEF Held

LEMMA RefuseMoves ==
    ASSUME NEW p \in Player, Conserved, Refuse(p)
    PROVE  Conserved'
  BY NothingMoves DEF Refuse, accounts, Held

LEMMA SaidMoves ==
    ASSUME NEW p, NEW t, NEW n, NEW q, Conserved, Said(p, t, n, q)
    PROVE  Conserved'
  BY NothingMoves DEF Said, accounts, Held

-----------------------------------------------------------------------------
(* The bank NPC's operations. *)

LEMMA DepositMoves ==
    ASSUME TypeOK, Officers, NEW p \in online, NEW a \in Nat, Deposit(p, a)
    PROVE  Moves(0, 0, Iof(a)) /\ Balanced(0, 0, Iof(a))
  <1> DEFINE h == Add(Held, p, a - Iof(a))
             d == DistributeIof(h, a)
  <1>1. p \in Player /\ Iof(a) \in Nat
    BY IofBounds DEF TypeOK
  <1>2. SumFunction(Add(money, p, - a)) = SumFunction(money) - a
    <2>1. - a \in Int /\ SumFunction(money) + (- a) = SumFunction(money) - a
      BY TotalType
    <2> QED BY <1>1, <2>1, TotalType, AddSum
  <1>3. h \in [Player -> Int] /\ SumFunction(h) = SumFunction(Held) + (a - Iof(a))
    BY <1>1, TotalType, AddSum
  <1>4. SetHeld(d) /\ UNCHANGED <<online, guild>> /\ money' = Add(money, p, - a) /\ Moves(0, 0, Iof(a))
    BY DEF Deposit
  <1> HIDE DEF h
  <1>5. d \in [Player -> Int]
    BY <1>1, <1>3, IofBounds DEF DistributeIof
  <1>6. SumFunction(d) \in Int /\ SumFunction(h) <= SumFunction(d) /\ SumFunction(d) <= SumFunction(h) + Iof(a)
    BY <1>3, IofShares
  <1> HIDE DEF d
  <1>7. Held' = d
    BY <1>4, <1>5, SetHeldHeld
  <1>8. Total' = SumFunction(money) - a + SumFunction(d) + guild
    BY <1>2, <1>4, <1>7 DEF Total
  <1> QED BY <1>1, <1>3, <1>4, <1>6, <1>8, TotalType DEF Balanced, Total

LEMMA WithdrawMoves ==
    ASSUME TypeOK, Officers, NEW p \in online, NEW a \in Nat, Withdraw(p, a)
    PROVE  Moves(0, 0, Iof(a)) /\ Balanced(0, 0, Iof(a))
  <1> DEFINE h == Add(Held, p, - a)
             d == DistributeIof(h, a)
  <1>1. p \in Player /\ Iof(a) \in Nat
    BY IofBounds DEF TypeOK
  <1>2. SumFunction(Add(money, p, a - Iof(a))) = SumFunction(money) + (a - Iof(a))
    <2>1. a - Iof(a) \in Int
      BY <1>1
    <2> QED BY <1>1, <2>1, TotalType, AddSum
  <1>3. h \in [Player -> Int] /\ SumFunction(h) = SumFunction(Held) - a
    BY <1>1, TotalType, AddSum
  <1>4. /\ SetHeld(d) /\ UNCHANGED <<online, guild>> /\ Moves(0, 0, Iof(a))
        /\ money' = Add(money, p, a - Iof(a))
    BY DEF Withdraw
  <1> HIDE DEF h
  <1>5. d \in [Player -> Int]
    BY <1>1, <1>3, IofBounds DEF DistributeIof
  <1>6. SumFunction(d) \in Int /\ SumFunction(h) <= SumFunction(d) /\ SumFunction(d) <= SumFunction(h) + Iof(a)
    BY <1>3, IofShares
  <1> HIDE DEF d
  <1>7. Held' = d
    BY <1>4, <1>5, SetHeldHeld
  <1>8. Total' = SumFunction(money) + (a - Iof(a)) + SumFunction(d) + guild
    BY <1>2, <1>4, <1>7 DEF Total
  <1> QED BY <1>1, <1>3, <1>4, <1>6, <1>8, TotalType DEF Balanced, Total

LEMMA TransferMoves ==
    ASSUME TypeOK, Officers, NEW p \in online, NEW q \in Player, NEW a \in Nat, Transfer(p, q, a)
    PROVE  Moves(0, 0, Iof(a)) /\ Balanced(0, 0, Iof(a))
  <1> DEFINE h1 == Add(Held, p, Iof(a) - a)
             h2 == Add(h1, q, a - Iof(a))
             h3 == Add(h2, p, - Iof(a))
             d  == DistributeIof(h3, a)
  <1>1. p \in Player /\ Iof(a) \in Nat
    BY IofBounds DEF TypeOK
  <1>2. SetHeld(d) /\ UNCHANGED <<online, guild, money>> /\ Moves(0, 0, Iof(a))
    BY DEF Transfer
  <1>3. h1 \in [Player -> Int] /\ SumFunction(h1) = SumFunction(Held) + (Iof(a) - a)
    <2>1. Iof(a) - a \in Int
      BY <1>1
    <2> QED BY <1>1, <2>1, TotalType, AddSum
  <1> HIDE DEF h1
  <1>4. h2 \in [Player -> Int] /\ SumFunction(h2) = SumFunction(h1) + (a - Iof(a))
    <2>1. a - Iof(a) \in Int
      BY <1>1
    <2>2. \A n \in Int : /\ Add(h1, q, n) \in [Player -> Int]
                         /\ SumFunction(Add(h1, q, n)) = SumFunction(h1) + n
      BY <1>3, AddSum
    <2> QED BY <2>1, <2>2
  <1> HIDE DEF h2
  <1>5. h3 \in [Player -> Int] /\ SumFunction(h3) = SumFunction(h2) - Iof(a)
    <2>1. - Iof(a) \in Int
      BY <1>1
    <2>2. \A n \in Int : /\ Add(h2, p, n) \in [Player -> Int]
                         /\ SumFunction(Add(h2, p, n)) = SumFunction(h2) + n
      BY <1>1, <1>4, AddSum
    <2>3. SumFunction(h3) = SumFunction(h2) + (- Iof(a)) /\ h3 \in [Player -> Int]
      BY <2>1, <2>2
    <2> QED BY <1>1, <1>4, <2>3, SumType, BankAssumption
  <1> HIDE DEF h3
  <1>6. d \in [Player -> Int]
    BY <1>1, <1>5, IofBounds DEF DistributeIof
  <1>7. /\ SumFunction(d) \in Int /\ SumFunction(h3) <= SumFunction(d)
        /\ SumFunction(d) <= SumFunction(h3) + Iof(a)
    BY <1>5, IofShares
  <1> HIDE DEF d
  <1>8. Held' = d
    BY <1>2, <1>6, SetHeldHeld
  <1>9. Total' = SumFunction(money) + SumFunction(d) + guild
    BY <1>2, <1>8 DEF Total
  <1>10. SumFunction(h3) = SumFunction(Held) - Iof(a)
    BY <1>1, <1>3, <1>4, <1>5, TotalType
  <1> QED BY <1>1, <1>2, <1>7, <1>9, <1>10, TotalType DEF Balanced, Total

LEMMA HearMoves ==
    ASSUME BankInv, TypeOK', NEW p \in online, NEW m \in Message, Hear(p, m)
    PROVE  Conserved' /\ Named'
  <1> USE DEF BankInv
  <1>1. /\ p \in Player /\ m.amount \in Nat /\ talk[p].count \in Nat
        /\ talk[p].topic = "transfer" => talk[p].to \in Player
    <2>1. p \in Player
      BY DEF TypeOK
    <2>2. talk[p] \in [topic : Topic, count : Nat, to : Player \cup {Nobody}]
      BY <2>1 DEF TypeOK
    <2>3. m.amount \in Amount \cup {0}
      BY DEF Message
    <2>4. m.amount \in Nat
      <3>1. Amount \subseteq Nat
        BY BankAssumption
      <3>2. ASSUME NEW n \in Amount \cup {0} PROVE n \in Nat
        BY <3>1
      <3> QED BY ONLY <2>3, <3>2
    <2>5. talk[p].topic = "transfer" => talk[p].to \in Player
      BY <2>1 DEF Named
    <2> QED BY <2>1, <2>2, <2>4, <2>5
  <1>2. DOMAIN talk = Player
    BY DEF TypeOK
  <1>3. ASSUME NEW t, NEW n, NEW q, Said(p, t, n, q), t = "transfer" => q \in Player
        PROVE  Conserved' /\ Named'
    BY <1>1, <1>2, <1>3, SaidMoves DEF Said, Saying, Named
  <1>4. ASSUME EndTalk(p) PROVE Named'
    BY <1>1, <1>2, <1>4 DEF EndTalk, Idle, Saying, Named
  <1>5. ASSUME Refuse(p) PROVE Conserved' /\ Named'
    BY <1>1, <1>4, <1>5, RefuseMoves DEF Refuse
  <1>6. ASSUME NEW a \in Nat, Deposit(p, a) \/ Withdraw(p, a)
        PROVE  Conserved' /\ Named'
    <2>1. Moves(0, 0, Iof(a)) /\ Balanced(0, 0, Iof(a))
      BY <1>6, DepositMoves, WithdrawMoves
    <2>2. Conserved'
      BY <2>1, BooksClose, IofBounds
    <2> QED BY <1>4, <1>6, <2>2 DEF Deposit, Withdraw
  <1>7. ASSUME NEW a \in Nat, NEW q \in Player, Transfer(p, q, a)
        PROVE  Conserved' /\ Named'
    <2>1. Moves(0, 0, Iof(a)) /\ Balanced(0, 0, Iof(a))
      BY <1>7, TransferMoves
    <2>2. Conserved'
      BY <2>1, BooksClose, IofBounds
    <2> QED BY <1>4, <1>7, <2>2 DEF Transfer
  <1>8. ASSUME NEW a, OfferDeposit(p, a) \/ OfferWithdraw(p, a) PROVE Conserved' /\ Named'
    BY <1>3, <1>5, <1>8 DEF OfferDeposit, OfferWithdraw
  <1>9. ASSUME NEW a, NEW q, NameRecipient(p, a, q) PROVE Conserved' /\ Named'
    BY <1>3, <1>5, <1>9 DEF NameRecipient
  <1>10. CASE AskDeposit(p, m) \/ NameDeposit(p, m)
    BY <1>3, <1>8, <1>10 DEF AskDeposit, NameDeposit
  <1>11. CASE AnswerDeposit(p, m)
    BY <1>1, <1>5, <1>6, <1>11 DEF AnswerDeposit
  <1>12. CASE AskWithdraw(p, m) \/ NameWithdraw(p, m)
    BY <1>3, <1>8, <1>12 DEF AskWithdraw, NameWithdraw
  <1>13. CASE AnswerWithdraw(p, m)
    BY <1>1, <1>5, <1>6, <1>13 DEF AnswerWithdraw
  <1>14. CASE AskTransfer(p, m)
    BY <1>3, <1>5, <1>9, <1>14 DEF AskTransfer
  <1>15. CASE NameTransfer(p, m) \/ NameTransferee(p, m)
    BY <1>3, <1>5, <1>9, <1>15 DEF NameTransfer, NameTransferee
  <1>16. CASE AnswerTransfer(p, m)
    BY <1>1, <1>5, <1>7, <1>16 DEF AnswerTransfer, InTopic
  <1>17. CASE ChangeCoins(p, m)
    BY <1>3, <1>5, <1>17 DEF ChangeCoins
  <1> QED BY <1>10, <1>11, <1>12, <1>13, <1>14, <1>15, <1>16, <1>17 DEF Hear

-----------------------------------------------------------------------------
(* The guild's account and the shops. *)

LEMMA GuildMoves ==
    ASSUME TypeOK, NEW p \in online, NEW a \in Nat,
           GuildDeposit(p, a) \/ GuildWithdraw(p, a)
    PROVE  Moves(0, 0, 0) /\ Balanced(0, 0, 0)
  <1>1. p \in Player
    BY DEF TypeOK
  <1>2. ASSUME NEW n \in Int, SetHeld(Add(Held, p, n)), UNCHANGED <<online, money>>, guild' = guild - n
        PROVE  Balanced(0, 0, 0)
    <2> DEFINE h == Add(Held, p, n)
    <2>1. h \in [Player -> Int] /\ SumFunction(h) = SumFunction(Held) + n
      BY <1>1, TotalType, AddSum
    <2>2. SetHeld(h)
      BY <1>2
    <2> HIDE DEF h
    <2>3. Held' = h
      BY <1>2, <2>1, <2>2, SetHeldHeld
    <2>4. Total' = Total
      BY <1>2, <2>1, <2>3, TotalType DEF Total
    <2> QED BY <2>4, TotalType DEF Balanced
  <1>3. CASE GuildDeposit(p, a)
    <2>1. - a \in Int /\ guild + a = guild - (- a)
      BY DEF TypeOK
    <2> QED BY <1>2, <1>3, <2>1 DEF GuildDeposit
  <1>4. CASE GuildWithdraw(p, a)
    BY <1>2, <1>4 DEF GuildWithdraw
  <1> QED BY <1>3, <1>4 DEF GuildDeposit, GuildWithdraw

\* Coins and balance pay together what is spent.
LEMMA SpendSum ==
    ASSUME TypeOK, NEW p \in online, NEW n \in Nat
    PROVE  /\ Spend(p, n).money \in [Player -> Int] /\ Spend(p, n).held \in [Player -> Int]
           /\ SumFunction(Spend(p, n).money) + SumFunction(Spend(p, n).held)
                = SumFunction(money) + SumFunction(Held) - n
           /\ SumFunction(Spend(p, n).money) \in Int /\ SumFunction(Spend(p, n).held) \in Int
  <1> DEFINE c == IF money[p] < n THEN money[p] ELSE n
             m == Add(money, p, - c)
             h == Add(Held, p, c - n)
  <1>1. p \in Player /\ c \in Int
    BY DEF TypeOK
  <1>2. Spend(p, n) = [money |-> m, held |-> h]
    BY DEF Spend
  <1> HIDE DEF c
  <1>3. m \in [Player -> Int] /\ SumFunction(m) = SumFunction(money) - c
    BY <1>1, TotalType, AddSum
  <1>4. h \in [Player -> Int] /\ SumFunction(h) = SumFunction(Held) + (c - n)
    <2>1. c - n \in Int
      BY <1>1
    <2> QED BY <1>1, <2>1, TotalType, AddSum
  <1> HIDE DEF m, h
  <1>5. Spend(p, n).money = m /\ Spend(p, n).held = h
    BY <1>2
  <1> QED BY <1>1, <1>3, <1>4, <1>5, TotalType

\* A purchase or a charge: price and tax are spent, the shares paid out.
LEMMA PayMoves ==
    ASSUME TypeOK, Officers, NEW p \in online, NEW a \in Nat, NEW t, t = Tax(p, a),
           NEW left, left = Spend(p, a + t), money' = left.money,
           SetHeld(DistributeTax(left.held, p, a)), UNCHANGED <<online, guild>>
    PROVE  Balanced(a, 0, t)
  <1> DEFINE d == DistributeTax(left.held, p, a)
  <1>1. p \in Player /\ t \in Nat
    BY TaxBounds DEF TypeOK
  <1>2. /\ left.money \in [Player -> Int] /\ left.held \in [Player -> Int]
        /\ SumFunction(left.money) + SumFunction(left.held)
             = SumFunction(money) + SumFunction(Held) - (a + t)
        /\ SumFunction(left.money) \in Int /\ SumFunction(left.held) \in Int
    BY <1>1, SpendSum
  <1>3. d \in [Player -> Int]
    BY <1>1, <1>2, TaxBounds DEF DistributeTax
  <1>4. /\ SumFunction(d) \in Int /\ SumFunction(left.held) <= SumFunction(d)
        /\ SumFunction(d) <= SumFunction(left.held) + t
    BY <1>1, <1>2, TaxShares
  <1> HIDE DEF d
  <1>5. Held' = d
    BY <1>3, SetHeldHeld DEF d
  <1>6. Total' = SumFunction(left.money) + SumFunction(d) + guild
    BY <1>5 DEF Total
  <1> QED BY <1>1, <1>2, <1>4, <1>6, TotalType DEF Balanced, Total

LEMMA SellMoves ==
    ASSUME TypeOK, Officers, NEW p \in online, NEW a \in Nat, Sell(p, a)
    PROVE  Moves(0, a, Tax(p, a)) /\ Balanced(0, a, Tax(p, a))
  <1> DEFINE t == Tax(p, a)
             net == a - t
             m == IF AutoBank THEN money ELSE Add(money, p, net)
             h == IF AutoBank THEN Add(Held, p, net) ELSE Held
             d == DistributeTax(h, p, a)
  <1>1. p \in Player /\ t \in Nat /\ net \in Int
    BY TaxBounds DEF TypeOK
  <1>2. Moves(0, a, t) /\ money' = m /\ SetHeld(d) /\ UNCHANGED <<online, guild>>
    BY DEF Sell
  <1> HIDE DEF t
  <1>3. /\ m \in [Player -> Int] /\ h \in [Player -> Int]
        /\ SumFunction(m) \in Int /\ SumFunction(h) \in Int
        /\ SumFunction(m) + SumFunction(h) = SumFunction(money) + SumFunction(Held) + net
    <2>1. /\ Add(money, p, net) \in [Player -> Int] /\ Add(Held, p, net) \in [Player -> Int]
          /\ SumFunction(Add(money, p, net)) = SumFunction(money) + net
          /\ SumFunction(Add(Held, p, net)) = SumFunction(Held) + net
      BY <1>1, TotalType, AddSum
    <2> HIDE DEF net
    <2>2. CASE AutoBank
      BY <1>1, <2>1, <2>2, TotalType
    <2>3. CASE ~AutoBank
      BY <1>1, <2>1, <2>3, TotalType
    <2> QED BY <2>2, <2>3
  <1> HIDE DEF m, h
  <1>4. d \in [Player -> Int]
    BY <1>1, <1>3, TaxBounds DEF DistributeTax
  <1>5. SumFunction(d) \in Int /\ SumFunction(h) <= SumFunction(d) /\ SumFunction(d) <= SumFunction(h) + t
    BY <1>1, <1>3, TaxShares DEF t
  <1> HIDE DEF d
  <1>6. Held' = d
    BY <1>2, <1>4, SetHeldHeld
  <1>7. Total' = SumFunction(m) + SumFunction(d) + guild
    BY <1>2, <1>6 DEF Total
  <1>8. Balanced(0, a, t)
    BY <1>1, <1>3, <1>5, <1>7, TotalType DEF Balanced, Total
  <1> QED BY <1>2, <1>8 DEF t

LEMMA ShopMoves ==
    ASSUME BankInv, TypeOK', NEW p \in online, NEW a \in Nat,
           Buy(p, a) \/ Sell(p, a) \/ RemoveMoneyBank(p, a)
    PROVE  Conserved'
  <1> USE DEF BankInv
  <1>1. p \in Player /\ Tax(p, a) \in Nat
    BY TaxBounds DEF TypeOK
  <1>2. CASE Sell(p, a)
    BY <1>1, <1>2, SellMoves, BooksClose
  <1>3. CASE RemoveMoneyBank(p, a)
    <2>1. Moves(a, 0, Tax(p, a)) /\ Balanced(a, 0, Tax(p, a))
      BY <1>3, PayMoves DEF RemoveMoneyBank
    <2> QED BY <1>1, <2>1, BooksClose
  <1>4. CASE Buy(p, a) /\ CanSpend(p, a + Tax(p, a))
    <2>1. Moves(a, 0, Tax(p, a)) /\ Balanced(a, 0, Tax(p, a))
      BY <1>4, PayMoves DEF Buy
    <2> QED BY <1>1, <2>1, BooksClose
  <1>5. CASE Buy(p, a) /\ ~CanSpend(p, a + Tax(p, a))
    <2>1. Moves(0, 0, 0) /\ UNCHANGED accounts
      BY <1>5 DEF Buy
    <2>2. Total' = Total
      BY <2>1 DEF accounts, Total, Held
    <2>3. Balanced(0, 0, 0)
      BY <2>2, TotalType DEF Balanced
    <2> QED BY <2>1, <2>3, BooksClose
  <1> QED BY <1>2, <1>3, <1>4, <1>5

-----------------------------------------------------------------------------

\* Logins and saves move the balance between object and row, never change it.
LEMMA RecordsMove ==
    ASSUME TypeOK, Conserved, NEW p \in Player,
           Login(p) \/ (p \in online /\ (Save(p) \/ Logout(p)))
    PROVE  Conserved'
  <1>1. UNCHANGED <<money, guild, book>>
    BY DEF Login, Save, Logout
  <1>2. ASSUME NEW q \in Player PROVE Held'[q] = Held[q]
    <2>1. CASE Login(p)
      BY <2>1 DEF TypeOK, Login, Held
    <2>2. CASE p \in online /\ Save(p)
      BY <2>2 DEF TypeOK, Save, WriteRow, Held
    <2>3. CASE p \in online /\ Logout(p)
      BY <2>3 DEF TypeOK, Logout, WriteRow, Held
    <2> QED BY <2>1, <2>2, <2>3
  <1>3. Held' = Held
    BY <1>2 DEF Held
  <1> QED BY <1>1, <1>3, NothingMoves

LEMMA OfficersStep ==
    ASSUME TypeOK, Officers, [Next]_vars
    PROVE  Officers'
  <1>1. ASSUME NEW p \in Player, Login(p) PROVE Officers'
    BY <1>1 DEF TypeOK, Officers, Login
  <1>2. ASSUME NEW p \in online, Save(p) \/ Logout(p) PROVE Officers'
    BY <1>2 DEF TypeOK, Officers, Save, Logout, WriteRow
  <1>3. CASE Vacancy
    BY <1>3 DEF TypeOK, Officers, Vacancy
  <1>4. ASSUME UNCHANGED <<office, officeRow>> PROVE Officers'
    BY <1>4 DEF Officers
  <1>5. ASSUME NEW p \in online, NEW m \in Message, Hear(p, m) PROVE UNCHANGED <<office, officeRow>>
    BY <1>5 DEF Hear, AskDeposit, NameDeposit, AnswerDeposit, AskWithdraw, NameWithdraw, AnswerWithdraw,
                AskTransfer, NameTransfer, NameTransferee, AnswerTransfer, ChangeCoins,
                OfferDeposit, OfferWithdraw, NameRecipient, Said, Refuse, Deposit, Withdraw,
                Transfer, state
  <1>6. ASSUME NEW p \in online, NEW n \in Amount,
               \/ WalkAway(p) \/ GuildDeposit(p, n) \/ GuildWithdraw(p, n)
               \/ Buy(p, n) \/ Sell(p, n) \/ RemoveMoneyBank(p, n)
        PROVE  UNCHANGED <<office, officeRow>>
    BY <1>6 DEF WalkAway, Refuse, GuildDeposit, GuildWithdraw, Buy, Sell, RemoveMoneyBank, state
  <1>7. ASSUME NEW p \in online, WalkAway(p) PROVE UNCHANGED <<office, officeRow>>
    BY <1>7 DEF WalkAway, Refuse, state
  <1>8. ASSUME NEW p \in online, NEW n \in Rate, FederalTax(p, n) \/ StateTax(p, n)
        PROVE  UNCHANGED <<office, officeRow>>
    BY <1>8 DEF FederalTax, StateTax
  <1>9. CASE UNCHANGED vars
    BY <1>4, <1>9 DEF vars, state
  <1> QED BY <1>1, <1>2, <1>3, <1>4, <1>5, <1>6, <1>7, <1>8, <1>9 DEF Next

LEMMA NamedStep ==
    ASSUME TypeOK, Named, UNCHANGED talk \/ \E p \in Player : EndTalk(p) \/ talk' = [talk EXCEPT ![p] = Idle]
    PROVE  Named'
  BY DEF TypeOK, Named, EndTalk, Idle, Saying

LEMMA BankStep ==
    ASSUME BankInv, TypeOK', [Next]_vars
    PROVE  Conserved' /\ Named'
  <1> USE DEF BankInv
  <1>1. online \subseteq Player
    BY DEF TypeOK
  <1>2. ASSUME NEW p \in Player, Login(p) \/ (p \in online /\ (Save(p) \/ Logout(p)))
        PROVE  Conserved' /\ Named'
    BY <1>2, RecordsMove, NamedStep DEF Login, Save, Logout
  <1>3. ASSUME NEW p \in online, NEW n \in Rate, FederalTax(p, n) \/ StateTax(p, n)
        PROVE  Conserved' /\ Named'
    BY <1>3, NothingMoves, NamedStep DEF FederalTax, StateTax, accounts, Held
  <1>4. CASE Vacancy
    BY <1>4, NothingMoves, NamedStep DEF Vacancy, accounts, Held
  <1>5. ASSUME NEW p \in online, WalkAway(p) PROVE Conserved' /\ Named'
    <2>1. Refuse(p) /\ EndTalk(p)
      BY <1>5 DEF WalkAway, Refuse
    <2> QED BY <1>1, <2>1, RefuseMoves, NamedStep
  <1>6. ASSUME NEW p \in online, NEW a \in Amount, GuildDeposit(p, a) \/ GuildWithdraw(p, a)
        PROVE  Conserved' /\ Named'
    <2>1. a \in Nat
      BY BankAssumption
    <2>2. Conserved'
      BY <1>6, <2>1, GuildMoves, BooksClose
    <2> QED BY <1>1, <1>6, <2>2, NamedStep DEF GuildDeposit, GuildWithdraw
  <1>7. ASSUME NEW p \in online, NEW a \in Amount, Buy(p, a) \/ Sell(p, a) \/ RemoveMoneyBank(p, a)
        PROVE  Conserved' /\ Named'
    <2>1. a \in Nat
      BY BankAssumption
    <2> QED BY <1>7, <2>1, ShopMoves, NamedStep DEF Buy, Sell, RemoveMoneyBank
  <1>8. CASE UNCHANGED vars
    BY <1>8, NothingMoves, NamedStep DEF vars, accounts, Held
  <1>9. ASSUME NEW p \in online, NEW m \in Message, Hear(p, m) PROVE Conserved' /\ Named'
    BY <1>9, HearMoves
  <1> QED BY <1>1, <1>2, <1>3, <1>4, <1>5, <1>6, <1>7, <1>8, <1>9, Zenon DEF Next

\* Gold is neither made nor lost, for any players, offices, amounts and rates:
\* what a handler takes from purses, balances and the guild it puts somewhere
\* else, except for what shops are paid and pay, and for the part of the taxes
\* that no officer receives.
THEOREM GoldIsConserved == Spec => []Conserved
<1>1. Init => Officers /\ Named /\ Conserved
  <2> SUFFICES ASSUME Init PROVE Officers /\ Named /\ Conserved
    OBVIOUS
  <2>1. Officers /\ Named
    BY DEF Init, Officers, Named, Idle, Saying
  <2>2. Held = Savings
    BY BankAssumption DEF Init, Held
  <2>3. money = Coins /\ guild = 0 /\ book.paid = 0 /\ book.earned = 0 /\ book.taxed = 0
    BY DEF Init
  <2>4. SumFunction(Coins) \in Int /\ SumFunction(Savings) \in Int
    <3>1. Coins \in [Player -> Int] /\ Savings \in [Player -> Int]
      BY BankAssumption
    <3> QED BY <3>1, SumType, BankAssumption
  <2> QED BY <2>1, <2>2, <2>3, <2>4 DEF Conserved, Total
<1>2. TypeOK /\ TypeOK' /\ (Officers /\ Named /\ Conserved) /\ [Next]_vars
        => (Officers /\ Named /\ Conserved)'
  BY OfficersStep, BankStep DEF BankInv
<1> QED BY <1>1, <1>2, TypeCorrect, PTL DEF Spec
=============================================================================
