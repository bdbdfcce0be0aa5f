-------------------------------- MODULE Bank --------------------------------
(***************************************************************************)
(* Money of players: coins carried, bank balances, the bank NPC's dialogue *)
(* and its IOF (data/npclib/npc_system/bank_system.lua over                *)
(* game/bank/bank.cpp), purchases and sales in NPC shops, the taxes on     *)
(* them and the officers who receive the taxes and set their rates.        *)
(*                                                                         *)
(* Every handler is a task of the dispatcher, so each is one step. What    *)
(* interleaves are the handlers: of several players, and of the steps of   *)
(* one player's dialogue with everything else. The balance and offices of  *)
(* an online player are kept twice, in the object and in the row of        *)
(* `players`, which is written by saves and by SQL on behalf of others.    *)
(* Coins are counted by their worth; coins that fall on the floor for want *)
(* of room still count as their player's.                                  *)
(***************************************************************************)
EXTENDS Integers, FiniteSets, Functions

CONSTANTS
    Player,
    Nobody,      \* no player's name
    Customer,    \* players who talk to NPCs
    Mainland,    \* players whose town id is at least minTownIdToBankTransferFromMain
    Member,      \* players of the guild
    Kingdom,     \* kingdom of each player, 0 for none
    Elected,     \* offices in the database at the start
    Coins,       \* money each player starts with
    Savings,     \* balance each player starts with
    Amount,      \* amounts of money named in messages, and prices
    Rate,        \* tax rates, in per cent, that officers ask for
    AutoBank,    \* config.lua: autoBank
    MaxMoves     \* bound: operations that move money

Office == {"president", "governor"}

ASSUME BankAssumption ==
    /\ IsFiniteSet(Player) /\ Nobody \notin Player
    /\ Customer \subseteq Player /\ Mainland \subseteq Player /\ Member \subseteq Player
    /\ Kingdom \in [Player -> 0 .. 4]
    /\ Elected \in [Player -> SUBSET Office]
    /\ Coins \in [Player -> Nat] /\ Savings \in [Player -> Nat]
    /\ Amount \subseteq Nat \ {0}
    /\ Rate \subseteq Nat
    /\ AutoBank \in BOOLEAN /\ MaxMoves \in Nat
    \* the unique keys ux_single_president and ux_one_governor_per_kingdom
    /\ \A p, q \in Player : p # q =>
           /\ ~ ("president" \in Elected[p] /\ "president" \in Elected[q])
           /\ ~ (/\ "governor" \in Elected[p] /\ "governor" \in Elected[q]
                 /\ Kingdom[p] = Kingdom[q])

VARIABLES
    online,     \* players who are logged in
    money,      \* worth of the coins a player carries
    balance,    \* bankBalance of the player object (0 if there is none)
    row,        \* players.balance
    office,     \* president and governor flags of the player object
    officeRow,  \* players.is_president, players.is_governor
    guild,      \* balance of the guild
    rate,       \* economy_tariffs: 0 is the federal rate, k that of kingdom k
    talk,       \* topic of each player's dialogue with the bank NPC, with the
                \* count and transfer it will use
    book        \* history: what was paid, earned and taxed

accounts == <<online, money, balance, row, guild>>
state    == <<office, officeRow, rate>>
vars == <<accounts, state, talk, book>>

\* Topics 0, 1, 2, 6, 7, 11, 12, 13, and 14 to 22 together.
Topic == {"none", "depositAmount", "deposit", "withdrawAmount", "withdraw",
          "transferAmount", "transferName", "transfer", "change"}
Saying(topic, count, to) == [topic |-> topic, count |-> count, to |-> to]
Idle == Saying("none", 0, Nobody)

\* A message: its keyword, the number in it (0 if there is none, where
\* getMoneyCount returns -1) and the player's name in it. "all" stands for
\* "deposit all" and "withdraw all", a name of no player for any other text.
Message ==
    [word : {"deposit", "withdraw", "other"}, amount : Amount \cup {0}, to : {Nobody}]
    \cup [word : {"transfer", "other"}, amount : Amount \cup {0}, to : Player \cup {Nobody}]
    \cup [word : {"deposit all", "withdraw all", "change", "yes", "no"}, amount : {0}, to : {Nobody}]

Init ==
    /\ online = {}
    /\ money = Coins
    /\ balance = [p \in Player |-> 0] /\ row = Savings
    /\ office = [p \in Player |-> {}] /\ officeRow = Elected
    /\ guild = 0
    /\ rate = [k \in 0 .. 4 |-> 0]
    /\ talk = [p \in Player |-> Idle]
    /\ book = [paid |-> 0, earned |-> 0, taxed |-> 0, moves |-> 0]

-----------------------------------------------------------------------------
(* Accounts *)

\* The balance that counts: the object's when the player is online.
Held == [p \in Player |-> IF p \in online THEN balance[p] ELSE row[p]]

\* Balances become h. For a player who is offline the change is an UPDATE, or
\* a load, change and save (Bank::~Bank), of the row.
SetHeld(h) ==
    /\ balance' = [p \in Player |-> IF p \in online THEN h[p] ELSE balance[p]]
    /\ row' = [p \in Player |-> IF p \in online THEN row[p] ELSE h[p]]

Add(f, p, n) == [f EXCEPT ![p] = @ + n]

\* iofBreakdown
Iof(amount) == amount \div 20
IofFederal(amount) == Iof(amount) \div 5
IofEach(amount) == (Iof(amount) - IofFederal(amount)) \div 4

\* distributeIOF: balances h with the shares of one operation added. One
\* player may be both president and governor.
DistributeIof(h, amount) ==
    [p \in Player |-> h[p] +
        IF "president" \in officeRow[p] THEN IofFederal(amount)
        ELSE IF "governor" \in officeRow[p] /\ Kingdom[p] # 0 THEN IofEach(amount)
        ELSE 0]

\* computeTax, taxBreakdown: federal and state tax on what p buys or sells.
Federal(amount) == (amount * rate[0]) \div 100
State(p, amount) == (amount * IF Kingdom[p] = 0 THEN 0 ELSE rate[Kingdom[p]]) \div 100
Tax(p, amount) == Federal(amount) + State(p, amount)

\* distributeTax after p paid tax on amount.
DistributeTax(h, p, amount) ==
    [q \in Player |-> h[q] +
        IF "president" \in officeRow[q] THEN Federal(amount)
        ELSE IF "governor" \in officeRow[q] /\ Kingdom[q] = Kingdom[p] THEN State(p, amount)
        ELSE 0]

Moves(paid, earned, taxed) ==
    /\ book.moves < MaxMoves
    /\ book' = [paid |-> book.paid + paid, earned |-> book.earned + earned,
                taxed |-> book.taxed + taxed, moves |-> book.moves + 1]

-----------------------------------------------------------------------------
(* The bank NPC. Npc:parseBank tries the keywords and the topics in a fixed
   order: a topic hides the keywords that are tried after it. *)

Said(p, topic, count, to) ==
    /\ talk' = [talk EXCEPT ![p] = Saying(topic, count, to)]
    /\ UNCHANGED <<accounts, state, book>>
EndTalk(p) == talk' = [talk EXCEPT ![p] = Idle]
Refuse(p) == EndTalk(p) /\ UNCHANGED <<accounts, state, book>>

DepositTopics  == {"depositAmount", "deposit"}
WithdrawTopics == {"withdrawAmount", "withdraw"}
TransferTopics == {"transferAmount", "transferName", "transfer"}
IsDeposit(m)  == m.word \in {"deposit", "deposit all"}
IsWithdraw(m) == m.word \in {"withdraw", "withdraw all"}

\* Which branch of parseBank the message reaches.
Asks(p, m, words, hiddenBy) == m.word \in words /\ talk[p].topic \notin hiddenBy
InTopic(p, m, topic) ==
    /\ talk[p].topic = topic
    /\ ~IsDeposit(m)
    /\ topic \in WithdrawTopics \cup TransferTopics \cup {"change"} => ~IsWithdraw(m)
    /\ topic \in TransferTopics \cup {"change"} => m.word # "transfer"
    /\ topic = "change" => m.word # "change"

OfferDeposit(p, amount) ==
    IF amount > 0 /\ money[p] >= amount THEN Said(p, "deposit", amount, Nobody) ELSE Refuse(p)

AskDeposit(p, m) ==
    /\ Asks(p, m, {"deposit", "deposit all"}, {})
    /\ IF m.word = "deposit" /\ m.amount = 0
       THEN Said(p, "depositAmount", 0, Nobody)
       ELSE OfferDeposit(p, IF m.word = "deposit all" THEN money[p] ELSE m.amount)

NameDeposit(p, m) ==
    InTopic(p, m, "depositAmount") /\ OfferDeposit(p, m.amount)

\* Bank.deposit (removeMoney, credit), Bank.debit of the tax, distributeIOF.
Deposit(p, amount) ==
    /\ money[p] >= amount
    /\ Moves(0, 0, Iof(amount))
    /\ money' = Add(money, p, - amount)
    /\ SetHeld(DistributeIof(Add(Held, p, amount - Iof(amount)), amount))
    /\ EndTalk(p)
    /\ UNCHANGED <<online, guild, state>>

AnswerDeposit(p, m) ==
    /\ InTopic(p, m, "deposit")
    /\ \/ m.word = "yes" /\ Deposit(p, talk[p].count)
       \/ m.word = "yes" /\ money[p] < talk[p].count /\ Refuse(p)
       \/ m.word # "yes" /\ Refuse(p)

OfferWithdraw(p, amount) ==
    IF amount > 0 /\ balance[p] >= amount THEN Said(p, "withdraw", amount, Nobody) ELSE Refuse(p)

AskWithdraw(p, m) ==
    /\ Asks(p, m, {"withdraw", "withdraw all"}, DepositTopics)
    /\ IF m.word = "withdraw" /\ m.amount = 0
       THEN Said(p, "withdrawAmount", 0, Nobody)
       ELSE OfferWithdraw(p, IF m.word = "withdraw all" THEN balance[p] ELSE m.amount)

NameWithdraw(p, m) ==
    InTopic(p, m, "withdrawAmount") /\ OfferWithdraw(p, m.amount)

\* Mutant: the balance is not checked again when the customer says yes.
WithdrawUnchecked(p, amount) ==
    /\ Moves(0, 0, Iof(amount))
    /\ money' = Add(money, p, amount - Iof(amount))
    /\ SetHeld(DistributeIof(Add(Held, p, - amount), amount))
    /\ EndTalk(p)
    /\ UNCHANGED <<online, guild, state>>

\* Bank.withdraw (debit, addMoney), removeMoney of the tax, distributeIOF. The
\* tax is at most what was just added, so the branch that reverts is not taken.
Withdraw(p, amount) ==
    /\ balance[p] >= amount
    /\ Moves(0, 0, Iof(amount))
    /\ money' = Add(money, p, amount - Iof(amount))
    /\ SetHeld(DistributeIof(Add(Held, p, - amount), amount))
    /\ EndTalk(p)
    /\ UNCHANGED <<online, guild, state>>

\* "yes" is also refused without capacity or room in the backpack.
AnswerWithdraw(p, m) ==
    /\ InTopic(p, m, "withdraw")
    /\ \/ m.word = "yes" /\ Withdraw(p, talk[p].count)
       \/ Refuse(p)

\* A transfer of the amount to the player named in the message: the topic
\* "transfer" is only reached with the name of another player.
NameRecipient(p, amount, to) ==
    IF to \in Player \ {p} THEN Said(p, "transfer", amount, to) ELSE Refuse(p)

\* The name may be missing (the NPC asks for it) or unknown (it refuses).
AskTransfer(p, m) ==
    /\ Asks(p, m, {"transfer"}, DepositTopics \cup WithdrawTopics)
    /\ \/ m.amount = 0 /\ Said(p, "transferAmount", 0, Nobody)
       \/ m.amount > balance[p] /\ Refuse(p)
       \/ /\ 0 < m.amount /\ m.amount <= balance[p]
          /\ \/ m.to = Nobody /\ Said(p, "transferName", m.amount, Nobody)
             \/ NameRecipient(p, m.amount, m.to)

NameTransfer(p, m) ==
    /\ InTopic(p, m, "transferAmount")
    /\ IF m.amount > 0 /\ balance[p] >= m.amount
       THEN Said(p, "transferName", m.amount, Nobody) ELSE Refuse(p)

NameTransferee(p, m) ==
    InTopic(p, m, "transferName") /\ NameRecipient(p, talk[p].count, m.to)

\* Bank::transferTo's rule on towns.
SameSide(p, q) == p \in Mainland <=> q \in Mainland

\* hasBalance of amount and tax; Bank.transfer of the net amount; the tax is
\* taken from the sender's balance; distributeIOF.
Transfer(p, q, amount) ==
    /\ balance[p] >= amount + Iof(amount)
    /\ SameSide(p, q)
    /\ Moves(0, 0, Iof(amount))
    /\ LET sent == Add(Add(Held, p, Iof(amount) - amount), q, amount - Iof(amount))
       IN  SetHeld(DistributeIof(Add(sent, p, - Iof(amount)), amount))
    /\ EndTalk(p)
    /\ UNCHANGED <<online, money, guild, state>>

AnswerTransfer(p, m) ==
    /\ InTopic(p, m, "transfer")
    /\ \/ m.word = "yes" /\ Transfer(p, talk[p].to, talk[p].count)
       \/ /\ m.word = "yes"
          /\ \/ balance[p] < talk[p].count + Iof(talk[p].count)
             \/ ~SameSide(p, talk[p].to)
          /\ Refuse(p)
       \/ m.word # "yes" /\ Refuse(p)

\* Changing coins into others of the same worth: topics 14 to 22.
ChangeCoins(p, m) ==
    \/ /\ Asks(p, m, {"change"}, DepositTopics \cup WithdrawTopics \cup TransferTopics)
       /\ Said(p, "change", 0, Nobody)
    \/ /\ InTopic(p, m, "change")
       /\ \/ Said(p, "change", 0, Nobody)
          \/ Refuse(p)

\* Any other message leaves the dialogue as it is.
Hear(p, m) ==
    \/ AskDeposit(p, m) \/ NameDeposit(p, m) \/ AnswerDeposit(p, m)
    \/ AskWithdraw(p, m) \/ NameWithdraw(p, m) \/ AnswerWithdraw(p, m)
    \/ AskTransfer(p, m) \/ NameTransfer(p, m) \/ NameTransferee(p, m) \/ AnswerTransfer(p, m)
    \/ ChangeCoins(p, m)

\* NpcHandler:removeInteraction, when the player leaves or closes the channel.
WalkAway(p) == talk[p] # Idle /\ Refuse(p)

\* Npc:parseGuildBank: "guild deposit" and "guild withdraw" of an amount.
GuildDeposit(p, amount) ==
    /\ p \in Member /\ balance[p] >= amount
    /\ Moves(0, 0, 0)
    /\ SetHeld(Add(Held, p, - amount))
    /\ guild' = guild + amount
    /\ EndTalk(p)
    /\ UNCHANGED <<online, money, state>>

GuildWithdraw(p, amount) ==
    /\ p \in Member /\ guild >= amount
    /\ Moves(0, 0, 0)
    /\ SetHeld(Add(Held, p, amount))
    /\ guild' = guild - amount
    /\ EndTalk(p)
    /\ UNCHANGED <<online, money, state>>

-----------------------------------------------------------------------------
(* Shops *)

\* What removeMoney with useBalance, or removeMoneyBank, leaves: coins first.
Spend(p, total) ==
    LET coins == IF money[p] < total THEN money[p] ELSE total
    IN  [money |-> Add(money, p, - coins), held |-> Add(Held, p, coins - total)]
CanSpend(p, total) == money[p] + balance[p] >= total

\* Npc::onPlayerBuyItem checks the price; Npc:sellItem hands the goods over and
\* then takes price and tax, or nothing if there is not enough for both.
Buy(p, price) ==
    /\ CanSpend(p, price)
    /\ IF CanSpend(p, price + Tax(p, price))
       THEN LET left == Spend(p, price + Tax(p, price))
            IN  /\ Moves(price, 0, Tax(p, price))
                /\ money' = left.money
                /\ SetHeld(DistributeTax(left.held, p, price))
                /\ UNCHANGED <<online, guild>>
       ELSE Moves(0, 0, 0) /\ UNCHANGED accounts
    /\ UNCHANGED <<state, talk>>

\* Npc::onPlayerSellItem
Sell(p, price) ==
    /\ Moves(0, price, Tax(p, price))
    /\ LET net == price - Tax(p, price)
       IN  /\ money' = IF AutoBank THEN money ELSE Add(money, p, net)
           /\ SetHeld(DistributeTax(IF AutoBank THEN Add(Held, p, net) ELSE Held, p, price))
    /\ UNCHANGED <<online, guild, state, talk>>

\* Player.removeMoneyBank, by which scripts charge for their services.
RemoveMoneyBank(p, amount) ==
    LET total == amount + Tax(p, amount)
        left  == Spend(p, total)
    IN  /\ CanSpend(p, total)
        /\ Moves(amount, 0, Tax(p, amount))
        /\ money' = left.money
        /\ SetHeld(DistributeTax(left.held, p, amount))
        /\ UNCHANGED <<online, guild, state, talk>>

-----------------------------------------------------------------------------
(* Officers *)

Capped(n, most) == IF n > most THEN most ELSE n

\* /federaltax and /statetax
FederalTax(p, n) ==
    /\ "president" \in office[p]
    /\ rate' = [rate EXCEPT ![0] = Capped(n, 15)]
    /\ UNCHANGED <<accounts, office, officeRow, talk, book>>

StateTax(p, n) ==
    /\ "governor" \in office[p]
    /\ Kingdom[p] # 0  \* there is no row for kingdom 0
    /\ rate' = [rate EXCEPT ![Kingdom[p]] = Capped(n, 10)]
    /\ UNCHANGED <<accounts, office, officeRow, talk, book>>

\* actionVacancy: once a week.
Vacancy ==
    /\ officeRow' = [p \in Player |-> {}]
    /\ UNCHANGED <<accounts, office, rate, talk, book>>

-----------------------------------------------------------------------------
(* Logins and saves *)

Login(p) ==
    /\ p \notin online
    /\ online' = online \cup {p}
    /\ balance' = [balance EXCEPT ![p] = row[p]]
    /\ office' = [office EXCEPT ![p] = officeRow[p]]
    /\ UNCHANGED <<money, row, officeRow, guild, rate, talk, book>>

\* Mutant: a player with an office is saved without the balance, as if only
\* the last UPDATE of savePlayerGuard were executed.
WriteOfficeOnly(p) ==
    /\ row' = IF office[p] = {} THEN [row EXCEPT ![p] = balance[p]] ELSE row
    /\ officeRow' = [officeRow EXCEPT ![p] = office[p]]

\* savePlayerGuard: the balance first, the offices by the last statement.
WriteRow(p) ==
    /\ row' = [row EXCEPT ![p] = balance[p]]
    /\ officeRow' = [officeRow EXCEPT ![p] = office[p]]

Save(p) ==
    /\ WriteRow(p)
    /\ UNCHANGED <<online, money, balance, office, guild, rate, talk, book>>

Logout(p) ==
    /\ WriteRow(p)
    /\ online' = online \ {p}
    /\ balance' = [balance EXCEPT ![p] = 0]
    /\ office' = [office EXCEPT ![p] = {}]
    /\ talk' = [talk EXCEPT ![p] = Idle]
    /\ UNCHANGED <<money, guild, rate, book>>

Next ==
    \/ \E p \in Player : Login(p)
    \/ \E p \in online : Save(p) \/ Logout(p)
    \/ \E p \in online, n \in Rate : FederalTax(p, n) \/ StateTax(p, n)
    \/ Vacancy
    \/ \E p \in online \cap Customer :
          \/ \E m \in Message : Hear(p, m)
          \/ WalkAway(p)
          \/ \E n \in Amount :
                GuildDeposit(p, n) \/ GuildWithdraw(p, n)
             \/ Buy(p, n) \/ Sell(p, n) \/ RemoveMoneyBank(p, n)

Spec == Init /\ [][Next]_vars

-----------------------------------------------------------------------------
(* Properties *)

\* Every amount stays a number that uint64_t can hold: no balance, purse or
\* guild account is taken below zero by a subtraction that an earlier check,
\* made before the balance changed, was to allow.
TypeOK ==
    /\ online \subseteq Player
    /\ money \in [Player -> Nat] /\ balance \in [Player -> Nat] /\ row \in [Player -> Nat]
    /\ office \in [Player -> SUBSET Office] /\ officeRow \in [Player -> SUBSET Office]
    /\ guild \in Nat
    /\ rate \in [0 .. 4 -> 0 .. 15]
    /\ talk \in [Player -> [topic : Topic, count : Nat, to : Player \cup {Nobody}]]
    /\ book \in [paid : Nat, earned : Nat, taxed : Nat, moves : Nat]

Total == SumFunction(money) + SumFunction(Held) + guild

\* Gold is neither made nor lost: coins, balances and the guild's account hold
\* what the players started with, plus what shops paid for goods, less what was
\* paid to shops, less at most the taxes, of which the officers' shares are
\* paid back into balances (bank.cpp, bank_system.lua, npc.cpp, logins and saves).
Conserved ==
    LET all == SumFunction(Coins) + SumFunction(Savings) + book.earned - book.paid
    IN  /\ Total <= all
        /\ Total >= all - book.taxed
=============================================================================
