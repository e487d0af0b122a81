------------------------------- MODULE Money -------------------------------
(***************************************************************************)
(* Coins: what players carry and have in the bank, the accounts that       *)
(* several of them share (bank.c), the purse of a shop keeper and his      *)
(* goods (shop.c), and the sharing out of coins among followers            *)
(* (do_split).  Coins are unsigned words of the machine: a sum that does   *)
(* not fit begins again at 0.  The accounts are in a file that is written  *)
(* after what is done at the bank and read by a reboot.                    *)
(*                                                                         *)
(* A wrong password, a keeper who is closed or does not see his customer   *)
(* (is_ok), and a name that is unknown leave all as it is; the word of the *)
(* password is left out.                                                   *)
(***************************************************************************)
EXTENDS Integers, Sums, SequencesExt

CONSTANTS
  Customer, Imp,       (* players; those of level IMPL                     *)
  Account,             (* names of accounts                                *)
  BANK_MAX_ALLOW,
  Ware, Produced,      (* objects; those of a kind the shop produces       *)
  Price, Offer,        (* what the keeper asks and gives for one           *)
  Carry,               (* can_carry_number                                 *)
  W,                   (* a word holds 0 .. W - 1                          *)
  Keeper, NoOne

(* A word holds more than one value; sums are over finite sets.            *)
ASSUME CoinsAssumption ==
  /\ W \in Nat /\ W > 1
  /\ BANK_MAX_ALLOW \in Nat \ {0}
  /\ IsFiniteSet(Customer) /\ IsFiniteSet(Account)
  /\ Price \in [Ware -> Int] /\ Offer \in [Ware -> Int]

VARIABLES
  purse, bank,         (* ch->gold, ch->bank                               *)
  till,                (* the gold of the keeper                           *)
  accounts, file,      (* the accounts, and what the file of them says     *)
  owner                (* who has an item; NoOne: it is gone              *)

coin_vars == <<purse, bank, till, accounts, file, owner>>

Word == 0 .. W - 1
Sum(a, b) == (a + b) % W
Full(a, b) == Sum(a, b) < a      (* the test of the code for a sum that does not fit *)
AccountRec == [allow : Seq(Customer), amount : Word]
SomeAccounts == UNION {[S -> AccountRec] : S \in SUBSET Account}

CoinTypeOK ==
  /\ purse \in [Customer -> Word] /\ bank \in [Customer -> Word] /\ till \in Word
  /\ DOMAIN accounts \subseteq Account /\ DOMAIN file \subseteq Account
  /\ \A a \in DOMAIN accounts : accounts[a] \in AccountRec /\ Len(accounts[a].allow) <= BANK_MAX_ALLOW
  /\ \A a \in DOMAIN file : file[a] \in AccountRec
  /\ owner \in [Ware -> Customer \cup {Keeper, NoOne}]

CoinInit ==
  /\ purse = [p \in Customer |-> IF p \in Imp THEN 1 ELSE W - 1]
  /\ bank = [p \in Customer |-> 0] /\ till = 1
  /\ accounts = <<>> /\ file = <<>>
  /\ owner = [i \in Ware |-> Keeper]

-----------------------------------------------------------------------------
(* The accounts. *)
find_account(a) == a \in DOMAIN accounts
(* The place of p among the members, who stand there once.                *)
find_member(a, p) == {i \in DOMAIN accounts[a].allow : accounts[a].allow[i] = p}
Mine(a, p) == find_account(a) /\ accounts[a].allow[1] = p
Put(a, rec) == [b \in DOMAIN accounts \cup {a} |-> IF b = a THEN rec ELSE accounts[b]]
Amount(a, n) == [accounts EXCEPT ![a].amount = n]

save_accounts == file' = accounts'
load_bank == accounts' = file

bank_account(p, a) ==
  /\ ~find_account(a)
  /\ accounts' = Put(a, [allow |-> <<p>>, amount |-> 0])
  /\ save_accounts
  /\ UNCHANGED <<purse, bank, till, owner>>

bank_allow(p, a, q) ==
  /\ Mine(a, p) /\ Len(accounts[a].allow) < BANK_MAX_ALLOW /\ find_member(a, q) = {}
  /\ accounts' = [accounts EXCEPT ![a].allow = Append(@, q)]
  /\ save_accounts
  /\ UNCHANGED <<purse, bank, till, owner>>

bank_disallow(p, a, q) ==
  /\ Mine(a, p)
  /\ \E i \in find_member(a, q) \ {1} : accounts' = [accounts EXCEPT ![a].allow = RemoveAt(@, i)]
  /\ save_accounts
  /\ UNCHANGED <<purse, bank, till, owner>>

(* An implementor may close any account, with the coins in it.             *)
bank_close(p, a) ==
  /\ find_account(a)
  /\ p \in Imp \/ (Mine(a, p) /\ accounts[a].amount = 0)
  /\ accounts' = [b \in DOMAIN accounts \ {a} |-> accounts[b]]
  /\ save_accounts
  /\ UNCHANGED <<purse, bank, till, owner>>

(* bank_dep_with.  The coins are taken before it is seen that the account  *)
(* is full; then the accounts are not saved.                               *)
(* Mutant: the accounts are not saved when coins go into or out of one. *)
saved_not(a) == IF a = NoOne THEN save_accounts ELSE UNCHANGED file
saved(a) == save_accounts

Deposit(p, n, a) ==
  /\ n <= purse[p] /\ (a = NoOne \/ find_account(a))
  /\ purse' = [purse EXCEPT ![p] = @ - n]
  /\ LET full == Full(IF a = NoOne THEN bank[p] ELSE accounts[a].amount, n) IN
     /\ bank' = IF a = NoOne /\ ~full THEN [bank EXCEPT ![p] = @ + n] ELSE bank
     /\ accounts' = IF a # NoOne /\ ~full THEN Amount(a, accounts[a].amount + n) ELSE accounts
     /\ IF full THEN UNCHANGED file ELSE saved(a)
  /\ UNCHANGED <<till, owner>>

(* Mutant: whether the account has so much is not asked. *)
Has_any(have, n) == TRUE
Has(have, n) == n <= have

Withdraw(p, n, a) ==
  /\ a = NoOne \/ (find_account(a) /\ find_member(a, p) # {})
  /\ Has(IF a = NoOne THEN bank[p] ELSE accounts[a].amount, n) /\ ~Full(purse[p], n)
  /\ purse' = [purse EXCEPT ![p] = @ + n]
  /\ bank' = IF a = NoOne THEN [bank EXCEPT ![p] = (@ + W - n) % W] ELSE bank
  /\ accounts' = IF a = NoOne THEN accounts ELSE Amount(a, (accounts[a].amount + W - n) % W)
  /\ saved(a)
  /\ UNCHANGED <<till, owner>>

-----------------------------------------------------------------------------
(* cost_from_player: from the purse, or from an account, which is not      *)
(* saved.                                                                  *)
Pays(p, a, n) == IF a = NoOne THEN n <= purse[p]
                 ELSE find_account(a) /\ find_member(a, p) # {} /\ n <= accounts[a].amount
cost_from_player(p, a, n) ==
  /\ purse' = IF a = NoOne THEN [purse EXCEPT ![p] = @ - n] ELSE purse
  /\ accounts' = IF a = NoOne THEN accounts ELSE Amount(a, accounts[a].amount - n)

(* The keeper gets a third.  Of what his shop produces he keeps the one he *)
(* has and the customer gets a new one: it is an item that was gone.       *)
Bag(p) == {i \in Ware : owner[i] = p}
shop_producing(i) == i \in Produced
Bought(i, new) == IF shop_producing(i) THEN new \in Produced /\ owner[new] = NoOne ELSE new = i

shopping_buy(p, i, a, new) ==
  /\ owner[i] = Keeper
  /\ IF Price[i] <= 0
     THEN /\ owner' = [owner EXCEPT ![i] = NoOne]
          /\ UNCHANGED <<purse, till, accounts>>
     ELSE /\ Cardinality(Bag(p)) < Carry /\ Pays(p, a, Price[i])
          /\ cost_from_player(p, a, Price[i])
          /\ till' = Sum(till, Price[i] \div 3)
          /\ Bought(i, new) /\ owner' = [owner EXCEPT ![new] = p]
  /\ UNCHANGED <<bank, file>>

trade_with(i) == Offer[i] >= 1

(* The keeper keeps what he does not have yet.                             *)
shopping_sell(p, i, have) ==
  /\ owner[i] = p /\ trade_with(i) /\ Offer[i] <= till
  /\ purse' = [purse EXCEPT ![p] = Sum(@, Offer[i])]
  /\ till' = till - Offer[i]
  /\ owner' = [owner EXCEPT ![i] = IF have THEN NoOne ELSE Keeper]
  /\ UNCHANGED <<bank, accounts, file>>

-----------------------------------------------------------------------------
(* coins_to_char: TRUE of the code also when there is no room.  do_split   *)
(* divides by the members of the group who are here, and gives to every    *)
(* player who follows and is here.                                         *)
coins_to_char(gold, n) == IF Full(gold, n) THEN gold ELSE gold + n
sum_gr_member(p, grouped) == Cardinality(grouped \cup {p})

do_split(p, n, followers, grouped) ==
  LET divide == n \div sum_gr_member(p, grouped)
      gave == divide * Cardinality(followers)
      left == IF n > gave THEN n - gave ELSE 0
  IN /\ n <= purse[p] /\ followers # {} /\ p \notin followers /\ grouped \subseteq followers
     /\ purse' = [q \in Customer |-> CASE q = p -> coins_to_char(purse[p] - n, left)
                                     [] q \in followers -> coins_to_char(purse[q], divide)
                                     [] OTHER -> purse[q]]
     /\ UNCHANGED <<bank, till, accounts, file, owner>>

(* The server stops, with its players saved, and starts again.             *)
init_bank == load_bank /\ UNCHANGED <<purse, bank, till, file, owner>>

CoinNext ==
  \/ \E p \in Customer, a \in Account : bank_account(p, a) \/ bank_close(p, a)
  \/ \E p, q \in Customer, a \in Account : bank_allow(p, a, q) \/ bank_disallow(p, a, q)
  \/ \E p \in Customer, n \in Word \ {0}, a \in Account \cup {NoOne} :
       Deposit(p, n, a) \/ Withdraw(p, n, a)
  \/ \E p \in Customer, i, new \in Ware, a \in Account \cup {NoOne} : shopping_buy(p, i, a, new)
  \/ \E p \in Customer, i \in Ware, have \in BOOLEAN : shopping_sell(p, i, have)
  \/ \E p \in Customer, n \in Word \ {0}, followers \in SUBSET Customer, grouped \in SUBSET Customer :
       do_split(p, n, followers, grouped)
  \/ init_bank

CoinSpec == CoinInit /\ [][CoinNext]_coin_vars

-----------------------------------------------------------------------------
(* A reboot takes no right and no coin from the members of an account: at  *)
(* every moment the file has the same accounts with the same members in    *)
(* the same order, the owner first, and at least as many coins.            *)
RebootKeeps ==
  /\ DOMAIN file = DOMAIN accounts
  /\ \A a \in DOMAIN accounts : /\ file[a].allow = accounts[a].allow
                                /\ file[a].amount >= accounts[a].amount

(* Neither bank nor shop makes coins, whatever does not fit into a word:   *)
(* only the sharing out does (it counts members and pays followers), and   *)
(* a reboot, which gives back what was paid from an account.               *)
Purses == Total([p \in Customer |-> purse[p] + bank[p]], Customer)
Deposits == Total([a \in DOMAIN accounts |-> accounts[a].amount], DOMAIN accounts)
Coins == till + Purses + Deposits
MakesCoins ==
  \/ init_bank
  \/ \E p \in Customer, n \in Word \ {0}, f, g \in SUBSET Customer : do_split(p, n, f, g)
CoinStep == Coins' <= Coins \/ MakesCoins
NoCoinsMade == [][CoinStep]_coin_vars
=============================================================================
