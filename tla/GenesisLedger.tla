---------------------------- MODULE GenesisLedger ----------------------------
(***************************************************************************)
(* scripts/generate-local-network-ledger.py.  Keys are loaded from five    *)
(* directories, or the stakers from a csv file; each offline key gets an   *)
(* account that delegates to the online key of the same index, which gets  *)
(* an account of its own.  The accounts are written to two files.          *)
(*                                                                         *)
(* A key is the directory it is in and its index in the glob's order, or   *)
(* it is a community staker's.  The rows of the csv may hold any key, more *)
(* than once and from the directories too; nothing looks for duplicates.   *)
(***************************************************************************)
EXTENDS Naturals, Sequences, FiniteSets, FiniteSetsExt

Directories == {"service", "online_whale", "offline_whale", "online_fish", "offline_fish"}

CONSTANTS
  MaxKeys,                                \* bound: keys of a directory, rows of the csv
  RowKey,                                 \* keys the rows of the csv may hold
  num_whale_accounts, num_fish_accounts,  \* options of the command
  Decimals                                \* digits after the point: 9

ASSUME GenesisLedgerAssumption ==
  /\ MaxKeys \in Nat /\ num_whale_accounts \in Nat /\ num_fish_accounts \in Nat
  /\ Decimals \in Nat \ {0}
  /\ RowKey \subseteq [kind : Directories \cup {"csv"}, i : Nat]

VARIABLES
  present,            \* directory -> number of its .pub files
  csv,                \* staker_csv_file: NoCsv, or for each row its key, or NotAKey if that does
                      \* not start with 4vsRC
  ledger_pc,
  keys,               \* ledger_public_keys
  index,              \* of the fish and whale loops
  ledger, annotated_ledger,
  out                 \* file -> its accounts

ledgerVars == <<present, csv, ledger_pc, keys, index, ledger, annotated_ledger, out>>

Key(kind, i) == [kind |-> kind, i |-> i]
NotAKey == Key("none", 0)
NoCsv == <<Key("no csv", 0)>>
Rows == UNION {[1..n -> RowKey \cup {NotAKey}] : n \in 0..MaxKeys}
KeysOf(kind) == [i \in 1..present[kind] |-> Key(kind, i)]

-----------------------------------------------------------------------------
\* str(n), as a sequence of digits
Digits[n \in Nat] == IF n < 10 THEN <<n>> ELSE Append(Digits[n \div 10], n % 10)

encode_nanocodas(n) ==
  LET s == Digits[n]
  IN  IF Len(s) > Decimals
      THEN [whole |-> SubSeq(s, 1, Len(s) - Decimals),
            frac  |-> SubSeq(s, Len(s) - Decimals + 1, Len(s))]
      ELSE [whole |-> <<0>>, frac |-> [i \in 1..(Decimals - Len(s)) |-> 0] \o s]

\* Balances, scaled down with the number of decimals: what matters below is that
\* they differ, and that a whale's online account has nothing.
fish_offline_balance == encode_nanocodas(655)
fish_online_balance == encode_nanocodas(5)
whale_offline_balance == encode_nanocodas(66000 * 175)
whale_online_balance == encode_nanocodas(0)
service_balance == encode_nanocodas(100)

-----------------------------------------------------------------------------
\* Any number of keys in each directory, with a csv or without.
LedgerInit ==
  /\ present \in [Directories -> 0..MaxKeys]
  /\ csv \in Rows \cup {NoCsv}
  /\ ledger_pc = "service_keys" /\ index = 1
  /\ keys = [service |-> <<>>, offline_whale |-> <<>>, online_whale |-> <<>>,
             offline_fish |-> <<>>, stakers |-> <<>>]
  /\ ledger = <<>> /\ annotated_ledger = <<>>
  /\ out = [f \in {} |-> <<>>]

load_service_keys ==
  /\ ledger_pc = "service_keys" /\ ledger_pc' = "offline_whale"
  /\ keys' = [keys EXCEPT !.service = KeysOf("service")]
  /\ UNCHANGED <<present, csv, index, ledger, annotated_ledger, out>>

\* A file whose name does not begin with that of a known service: KeyError.
unknown_service ==
  /\ ledger_pc = "service_keys" /\ present["service"] > 0 /\ ledger_pc' = "raised"
  /\ UNCHANGED <<present, csv, keys, index, ledger, annotated_ledger, out>>

\* A directory with fewer keys than required raises.
LoadsAll(kind, required, next) ==
  /\ ledger_pc = kind
  /\ IF present[kind] >= required
     THEN keys' = [keys EXCEPT ![kind] = KeysOf(kind)] /\ ledger_pc' = next
     ELSE UNCHANGED keys /\ ledger_pc' = "raised"
  /\ UNCHANGED <<present, csv, index, ledger, annotated_ledger, out>>

load_offline_whale_keys == LoadsAll("offline_whale", num_whale_accounts, "online_whale")
load_online_whale_keys == LoadsAll("online_whale", num_whale_accounts, "offline_fish")

load_offline_fish_keys == LoadsAll("offline_fish", num_fish_accounts, "stakers")

\* The first num_fish_accounts rows of the csv, of which those with a key count.
load_staker_row ==
  /\ ledger_pc = "stakers" /\ csv # NoCsv /\ index <= num_fish_accounts /\ index <= Len(csv)
  /\ keys' = IF csv[index] # NotAKey
             THEN [keys EXCEPT !.stakers = Append(@, csv[index])] ELSE keys
  /\ index' = index + 1
  /\ UNCHANGED <<present, csv, ledger_pc, ledger, annotated_ledger, out>>

\* A row of fewer than three columns: IndexError.
short_row ==
  /\ ledger_pc = "stakers" /\ csv # NoCsv /\ index <= num_fish_accounts /\ index <= Len(csv)
  /\ ledger_pc' = "raised"
  /\ UNCHANGED <<present, csv, keys, index, ledger, annotated_ledger, out>>

load_stakers_csv ==
  /\ ledger_pc = "stakers" /\ csv # NoCsv /\ (index > num_fish_accounts \/ index > Len(csv))
  /\ ledger_pc' = "service_accounts"
  /\ UNCHANGED <<present, csv, keys, index, ledger, annotated_ledger, out>>

\* The number that is compared is that of the offline keys.
load_online_fish_keys ==
  /\ ledger_pc = "stakers" /\ csv = NoCsv
  /\ IF present["offline_fish"] >= num_fish_accounts
     THEN /\ keys' = [keys EXCEPT !.stakers =
                        [i \in 1..Min({num_fish_accounts, present["online_fish"]}) |-> Key("online_fish", i)]]
          /\ ledger_pc' = "service_accounts"
     ELSE UNCHANGED keys /\ ledger_pc' = "raised"
  /\ UNCHANGED <<present, csv, index, ledger, annotated_ledger, out>>

-----------------------------------------------------------------------------
Account(pk, balance, delegate) == [pk |-> pk, balance |-> balance, delegate |-> delegate]
NoDelegate == NotAKey
Nicknamed(accounts, nickname) ==
  [i \in DOMAIN accounts |-> [account |-> accounts[i], nickname |-> nickname]]

Appends(accounts, nickname) ==
  /\ ledger' = ledger \o accounts
  /\ annotated_ledger' = annotated_ledger \o Nicknamed(accounts, nickname)

service_accounts ==
  /\ ledger_pc = "service_accounts" /\ ledger_pc' = "fish_accounts" /\ index' = 1
  /\ Appends([i \in DOMAIN keys.service |->
                Account(keys.service[i], service_balance, NoDelegate)], "service")
  /\ UNCHANGED <<present, csv, keys, out>>

\* The accounts of the offline key at the index and of the online key it delegates to.
Delegates(offline, online, offline_balance, online_balance) ==
  Appends(<<Account(offline, offline_balance, online),
            Account(online, online_balance, NoDelegate)>>, online)

fish_accounts ==
  /\ ledger_pc = "fish_accounts" /\ index <= Len(keys.offline_fish) /\ index <= Len(keys.stakers)
  /\ Delegates(keys.offline_fish[index], keys.stakers[index],
               fish_offline_balance, fish_online_balance)
  /\ index' = index + 1
  /\ UNCHANGED <<present, csv, ledger_pc, keys, out>>

\* The loop is over, or an IndexError of `stakers' breaks it.
fish_accounts_end ==
  /\ ledger_pc = "fish_accounts" /\ (index > Len(keys.offline_fish) \/ index > Len(keys.stakers))
  /\ ledger_pc' = "whale_accounts" /\ index' = 1
  /\ UNCHANGED <<present, csv, keys, ledger, annotated_ledger, out>>

\* *mutant*: the delegate has no account of its own
whale_accounts_half ==
  /\ ledger_pc = "whale_accounts" /\ index <= Len(keys.offline_whale) /\ index <= Len(keys.online_whale)
  /\ Appends(<<Account(keys.offline_whale[index], whale_offline_balance, keys.online_whale[index])>>,
             keys.online_whale[index])
  /\ index' = index + 1
  /\ UNCHANGED <<present, csv, ledger_pc, keys, out>>

whale_accounts ==
  /\ ledger_pc = "whale_accounts" /\ index <= Len(keys.offline_whale) /\ index <= Len(keys.online_whale)
  /\ Delegates(keys.offline_whale[index], keys.online_whale[index],
               whale_offline_balance, whale_online_balance)
  /\ index' = index + 1
  /\ UNCHANGED <<present, csv, ledger_pc, keys, out>>

whale_accounts_end ==
  /\ ledger_pc = "whale_accounts" /\ (index > Len(keys.offline_whale) \/ index > Len(keys.online_whale))
  /\ ledger_pc' = "genesis_ledger.json"
  /\ UNCHANGED <<present, csv, keys, index, ledger, annotated_ledger, out>>

write_ledger ==
  /\ ledger_pc = "genesis_ledger.json" /\ ledger_pc' = "annotated_ledger.json"
  /\ out' = [f \in {"genesis_ledger.json"} |-> ledger]
  /\ UNCHANGED <<present, csv, keys, index, ledger, annotated_ledger>>

\* What is written is `ledger', again.
write_annotated_ledger ==
  /\ ledger_pc = "annotated_ledger.json" /\ ledger_pc' = "done"
  /\ out' = [f \in DOMAIN out \cup {"annotated_ledger.json"} |-> ledger]
  /\ UNCHANGED <<present, csv, keys, index, ledger, annotated_ledger>>

LedgerNext ==
  \/ load_service_keys \/ unknown_service \/ load_offline_whale_keys \/ load_online_whale_keys
  \/ load_offline_fish_keys \/ load_staker_row \/ short_row \/ load_stakers_csv
  \/ load_online_fish_keys
  \/ service_accounts \/ fish_accounts \/ fish_accounts_end
  \/ whale_accounts \/ whale_accounts_end
  \/ write_ledger \/ write_annotated_ledger

LedgerSpec == LedgerInit /\ [][LedgerNext]_ledgerVars

-----------------------------------------------------------------------------
Accounts == out["genesis_ledger.json"]
Written == "genesis_ledger.json" \in DOMAIN out
HasAccount(pk) == \E i \in DOMAIN Accounts : Accounts[i].pk = pk
Pow10[k \in Nat] == IF k = 0 THEN 1 ELSE 10 * Pow10[k - 1]
PrefixValues(s) == LET value[i \in 0..Len(s)] == IF i = 0 THEN 0 ELSE 10 * value[i - 1] + s[i]
                   IN  value
Value(s) == PrefixValues(s)[Len(s)]

\* The balances of a ledger are exact, at every length of the number: at least one digit
\* before the point, exactly so many after it, and the value is the number's.
EncodingIsExact ==
  Written => \A n \in UNION {(Pow10[k] - 1)..(Pow10[k] + 1) : k \in 0..(Decimals + 1)} :
    LET e == encode_nanocodas(n)
    IN  /\ Len(e.whole) >= 1 /\ Len(e.frac) = Decimals
        /\ Value(e.whole) * Pow10[Decimals] + Value(e.frac) = n

\* Stake is never delegated to a key the ledger has no account for.
DelegatesHaveAccounts ==
  Written => \A i \in DOMAIN Accounts :
               Accounts[i].delegate # NoDelegate => HasAccount(Accounts[i].delegate)

\* The csv holds the key twice among the rows that are read, or it holds a key
\* of one of the directories that are read beside it.
ReadTwice(pk) ==
  \E m \in DOMAIN keys.stakers :
    /\ keys.stakers[m] = pk
    /\ \/ pk.kind \in Directories \ {"online_fish"}
       \/ \E n \in DOMAIN keys.stakers \ {m} : keys.stakers[n] = pk

\* A key gets two accounts, or is delegated to twice, only if the csv says so:
\* the command itself makes no account twice, and without a csv none is.
OneAccountPerKey ==
  Written => \A i, j \in DOMAIN Accounts :
    i # j => /\ Accounts[i].pk = Accounts[j].pk => ReadTwice(Accounts[i].pk)
             /\ \/ Accounts[i].delegate = NoDelegate \/ Accounts[i].delegate # Accounts[j].delegate
                \/ ReadTwice(Accounts[i].delegate)

\* There is a fish for every staker: whatever the directories and the csv hold,
\* a ledger that is written gives every staker an account and a delegation.
EveryStakerIsFunded ==
  Written => \A s \in DOMAIN keys.stakers :
               \E i, j \in DOMAIN Accounts :
                 /\ Accounts[i].pk = keys.stakers[s] /\ Accounts[i].balance = fish_online_balance
                 /\ Accounts[j].delegate = keys.stakers[s] /\ Accounts[j].balance = fish_offline_balance

\* A ledger that is written is as good as the files it is made from: exact
\* balances, one account for each key that is read once, and delegates and
\* stakers that have theirs.
LedgerIsClosed ==
  EncodingIsExact /\ DelegatesHaveAccounts /\ OneAccountPerKey /\ EveryStakerIsFunded
=============================================================================
