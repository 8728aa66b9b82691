---------------------------- MODULE AtomicLedger ----------------------------
(***************************************************************************)
(* What the ledger promises: a book per account, moved by exactly the      *)
(* entries recorded in it, each entry and its book in one step.  The       *)
(* promise is withdrawn for an account named in suspect, whose book two    *)
(* requests have written at the same time, until its owner states the      *)
(* balance afresh or the account is closed.                                *)
(***************************************************************************)
EXTENDS Integers, Functions

CONSTANTS Accounts, Entries, Nowhere

VARIABLES
  open,     \* accounts that exist
  book,     \* [Accounts -> Int], the balance an account shows
  entry,    \* [Entries -> [account, delta]]: what each transaction contributes
  suspect   \* accounts whose book may be off

vars == <<open, book, entry, suspect>>

NoEntry == [account |-> Nowhere, delta |-> 0]

\* What entry e contributes to account a.
On(e, a) == IF e.account = a THEN e.delta ELSE 0

Init ==
  /\ open = {}
  /\ book = [a \in Accounts |-> 0]
  /\ entry = [t \in Entries |-> NoEntry]
  /\ suspect = {}

\* A new account starts with whatever balance its owner states.
Open(a) ==
  /\ a \notin open
  /\ open' = open \cup {a}
  /\ \A b \in Accounts \ {a} : book'[b] = book[b]
  /\ UNCHANGED <<entry, suspect>>

\* An entry appears, is revised, moves or disappears; every trusted book
\* follows.
Record(t) ==
  /\ \A s \in Entries \ {t} : entry'[s] = entry[s]
  /\ entry'[t].account \in open \cup {Nowhere}
  /\ suspect \subseteq suspect'
  /\ \A a \in open \ suspect' :
       book'[a] = book[a] - On(entry[t], a) + On(entry'[t], a)
  /\ UNCHANGED open

\* A CSV import records any number of new entries of one account at once.
RecordAll(a) ==
  LET new == {t \in Entries : entry'[t] # entry[t]} IN
  /\ a \in open
  /\ \A t \in new : entry[t] = NoEntry /\ entry'[t].account = a
  /\ book' = [book EXCEPT ![a] =
                @ + SumFunction([t \in new |-> entry'[t].delta])]
  /\ UNCHANGED <<open, suspect>>

\* The owner states a balance, right or wrong.
State(a) ==
  /\ a \in open
  /\ \A b \in Accounts \ {a} : book'[b] = book[b]
  /\ suspect' \in {suspect, suspect \cup {a}, suspect \ {a}}
  /\ UNCHANGED <<open, entry>>

\* A closed account takes its book with it; its entries no longer count.
Close(a) ==
  /\ a \in open
  /\ open' = open \ {a}
  /\ \A b \in Accounts \ {a} : book'[b] = book[b]
  /\ entry' = [t \in Entries |-> IF entry[t].account = a THEN NoEntry
                                 ELSE entry[t]]
  /\ suspect' = suspect \ {a}

Next ==
  \/ \E a \in Accounts : Open(a) \/ RecordAll(a) \/ State(a) \/ Close(a)
  \/ \E t \in Entries : Record(t)

Spec == Init /\ [][Next]_vars

=============================================================================
