---------------------------- MODULE MCImportWizard ----------------------------
(* Two families, a bank account and a credit card; a purchase and a line without *)
(* a date. *)
EXTENDS ImportWizard, TLC

CONSTANTS one, other, bank, card, l1, bad

Statement == [l \in {l1, bad} |-> l]

\* The account has been deleted before anything was done with it.
Unused(a) ==
  /\ a \notin Existing \cup {wizard.accountId} \cup (IF known = Null THEN {} ELSE known)
  /\ \A c \in calls \cup {job[i].request : i \in DOMAIN job} : c.account # a

\* Bound: after an import the wizard is opened again only by a user with one
\* account, who imports into it a second time.
Again == mounts < MaxMounts /\ \E a \in Accounts : Unused(a)

MCNext == Next /\ (step = Upload /\ step' # Upload => mounts = 0 \/ Again)
MCSpec == Init /\ [][MCNext]_vars /\ Fairness
=============================================================================
