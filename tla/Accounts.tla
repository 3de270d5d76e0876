------------------------------ MODULE Accounts --------------------------------
(***************************************************************************)
(* The accounts of the server and the sessions in them, with the sessions  *)
(* as a set.  Registry, in which a session is found through the uuid tree, *)
(* implements this.  Only the main loop touches them.                      *)
(***************************************************************************)
EXTENDS Integers, Sequences, SequencesExt

CONSTANTS
    Uuids,       \* machine ids
    Users,       \* [name, userid]; a name is a sequence of letters
    UsersOf,     \* UsersOf[u]: the users a machine may be configured with
    None         \* no account

ASSUME UsersAssumption == /\ \A u \in Uuids : UsersOf[u] \subseteq Users
                          /\ \A x \in Users : Len(x.name) \in Nat
                          /\ None \notin Users

VARIABLES
    accts,       \* srvopt.acct_items; an account is named by its user
    acct,        \* acct[u]: p_acct of the session of u; the items of an account
                 \* are the sessions that point to it, their order is left out
    opened       \* history: opened[u]: the user that opened the session of u

acctVars == <<accts, acct, opened>>

AcctInit ==
    /\ accts = <<>>
    /\ acct = [u \in Uuids |-> None]
    /\ opened = [u \in Uuids |-> None]

Items(a) == {u \in Uuids : acct[u] = a}

-----------------------------------------------------------------------------
\* The comparison of ss_find_acct_item is as long as the account's name.
Matches(x, a) == IsPrefix(a.name, x.name) /\ a.userid = x.userid

\* ss_find_acct_item: the first account in the list that matches
FindAcct(list, x) ==
    LET hits == {i \in DOMAIN list : Matches(x, list[i])} IN
    IF hits = {} THEN None ELSE list[Min(hits)]

\* Faulty: the disabled lines of slist_add, which add in front.
AddAcctInFront(x) == IF FindAcct(accts, x) # None THEN accts ELSE <<x>> \o accts

\* A user without an account gets one, at the end of the list.
AddAcct(x) == IF FindAcct(accts, x) # None THEN accts ELSE Append(accts, x)

\* ss_acct_remove
Unlink(list, a) == RemoveAt(list, CHOOSE i \in DOMAIN list : list[i] = a)

\* A new session, in the account that its user's name finds.
Enter(u, x) ==
    /\ acct' = [acct EXCEPT ![u] = FindAcct(accts', x)]
    /\ opened' = [opened EXCEPT ![u] = x]

\* A session goes, and with the last of its account the account.
Leave(u) ==
    /\ acct' = [acct EXCEPT ![u] = None]
    /\ opened' = [opened EXCEPT ![u] = None]
    /\ accts' = IF Items(acct[u]) = {u} THEN Unlink(accts, acct[u]) ELSE accts

\* The account is made first, and stays if the session exists already.
LogIn(u, x) ==
    /\ accts' = AddAcct(x)
    /\ IF acct[u] # None THEN UNCHANGED <<acct, opened>> ELSE Enter(u, x)

LogOut(u) == acct[u] # None /\ Leave(u)

AcctNext == \E u \in Uuids : LogOut(u) \/ \E x \in UsersOf[u] : LogIn(u, x)

AcctSpec == AcctInit /\ [][AcctNext]_acctVars

-----------------------------------------------------------------------------
\* A session is in the account that its user's name finds, although accounts
\* with a shorter name come and go.
OwnAccount ==
    \A u \in Uuids : acct[u] # None => FindAcct(accts, opened[u]) = acct[u]
=============================================================================
