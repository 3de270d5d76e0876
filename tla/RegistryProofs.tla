---------------------------- MODULE RegistryProofs ----------------------------
(***************************************************************************)
(* Proofs about Accounts and Registry, for any machines and users.         *)
(*                                                                         *)
(* No account is twice in the list (Distinct): one is added only when no   *)
(* listed one matches, and a name matches itself.  So an account that goes *)
(* takes no other with it, and one that is added comes behind all others:  *)
(* neither changes which account is the first to match a name, unless it   *)
(* goes itself.                                                            *)
(*                                                                         *)
(* The tree of the registry is valid and has the sessions that live        *)
(* (RegInv).  So the search finds just these, and a step of the registry   *)
(* is one of Accounts, which keeps the sessions as a set.                  *)
(***************************************************************************)
EXTENDS Registry, RbTreeProofs, SequenceTheorems

-----------------------------------------------------------------------------
(* The accounts.                                                           *)

AcctTypeOK ==
    /\ accts \in Seq(Users)
    /\ acct \in [Uuids -> Users \cup {None}]
    /\ opened \in [Uuids -> Users \cup {None}]

Distinct == \A i, j \in 1..Len(accts) : accts[i] = accts[j] => i = j

\* Position i of a list is the first that matches x.
IsFirst(list, x, i) ==
    /\ i \in 1..Len(list) /\ Matches(x, list[i])
    /\ \A j \in 1..Len(list) : Matches(x, list[j]) => i <= j

\* A session was opened by a user, whom the account of the session matches first.
Housed(u) ==
    acct[u] # None =>
        /\ opened[u] \in Users
        /\ \E i \in 1..Len(accts) : IsFirst(accts, opened[u], i) /\ accts[i] = acct[u]

AcctInv == AcctTypeOK /\ Distinct /\ \A u \in Uuids : Housed(u)

-----------------------------------------------------------------------------
(* Searching the list.                                                     *)

\* A set of positions that is not empty has a least one.
LEMMA LeastPosition ==
    ASSUME NEW n \in Nat, NEW S \in SUBSET (1..n), S # {}
    PROVE  \E i \in S : \A j \in S : i <= j
<1>1. S \subseteq Nat
  OBVIOUS
<1>2. PICK i \in S : \A j \in S : ~(<<j, i>> \in OpToRel(<, Nat))
  BY <1>1, WFMin, NatLessThanWellFounded, Zenon
<1>3. \A j \in S : ~(j < i)
  BY <1>1, <1>2 DEF OpToRel
<1> QED
  BY <1>1, <1>3

\* A name matches itself.
LEMMA MatchesItself ==
    ASSUME NEW x \in Users PROVE Matches(x, x)
<1>1. Len(x.name) \in Nat
  BY UsersAssumption
<1> QED
  BY <1>1 DEF Matches, IsPrefix

\* The account that is found is the first that matches; where one matches, one is found.
LEMMA FoundFirst ==
    ASSUME NEW list \in Seq(Users), NEW x
    PROVE  /\ \A i : IsFirst(list, x, i) => FindAcct(list, x) = list[i]
           /\ (\E i \in 1..Len(list) : Matches(x, list[i])) => \E i : IsFirst(list, x, i)
           /\ FindAcct(list, x) = None => \A i \in 1..Len(list) : ~Matches(x, list[i])
           /\ FindAcct(list, x) # None => \E i : IsFirst(list, x, i)
<1> DEFINE hits == {i \in DOMAIN list : Matches(x, list[i])}
           least == Min(hits)
<1>1. Len(list) \in Nat /\ DOMAIN list = 1..Len(list)
  BY LenProperties
<1>2. FindAcct(list, x) = IF hits = {} THEN None ELSE list[least]
  BY DEF FindAcct
<1>3. \A i : IsFirst(list, x, i) <=> i \in hits /\ \A j \in hits : i <= j
  BY <1>1 DEF IsFirst
<1>4. hits # {} => \E i \in hits : \A j \in hits : i <= j
  BY <1>1, LeastPosition
<1>5. hits # {} => least \in hits /\ \A j \in hits : least <= j
  BY <1>4 DEF Min
<1>6. hits # {} => list[least] \in Users
  BY <1>1, <1>5, ElementOfSeq
<1>7. ASSUME NEW i, IsFirst(list, x, i) PROVE FindAcct(list, x) = list[i]
  <2>1. i \in hits /\ \A j \in hits : i <= j
    BY <1>3, <1>7
  <2>2. i <= least /\ least <= i /\ i \in Nat /\ least \in Nat
    BY <1>1, <1>5, <2>1
  <2>3. i = least
    BY <2>2
  <2> QED
    BY <1>2, <2>1, <2>3
<1>8. (\E i \in 1..Len(list) : Matches(x, list[i])) => \E i : IsFirst(list, x, i)
  BY <1>1, <1>3, <1>4
<1>9. FindAcct(list, x) = None <=> hits = {}
  BY <1>2, <1>6, UsersAssumption
<1> QED
  BY <1>1, <1>3, <1>4, <1>7, <1>8, <1>9

-----------------------------------------------------------------------------
(* Steps.                                                                  *)

\* A list without its item at position i.
LEMMA ItemRemoved ==
    ASSUME NEW S, NEW s \in Seq(S), NEW n \in Nat, n = Len(s), NEW i \in 1..n
    PROVE  /\ RemoveAt(s, i) \in Seq(S) /\ Len(RemoveAt(s, i)) = n - 1
           /\ \A k \in 1..(n - 1) : k < i => RemoveAt(s, i)[k] = s[k]
           /\ \A k \in 1..(n - 1) : k >= i => RemoveAt(s, i)[k] = s[k + 1]
<1> DEFINE front == SubSeq(s, 1, i - 1)
           back  == SubSeq(s, i + 1, n)
<1>1. \A k \in 1..n : s[k] \in S
  BY ElementOfSeq
<1>2. /\ front \in Seq(S) /\ Len(front) = i - 1
      /\ \A k \in 1..(i - 1) : front[k] = s[k]
  <2>1. \A k \in 1..(i - 1) : s[k] \in S
    BY <1>1
  <2>2. front \in Seq(S) /\ Len(front) = (IF 1 <= i - 1 THEN (i - 1) - 1 + 1 ELSE 0)
    BY <2>1, SubSeqProperties
  <2>3. \A k \in 1..((i - 1) - 1 + 1) : front[k] = s[1 + k - 1]
    BY <2>1, SubSeqProperties
  <2>4. (i - 1) - 1 + 1 = i - 1 /\ \A k \in 1..(i - 1) : 1 + k - 1 = k
    OBVIOUS
  <2> HIDE DEF front
  <2> QED
    BY <2>2, <2>3, <2>4
<1>3. /\ back \in Seq(S) /\ Len(back) = n - i
      /\ \A k \in 1..(n - i) : back[k] = s[k + i]
  <2>1. \A k \in (i + 1)..n : s[k] \in S
    BY <1>1
  <2>2. back \in Seq(S) /\ Len(back) = (IF i + 1 <= n THEN n - (i + 1) + 1 ELSE 0)
    BY <2>1, SubSeqProperties
  <2>3. \A k \in 1..(n - (i + 1) + 1) : back[k] = s[(i + 1) + k - 1]
    BY <2>1, SubSeqProperties
  <2>4. n - (i + 1) + 1 = n - i /\ \A k \in 1..(n - i) : (i + 1) + k - 1 = k + i
    OBVIOUS
  <2> HIDE DEF back
  <2> QED
    BY <2>2, <2>3, <2>4
<1>4. RemoveAt(s, i) = front \o back
  BY DEF RemoveAt
<1> HIDE DEF front, back
<1>5. /\ front \o back \in Seq(S) /\ Len(front \o back) = Len(front) + Len(back)
      /\ \A k \in 1..(Len(front) + Len(back)) :
            (front \o back)[k] = IF k <= Len(front) THEN front[k] ELSE back[k - Len(front)]
  BY <1>2, <1>3, ConcatProperties
<1>6. (i - 1) + (n - i) = n - 1
  OBVIOUS
<1>7. ASSUME NEW k \in 1..(n - 1), k < i PROVE RemoveAt(s, i)[k] = s[k]
  <2>1. k <= i - 1 /\ k \in 1..(i - 1)
    BY <1>7
  <2> QED
    BY <1>2, <1>3, <1>4, <1>5, <1>6, <2>1
<1>8. ASSUME NEW k \in 1..(n - 1), k >= i PROVE RemoveAt(s, i)[k] = s[k + 1]
  <2>1. ~(k <= i - 1) /\ k - (i - 1) \in 1..(n - i) /\ k - (i - 1) + i = k + 1
    BY <1>8
  <2>2. RemoveAt(s, i)[k] = back[k - (i - 1)]
    BY <1>2, <1>3, <1>4, <1>5, <1>6, <2>1
  <2>3. back[k - (i - 1)] = s[(k - (i - 1)) + i]
    BY <1>3, <2>1
  <2> QED
    BY <2>1, <2>2, <2>3
<1> QED
  BY <1>2, <1>3, <1>4, <1>5, <1>6, <1>7, <1>8

\* What ss_main_handle_init does to the list keeps it in order, keeps who comes
\* first, and the new session's user is matched.
LEMMA AddKeeps ==
    ASSUME AcctTypeOK, Distinct, NEW x \in Users, accts' = AddAcct(x)
    PROVE  /\ accts' \in Seq(Users) /\ Distinct'
           /\ \A y, i : IsFirst(accts, y, i) => IsFirst(accts', y, i) /\ accts'[i] = accts[i]
           /\ \E i : IsFirst(accts', x, i)
<1>1. accts \in Seq(Users) /\ Len(accts) \in Nat
  BY LenProperties DEF AcctTypeOK
<1>2. CASE FindAcct(accts, x) # None
  <2>1. accts' = accts /\ \E i : IsFirst(accts, x, i)
    BY <1>1, <1>2, FoundFirst DEF AddAcct
  <2> QED
    BY <1>1, <2>1 DEF Distinct
<1>3. CASE FindAcct(accts, x) = None
  <2>1. PICK n \in Nat : n = Len(accts)
    BY <1>1
  <2>2. /\ accts' \in Seq(Users) /\ Len(accts') = n + 1 /\ accts'[n + 1] = x
        /\ \A i \in 1..n : accts'[i] = accts[i]
    BY <1>1, <1>3, <2>1, AppendProperties DEF AddAcct
  <2>3. \A i \in 1..n : ~Matches(x, accts[i])
    BY <1>1, <1>3, <2>1, FoundFirst
  <2>4. \A i \in 1..n : accts[i] # x
    BY <2>3, MatchesItself
  <2>5. Distinct'
    <3>1. ASSUME NEW i \in 1..(n + 1), NEW j \in 1..(n + 1), accts'[i] = accts'[j]
          PROVE  i = j
      <4>1. (i \in 1..n \/ i = n + 1) /\ (j \in 1..n \/ j = n + 1)
        OBVIOUS
      <4> QED
        BY <2>1, <2>2, <2>4, <3>1, <4>1 DEF Distinct
    <3> QED
      BY <2>2, <3>1 DEF Distinct
  <2>6. ASSUME NEW y, NEW i, IsFirst(accts, y, i)
        PROVE  IsFirst(accts', y, i) /\ accts'[i] = accts[i]
    <3>1. /\ i \in 1..n /\ Matches(y, accts[i])
          /\ \A j \in 1..n : Matches(y, accts[j]) => i <= j
      BY <2>1, <2>6 DEF IsFirst
    <3>2. ASSUME NEW j \in 1..(n + 1), Matches(y, accts'[j]) PROVE i <= j
      <4>1. j \in 1..n \/ j = n + 1
        OBVIOUS
      <4> QED
        BY <2>2, <3>1, <3>2, <4>1
    <3>3. i \in 1..(n + 1)
      BY <3>1
    <3> QED
      BY <2>2, <3>1, <3>2, <3>3 DEF IsFirst
  <2>7. \E i : IsFirst(accts', x, i)
    <3>1. n + 1 \in 1..Len(accts') /\ Matches(x, accts'[n + 1])
      BY <2>2, MatchesItself
    <3> QED
      BY <2>2, <3>1, FoundFirst
  <2> QED
    BY <2>2, <2>5, <2>6, <2>7
<1> QED
  BY <1>2, <1>3

\* An account that leaves the list changes no other's place in front of a name.
LEMMA UnlinkKeeps ==
    ASSUME AcctTypeOK, Distinct, NEW i \in 1..Len(accts), accts' = Unlink(accts, accts[i])
    PROVE  /\ accts' \in Seq(Users) /\ Distinct'
           /\ \A y, j : IsFirst(accts, y, j) /\ j # i =>
                 \E k : IsFirst(accts', y, k) /\ accts'[k] = accts[j]
<1>1. accts \in Seq(Users) /\ Len(accts) \in Nat /\ DOMAIN accts = 1..Len(accts)
  BY LenProperties DEF AcctTypeOK
<1>2. PICK n \in Nat : n = Len(accts)
  BY <1>1
<1>3. (CHOOSE k \in DOMAIN accts : accts[k] = accts[i]) = i
  BY <1>1 DEF Distinct
<1>4. accts' = RemoveAt(accts, i)
  BY <1>3 DEF Unlink
<1>5. \A k \in 1..(n - 1) : k \in 1..n /\ k + 1 \in 1..n
  OBVIOUS
<1>6. n - 1 \in Nat /\ i \in 1..n
  <2>1. i \in 1..n
    BY <1>2
  <2> QED
    BY <2>1
<1>7. /\ RemoveAt(accts, i) \in Seq(Users) /\ Len(RemoveAt(accts, i)) = n - 1
      /\ \A k \in 1..(n - 1) : k < i => RemoveAt(accts, i)[k] = accts[k]
      /\ \A k \in 1..(n - 1) : k >= i => RemoveAt(accts, i)[k] = accts[k + 1]
  <2>1. accts \in Seq(Users) /\ n \in Nat /\ n = Len(accts) /\ i \in 1..n
    BY <1>1, <1>2, <1>6
  <2>2. RemoveAt(accts, i) \in Seq(Users) /\ Len(RemoveAt(accts, i)) = n - 1
    BY <2>1, ItemRemoved
  <2>3. \A k \in 1..(n - 1) : k < i => RemoveAt(accts, i)[k] = accts[k]
    BY <2>1, ItemRemoved
  <2>4. \A k \in 1..(n - 1) : k >= i => RemoveAt(accts, i)[k] = accts[k + 1]
    BY <2>1, ItemRemoved
  <2> QED
    BY <2>2, <2>3, <2>4
<1>8. /\ accts' \in Seq(Users) /\ Len(accts') = n - 1
      /\ \A k \in 1..(n - 1) : k < i => accts'[k] = accts[k]
      /\ \A k \in 1..(n - 1) : k >= i => accts'[k] = accts[k + 1]
  BY <1>4, <1>7, Zenon
<1>9. Distinct'
  <2>1. ASSUME NEW j \in 1..(n - 1), NEW k \in 1..(n - 1), accts'[j] = accts'[k]
        PROVE  j = k
    <3>1. \A a, b \in 1..n : accts[a] = accts[b] => a = b
      BY <1>2 DEF Distinct
    <3>2. CASE j < i /\ k < i
      BY <1>5, <1>8, <2>1, <3>1, <3>2
    <3>3. CASE j < i /\ k >= i
      <4>1. j = k + 1
        BY <1>5, <1>8, <2>1, <3>1, <3>3
      <4> QED
        BY <1>6, <3>3, <4>1
    <3>4. CASE j >= i /\ k < i
      <4>1. j + 1 = k
        BY <1>5, <1>8, <2>1, <3>1, <3>4
      <4> QED
        BY <1>6, <3>4, <4>1
    <3>5. CASE j >= i /\ k >= i
      <4>1. j + 1 = k + 1
        BY <1>5, <1>8, <2>1, <3>1, <3>5
      <4> QED
        BY <4>1
    <3> QED
      BY <1>6, <3>2, <3>3, <3>4, <3>5
  <2> QED
    BY <1>8, <2>1 DEF Distinct
<1>10. ASSUME NEW y, NEW j, IsFirst(accts, y, j), j # i
       PROVE  \E k : IsFirst(accts', y, k) /\ accts'[k] = accts[j]
  <2>1. /\ j \in 1..n /\ Matches(y, accts[j])
        /\ \A m \in 1..n : Matches(y, accts[m]) => j <= m
    BY <1>2, <1>10 DEF IsFirst
  <2>2. CASE j < i
    <3>1. j \in 1..(n - 1) /\ accts'[j] = accts[j]
      BY <1>6, <1>8, <2>1, <2>2
    <3>2. ASSUME NEW m \in 1..(n - 1), Matches(y, accts'[m]) PROVE j <= m
      <4>1. CASE m < i
        BY <1>5, <1>8, <2>1, <3>2, <4>1
      <4>2. CASE m >= i
        BY <1>6, <2>1, <2>2, <4>2
      <4> QED
        BY <1>6, <4>1, <4>2
    <3> QED
      BY <1>8, <2>1, <3>1, <3>2 DEF IsFirst
  <2>3. CASE j > i
    <3>1. PICK k \in 1..(n - 1) : k + 1 = j
      BY <1>6, <2>1, <2>3
    <3>2. k >= i /\ accts'[k] = accts[j]
      BY <1>6, <1>8, <2>3, <3>1
    <3>3. ASSUME NEW m \in 1..(n - 1), Matches(y, accts'[m]) PROVE k <= m
      <4>1. CASE m < i
        <5>1. j <= m
          BY <1>5, <1>8, <2>1, <3>3, <4>1
        <5> QED
          BY <3>1, <5>1
      <4>2. CASE m >= i
        <5>1. j <= m + 1
          BY <1>5, <1>8, <2>1, <3>3, <4>2
        <5> QED
          BY <3>1, <5>1
      <4> QED
        BY <1>6, <4>1, <4>2
    <3> QED
      BY <1>8, <2>1, <3>1, <3>2, <3>3 DEF IsFirst
  <2> QED
    BY <1>6, <1>10, <2>1, <2>2, <2>3
<1> QED
  BY <1>8, <1>9, <1>10

\* Logins and departures keep the invariant.  A departing account is in no
\* other session, so the accounts the others point to are still first.
LEMMA StepAcctInv == AcctInv /\ [AcctNext]_acctVars => AcctInv'
<1> SUFFICES ASSUME AcctInv, [AcctNext]_acctVars PROVE AcctInv'
  OBVIOUS
<1>i. AcctTypeOK /\ Distinct /\ \A u \in Uuids : Housed(u)
  BY DEF AcctInv
<1>1. ASSUME NEW u \in Uuids, NEW x \in UsersOf[u], LogIn(u, x) PROVE AcctInv'
  <2>1. x \in Users /\ accts' = AddAcct(x)
    BY <1>1, UsersAssumption DEF LogIn
  <2>2. accts' \in Seq(Users) /\ Distinct'
    BY <1>i, <2>1, AddKeeps
  <2>3. \A y, i : IsFirst(accts, y, i) => IsFirst(accts', y, i) /\ accts'[i] = accts[i]
    BY <1>i, <2>1, AddKeeps
  <2>4. PICK i : IsFirst(accts', x, i)
    BY <1>i, <2>1, AddKeeps
  <2>5. ASSUME NEW b \in Uuids, UNCHANGED <<acct[b], opened[b]>> PROVE Housed(b)'
    <3>1. acct[b] # None => /\ opened[b] \in Users
                            /\ \E k \in 1..Len(accts) : IsFirst(accts, opened[b], k) /\ accts[k] = acct[b]
      BY <1>i DEF Housed
    <3>2. \A k : IsFirst(accts', opened[b], k) => k \in 1..Len(accts')
      BY DEF IsFirst
    <3> QED
      BY <2>3, <2>5, <3>1, <3>2 DEF Housed
  <2>6. CASE acct[u] # None
    <3>1. UNCHANGED <<acct, opened>>
      BY <1>1, <2>6 DEF LogIn
    <3> QED
      BY <1>i, <2>2, <2>5, <3>1 DEF AcctInv, AcctTypeOK
  <2>7. CASE acct[u] = None
    <3>1. /\ acct' = [acct EXCEPT ![u] = FindAcct(accts', x)]
          /\ opened' = [opened EXCEPT ![u] = x]
      BY <1>1, <2>7 DEF LogIn, Enter
    <3>2. FindAcct(accts', x) = accts'[i] /\ i \in 1..Len(accts')
      BY <2>2, <2>4, FoundFirst DEF IsFirst
    <3>3. accts'[i] \in Users
      BY <2>2, <3>2, ElementOfSeq
    <3>4. acct'[u] = accts'[i] /\ opened'[u] = x
      BY <1>i, <3>1, <3>2 DEF AcctTypeOK
    <3>5. AcctTypeOK'
      BY <1>i, <2>1, <2>2, <3>1, <3>2, <3>3 DEF AcctTypeOK
    <3>6. Housed(u)'
      BY <2>1, <2>4, <3>2, <3>4 DEF Housed
    <3>7. \A b \in Uuids : b # u => acct'[b] = acct[b] /\ opened'[b] = opened[b]
      BY <1>i, <3>1 DEF AcctTypeOK
    <3> QED
      BY <2>2, <2>5, <3>5, <3>6, <3>7 DEF AcctInv
  <2> QED
    BY <2>6, <2>7
<1>2. ASSUME NEW u \in Uuids, LogOut(u) PROVE AcctInv'
  <2>1. /\ acct[u] # None /\ acct' = [acct EXCEPT ![u] = None]
        /\ opened' = [opened EXCEPT ![u] = None]
        /\ accts' = IF Items(acct[u]) = {u} THEN Unlink(accts, acct[u]) ELSE accts
    BY <1>2 DEF LogOut, Leave
  <2>2. /\ acct'[u] = None
        /\ \A b \in Uuids : b # u => acct'[b] = acct[b] /\ opened'[b] = opened[b]
        /\ acct' \in [Uuids -> Users \cup {None}] /\ opened' \in [Uuids -> Users \cup {None}]
    BY <1>i, <2>1 DEF AcctTypeOK
  <2>3. Housed(u)'
    BY <2>2 DEF Housed
  <2>4. CASE Items(acct[u]) # {u}
    <3>1. accts' = accts
      BY <2>1, <2>4
    <3>2. \A b \in Uuids : b # u => Housed(b)'
      BY <1>i, <2>2, <3>1 DEF Housed
    <3> QED
      BY <1>i, <2>2, <2>3, <3>1, <3>2 DEF AcctInv, AcctTypeOK, Distinct
  <2>5. CASE Items(acct[u]) = {u}
    <3>1. PICK i \in 1..Len(accts) : accts[i] = acct[u]
      BY <1>i, <2>1 DEF Housed
    <3>2. accts' = Unlink(accts, accts[i])
      BY <2>1, <2>5, <3>1
    <3>3. accts' \in Seq(Users) /\ Distinct'
      BY <1>i, <3>2, UnlinkKeeps
    <3>4. \A y, j : IsFirst(accts, y, j) /\ j # i =>
                \E k : IsFirst(accts', y, k) /\ accts'[k] = accts[j]
      BY <1>i, <3>2, UnlinkKeeps
    <3>5. ASSUME NEW b \in Uuids, b # u, acct[b] # None PROVE Housed(b)'
      <4>1. PICK j : IsFirst(accts, opened[b], j) /\ accts[j] = acct[b] /\ opened[b] \in Users
        BY <1>i, <3>5 DEF Housed
      <4>2. acct[b] # acct[u]
        BY <2>5, <3>5 DEF Items
      <4>3. PICK k : IsFirst(accts', opened[b], k) /\ accts'[k] = accts[j]
        BY <3>1, <3>4, <4>1, <4>2
      <4>4. k \in 1..Len(accts')
        BY <4>3 DEF IsFirst
      <4> QED
        BY <2>2, <3>5, <4>1, <4>3, <4>4 DEF Housed
    <3>6. \A b \in Uuids : b # u => Housed(b)'
      BY <2>2, <3>5 DEF Housed
    <3> QED
      BY <2>2, <2>3, <3>3, <3>6 DEF AcctInv, AcctTypeOK
  <2> QED
    BY <2>4, <2>5
<1>3. CASE UNCHANGED acctVars
  BY <1>i, <1>3 DEF AcctInv, AcctTypeOK, Distinct, Housed, acctVars
<1> QED
  BY <1>1, <1>2, <1>3 DEF AcctNext

\* It holds at the start, when there is no account.
LEMMA InitAcctInv == AcctInit => AcctInv
<1> SUFFICES ASSUME AcctInit PROVE AcctInv
  OBVIOUS
<1>1. accts \in Seq(Users) /\ Len(accts) = 0
  BY DEF AcctInit
<1>2. AcctTypeOK /\ Distinct
  BY <1>1 DEF AcctInit, AcctTypeOK, Distinct
<1>3. \A u \in Uuids : Housed(u)
  BY DEF AcctInit, Housed
<1> QED
  BY <1>2, <1>3 DEF AcctInv

\* The invariant holds in every reachable state.
LEMMA AcctInvariance == AcctSpec => []AcctInv
  BY InitAcctInv, StepAcctInv, PTL DEF AcctSpec

\* The account that matches a session's user first is the one that is found.
LEMMA AcctInvOwn == AcctInv => OwnAccount
<1> SUFFICES ASSUME AcctInv, NEW u \in Uuids, acct[u] # None
             PROVE  FindAcct(accts, opened[u]) = acct[u]
  BY DEF OwnAccount
<1>1. accts \in Seq(Users) /\ Housed(u)
  BY DEF AcctInv, AcctTypeOK
<1>2. PICK i : IsFirst(accts, opened[u], i) /\ accts[i] = acct[u]
  BY <1>1 DEF Housed
<1> QED
  BY <1>1, <1>2, FoundFirst

\* ss_find_acct_item, asked for the user that opened a session, returns the
\* account the session is in, whatever accounts ss_main_handle_init has added
\* and ss_acct_remove has taken away since, and for every set of users.
THEOREM AccountIsOwn == AcctSpec => []OwnAccount
  BY AcctInvOwn, AcctInvariance, PTL

-----------------------------------------------------------------------------
(* The registry.                                                           *)

\* The sessions that live.
Live == {u \in Uuids : acct[u] # None}

\* The tree is valid, and has the sessions that live.
RegInv == Valid(tree, Live, Live) /\ AcctInv

\* What ss_uuid_search finds.
LEMMA FoundLive ==
    ASSUME RegInv, NEW u \in Uuids
    PROVE  Found(tree, u) <=> acct[u] # None
<1>1. u \in Nodes /\ Valid(tree, Live, Live)
  BY UuidsAssumption DEF RegInv
<1>2. Found(tree, u) <=> u \in Live
  BY <1>1, FoundIs
<1> QED
  BY <1>2 DEF Live

\* A login and a departure keep the tree valid, and are to the accounts what the
\* set of the sessions makes of them.
LEMMA StepRegInv == RegInv /\ [Next]_vars => RegInv' /\ [AcctNext]_acctVars
<1> SUFFICES ASSUME RegInv, [Next]_vars PROVE RegInv' /\ [AcctNext]_acctVars
  OBVIOUS
<1>1. AcctInv /\ AcctTypeOK /\ Distinct /\ Valid(tree, Live, Live)
  BY DEF RegInv, AcctInv
<1>2. SUFFICES Valid(tree', Live', Live') /\ [AcctNext]_acctVars
  BY <1>1, StepAcctInv DEF RegInv
<1>3. ASSUME NEW u \in Uuids, NEW x \in UsersOf[u], DaemonInit(u, x)
      PROVE  Valid(tree', Live', Live') /\ [AcctNext]_acctVars
  <2>1. x \in Users /\ accts' = AddAcct(x) /\ u \in Nodes
    BY <1>3, UsersAssumption, UuidsAssumption DEF DaemonInit
  <2>2. Found(tree, u) <=> acct[u] # None
    BY FoundLive
  <2>3. LogIn(u, x)
    BY <1>3, <2>2 DEF DaemonInit, LogIn
  <2>4. CASE acct[u] # None
    <3>1. tree' = tree /\ acct' = acct
      BY <1>3, <2>2, <2>4 DEF DaemonInit
    <3>2. Live' = Live
      BY <3>1 DEF Live
    <3> QED
      BY <1>1, <2>3, <3>1, <3>2 DEF AcctNext
  <2>5. CASE acct[u] = None
    <3>1. tree' = Insert(tree, u) /\ acct' = [acct EXCEPT ![u] = FindAcct(accts', x)]
      BY <1>3, <2>2, <2>5 DEF DaemonInit, Enter
    <3>2. FindAcct(accts', x) # None
      <4>1. accts' \in Seq(Users) /\ \E i : IsFirst(accts', x, i)
        BY <1>1, <2>1, AddKeeps
      <4>2. PICK i : IsFirst(accts', x, i)
        BY <4>1
      <4>3. FindAcct(accts', x) = accts'[i] /\ i \in 1..Len(accts')
        BY <4>1, <4>2, FoundFirst DEF IsFirst
      <4>4. accts'[i] \in Users
        BY <4>1, <4>3, ElementOfSeq
      <4> QED
        BY <4>3, <4>4, UsersAssumption
    <3>3. Live' = Live \cup {u} /\ u \notin Live
      BY <1>1, <2>5, <3>1, <3>2 DEF Live, AcctTypeOK
    <3>4. Valid(Insert(tree, u), Live \cup {u}, Live \cup {u})
      BY <1>1, <2>1, <3>3, InsertIs
    <3> QED
      BY <2>3, <3>1, <3>3, <3>4 DEF AcctNext
  <2> QED
    BY <2>4, <2>5
<1>4. ASSUME NEW u \in Uuids, ActivItemRemove(u)
      PROVE  Valid(tree', Live', Live') /\ [AcctNext]_acctVars
  <2>1. LogOut(u) /\ tree' = Erase(tree, u) /\ acct[u] # None /\ acct' = [acct EXCEPT ![u] = None]
    BY <1>4 DEF ActivItemRemove, LogOut, Leave
  <2>2. Live' = Live \ {u} /\ u \in Live
    BY <1>1, <2>1 DEF Live, AcctTypeOK
  <2>3. Valid(Erase(tree, u), Live \ {u}, Live \ {u})
    BY <1>1, <2>2, EraseIs
  <2> QED
    BY <2>1, <2>2, <2>3 DEF AcctNext
<1>5. CASE UNCHANGED vars
  <2>1. tree' = tree /\ acct' = acct /\ UNCHANGED acctVars
    BY <1>5 DEF vars, acctVars
  <2>2. Live' = Live
    BY <2>1 DEF Live
  <2> QED
    BY <1>1, <2>1, <2>2
<1> QED
  BY <1>3, <1>4, <1>5 DEF Next

\* The invariant holds in every reachable state.
LEMMA RegInvariance == Spec => []RegInv
<1>1. Init => RegInv
  <2> SUFFICES ASSUME Init PROVE RegInv
    OBVIOUS
  <2>1. tree = Empty /\ AcctInit
    BY DEF Init
  <2>2. Live = {}
    BY <2>1 DEF Live, AcctInit
  <2>3. AcctInv
    BY <2>1, InitAcctInv
  <2> QED
    BY <2>1, <2>2, <2>3, ValidEmpty DEF RegInv
<1> QED
  BY <1>1, StepRegInv, PTL DEF Spec

\* After any sequence of ss_uuid_insert and rb_erase, for any set of machine ids,
\* the uuid tree is a red-black tree in order, with right parent pointers.
THEOREM TreeIsRedBlack == Spec => []RedBlack
<1>1. RegInv => RedBlack
  BY ValidIs DEF RegInv, RedBlack
<1> QED
  BY <1>1, RegInvariance, PTL

\* ss_uuid_search finds the sessions that live and no others, and their users
\* are let in by ss_main_handle_init.
THEOREM SessionsAreListed == Spec => []Listed
<1>1. RegInv => Listed
  <2> SUFFICES ASSUME RegInv, NEW u \in Uuids
               PROVE  /\ Found(tree, u) <=> acct[u] # None
                      /\ acct[u] # None => UsrAdmitted(u, opened[u])
    BY DEF Listed
  <2>1. Found(tree, u) <=> acct[u] # None
    BY FoundLive
  <2>2. acct[u] # None => FindAcct(accts, opened[u]) = acct[u]
    BY AcctInvOwn DEF RegInv, OwnAccount
  <2> QED
    BY <2>1, <2>2 DEF UsrAdmitted
<1> QED
  BY <1>1, RegInvariance, PTL

\* The registry, whose sessions are found through the tree, implements Accounts,
\* whose sessions are a set.
THEOREM RegistryImplementsAccounts == Spec => ImplementsAccounts
<1>1. Init => AcctInit
  BY DEF Init
<1> QED
  BY <1>1, RegInvariance, StepRegInv, PTL DEF Spec, AcctSpec, ImplementsAccounts

\* So what holds of the accounts holds of the registry's.
THEOREM RegistryAccountIsOwn == Spec => []OwnAccount
  BY RegistryImplementsAccounts, AccountIsOwn, PTL DEF ImplementsAccounts
=============================================================================
