------------------------------ MODULE MCSysCalls ------------------------------
(* The ID calls and kMergeSort for TLC: root, two users and an ID outside the
   namespace; two programs with sizes below and above the least one accepted.
   No call of the one kind reads what the other writes, so the ID calls are
   explored while no program sorts, and the sorting under one user.          *)
EXTENDS Credentials, KMergeSort

NothingSorted == \A p \in Caller : calls[p] = 0

PlainRoot ==
  /\ retval = "none" /\ effective /\ permitted
  /\ \A i \in DOMAIN uids : uids[i] = RootID
  /\ \A i, j \in DOMAIN gids : gids[i] = gids[j] /\ gids[i] = Max(GID)

SysInit == CredentialsInit /\ SortInit

SysNext ==
  \/ NothingSorted /\ CredentialsNext /\ UNCHANGED sortVars
  \/ PlainRoot /\ SortNext /\ UNCHANGED credentialVars

SysSpec == SysInit /\ [][SysNext]_<<credentialVars, sortVars>>

Occurrences(a, v) == Cardinality({i \in DOMAIN a : a[i] = v})

\* mergeSort returns the elements it was given in ascending order, and touches
\* nothing outside l .. r.  The algorithm alone is checked on more and longer arrays.
ASSUME SortsAllShort ==
  \A n \in 1 .. 6 : \A a \in [0 .. n - 1 -> 1 .. 3], l \in 0 .. n - 1 :
    LET b == mergeSort(a, l, n - 1)
    IN  /\ \A i \in l + 1 .. n - 1 : b[i - 1] <= b[i]
        /\ \A v \in 1 .. 3 : Occurrences(a, v) = Occurrences(b, v)
        /\ \A i \in 0 .. l - 1 : b[i] = a[i]
===============================================================================
