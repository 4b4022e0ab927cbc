------------------------------ MODULE KMergeSort ------------------------------
(***************************************************************************)
(* HW2/Ques5: the system call kMergeSort added to kernel/sys.c, with the    *)
(* merge sort it runs, and programs calling it.  Several programs can be in *)
(* the call at once; each has a kernel buffer of its own.                   *)
(*                                                                          *)
(* A user array is a function on 0 .. length-1, or NULL.  A copy to or from *)
(* user space can fail part-way (an unmapped page), and another thread of   *)
(* the program can write the unsorted array at any time.                    *)
(***************************************************************************)
EXTENDS Integers, Sequences, FiniteSets, FiniteSetsExt

CONSTANTS
  Caller,      \* the programs calling
  Elements,    \* the integers sorted
  MinSize,     \* the least size accepted (256)
  Sizes,       \* the sizes passed
  MaxSorts     \* bound: calls of each program

ASSUME SortAssumption ==
  /\ Caller # {} /\ IsFiniteSet(Caller) /\ Elements \subseteq Int /\ Elements # {}
  /\ MinSize \in Nat \ {0} /\ Sizes \subseteq Nat /\ MaxSorts \in Nat

VARIABLES
  pc,          \* pc[p]: where p is in the call
  arg,         \* arg[p]: the arguments of p's call
  unsorted, sorted,      \* p's arrays, in user space
  kernelBuffer,          \* kernelBuffer[p]: the buffer of p's call
  returned,              \* returned[p]: what p's last call returned
  calls,                 \* calls[p]: calls p made
  kmallocs, faulted,     \* ghosts: buffers in use, calls that failed in a copy
  taken                  \* ghost: what was copied from user space

sortVars == <<pc, arg, unsorted, sorted, kernelBuffer, returned, calls, kmallocs, faulted, taken>>

NULL == "NULL"
Garbage == Max(Elements) + 1   \* what an array holds that was not written
Array(n) == [0 .. n - 1 -> Elements]
Unwritten(n) == [i \in 0 .. n - 1 |-> Garbage]

-----------------------------------------------------------------------------
(* mergeSort.                                                               *)

\* With i elements of the left run l .. m and j of the right run m + 1 .. r written,
\* the next one comes from the left: it has one, and the right none or none smaller.
FromLeft(arr, l, m, r, i, j) ==
  i < m - l + 1 /\ (j = r - m \/ arr[l + i] <= arr[m + 1 + j])

\* i[k]: the elements of the left run among the first k written, one per turn of the
\* three loops; the others are of the right run.
LeftTaken(arr, l, m, r) ==
  LET i[k \in Nat] ==
        IF k = 0 THEN 0
        ELSE LET n == i[k - 1]
             IN IF FromLeft(arr, l, m, r, n, k - 1 - n) THEN n + 1 ELSE n
  IN i

\* The runs l .. m and m + 1 .. r of arr, copied out and merged back into l .. r.
Merged(arr, l, m, r) ==
  LET i == LeftTaken(arr, l, m, r)
  IN [k \in DOMAIN arr |->
        IF k \notin l .. r THEN arr[k]
        ELSE IF FromLeft(arr, l, m, r, i[k - l], k - l - i[k - l]) THEN arr[l + i[k - l]]
        ELSE arr[m + 1 + (k - l - i[k - l])]]

\* sort[d] is mergeSort on the runs lo .. lo + d: it halves the run, sorts the halves
\* one after the other and merges them.
mergeSort(arr, l, r) ==
  LET sort[d \in 0 .. r - l] ==
        [a \in [DOMAIN arr -> Int] |-> [lo \in l .. r - d |->
          IF d = 0 THEN a
          ELSE LET h == d \div 2
               IN Merged(sort[d - h - 1][sort[h][a][lo]][lo + h + 1], lo, lo + h, lo + d)]]
  IN sort[r - l][arr][l]

-----------------------------------------------------------------------------
(* The system call.                                                         *)

SortInit ==
  /\ pc = [p \in Caller |-> "user"]
  /\ arg = [p \in Caller |-> [unsorted |-> NULL, sorted |-> NULL, size |-> 0]]
  /\ unsorted = [p \in Caller |-> <<>>] /\ sorted = [p \in Caller |-> <<>>]
  /\ kernelBuffer = [p \in Caller |-> NULL]
  /\ returned = [p \in Caller |-> "none"]
  /\ calls = [p \in Caller |-> 0]
  /\ kmallocs = 0 /\ faulted = 0
  /\ taken = [p \in Caller |-> <<>>]

\* The program fills its array and calls, with both arrays of that size, or with
\* NULL for one of them, as syscalltest does.
Syscall(p, n, in, out) ==
  /\ pc[p] = "user" /\ calls[p] < MaxSorts
  /\ pc' = [pc EXCEPT ![p] = "check"]
  /\ calls' = [calls EXCEPT ![p] = @ + 1]
  /\ arg' = [arg EXCEPT ![p] = [unsorted |-> in, sorted |-> out, size |-> n]]
  /\ \E a \in Array(n) : unsorted' = [unsorted EXCEPT ![p] = a]
  /\ sorted' = [sorted EXCEPT ![p] = Unwritten(n)]
  /\ taken' = [taken EXCEPT ![p] = <<>>]
  /\ returned' = [returned EXCEPT ![p] = "none"]
  /\ UNCHANGED <<kernelBuffer, kmallocs, faulted>>

\* Another thread of the program changes the array the call is to sort.
UserWrite(p, i, v) ==
  /\ pc[p] \in {"check", "copyin", "sort"}
  /\ i \in DOMAIN unsorted[p] /\ unsorted[p][i] # v
  /\ unsorted' = [unsorted EXCEPT ![p][i] = v]
  /\ UNCHANGED <<pc, arg, sorted, kernelBuffer, returned, calls, kmallocs, faulted, taken>>

\* The error the arguments deserve, in the order the code tests them.
ArgError(a) ==
  IF a.unsorted = NULL THEN "EFAULT"
  ELSE IF a.sorted = NULL THEN "EDESTADDRREQ"
  ELSE IF a.size < MinSize THEN "EINVAL"
  ELSE "none"

Return(p, value) ==
  /\ pc' = [pc EXCEPT ![p] = "user"]
  /\ returned' = [returned EXCEPT ![p] = value]

\* The tests of the arguments, and kmalloc.
Check(p) ==
  /\ pc[p] = "check"
  /\ \/ /\ ArgError(arg[p]) # "none"
        /\ Return(p, ArgError(arg[p]))
        /\ UNCHANGED <<kernelBuffer, kmallocs>>
     \/ /\ ArgError(arg[p]) = "none"
        /\ pc' = [pc EXCEPT ![p] = "copyin"]
        /\ kernelBuffer' = [kernelBuffer EXCEPT ![p] = Unwritten(arg[p].size)]
        /\ kmallocs' = kmallocs + 1
        /\ UNCHANGED returned
  /\ UNCHANGED <<arg, unsorted, sorted, calls, faulted, taken>>

\* kmalloc's result is not tested: without memory copy_from_user writes to NULL,
\* which stops the program in the kernel.
CheckWithoutMemory(p) ==
  /\ pc[p] = "check" /\ ArgError(arg[p]) = "none"
  /\ pc' = [pc EXCEPT ![p] = "oops"]
  /\ UNCHANGED <<arg, unsorted, sorted, kernelBuffer, returned, calls, kmallocs, faulted, taken>>

\* A copy that fails makes the call return without freeing the buffer.
CopyFails(p) ==
  /\ Return(p, "EFAULT")
  /\ faulted' = faulted + 1
  /\ kernelBuffer' = [kernelBuffer EXCEPT ![p] = NULL]
  /\ UNCHANGED <<arg, unsorted, calls, kmallocs, taken>>

\* Mutant of copy_from_user: the result of the copy is not tested.
CopyInUnchecked(p) ==
  /\ pc[p] = "copyin"
  /\ \/ /\ kernelBuffer' = [kernelBuffer EXCEPT ![p] = unsorted[p]]
        /\ taken' = [taken EXCEPT ![p] = unsorted[p]]
     \/ UNCHANGED <<kernelBuffer, taken>>
  /\ pc' = [pc EXCEPT ![p] = "sort"]
  /\ UNCHANGED <<arg, unsorted, sorted, returned, calls, kmallocs, faulted>>

copy_from_user(p) ==
  /\ pc[p] = "copyin"
  /\ \/ /\ kernelBuffer' = [kernelBuffer EXCEPT ![p] = unsorted[p]]
        /\ taken' = [taken EXCEPT ![p] = unsorted[p]]
        /\ pc' = [pc EXCEPT ![p] = "sort"]
        /\ UNCHANGED <<arg, unsorted, returned, calls, kmallocs, faulted>>
     \/ CopyFails(p)
  /\ UNCHANGED sorted

Sort(p) ==
  /\ pc[p] = "sort"
  /\ kernelBuffer' = [kernelBuffer EXCEPT ![p] = mergeSort(@, 0, arg[p].size - 1)]
  /\ pc' = [pc EXCEPT ![p] = "copyout"]
  /\ UNCHANGED <<arg, unsorted, sorted, returned, calls, kmallocs, faulted, taken>>

\* A copy that fails has written the elements before the bad page.
copy_to_user(p) ==
  /\ pc[p] = "copyout"
  /\ \/ /\ sorted' = [sorted EXCEPT ![p] = kernelBuffer[p]]
        /\ pc' = [pc EXCEPT ![p] = "free"]
        /\ UNCHANGED <<arg, unsorted, kernelBuffer, returned, calls, kmallocs, faulted, taken>>
     \/ \E n \in 0 .. arg[p].size - 1 :
          /\ sorted' = [sorted EXCEPT ![p] = [i \in DOMAIN @ |->
                          IF i < n THEN kernelBuffer[p][i] ELSE @[i]]]
          /\ CopyFails(p)

\* Mutant of kfree: the success path returns without kfree, as the error paths do.
kfreeForgotten(p) ==
  /\ pc[p] = "free"
  /\ Return(p, "0")
  /\ kernelBuffer' = [kernelBuffer EXCEPT ![p] = NULL]
  /\ UNCHANGED <<arg, unsorted, sorted, calls, kmallocs, faulted, taken>>

kfree(p) ==
  /\ pc[p] = "free"
  /\ Return(p, "0")
  /\ kernelBuffer' = [kernelBuffer EXCEPT ![p] = NULL]
  /\ kmallocs' = kmallocs - 1
  /\ UNCHANGED <<arg, unsorted, sorted, calls, faulted, taken>>

Kernel(p) ==
  Check(p) \/ CheckWithoutMemory(p) \/ copy_from_user(p) \/ Sort(p) \/ copy_to_user(p)
  \/ kfree(p)

SortNext ==
  \E p \in Caller :
    \/ \E n \in Sizes, in, out \in {NULL, "array"} : Syscall(p, n, in, out)
    \/ \E i \in 0 .. Max(Sizes) - 1, v \in Elements : UserWrite(p, i, v)
    \/ Kernel(p)

SortSpec == SortInit /\ [][SortNext]_sortVars

-----------------------------------------------------------------------------
(* Properties.                                                              *)

\* Whatever a call returns, the result array holds a prefix of the sorted order of
\* what the call took, and is unwritten behind it: nothing for a refused call, all
\* for one that returned 0.  The i-th place's element has at most i below it and more
\* than i not above it.  This holds whatever the program writes to its array meanwhile
\* and whatever other callers do.
ResultIsPrefix ==
  \A p \in Caller : pc[p] = "user" /\ returned[p] # "none" =>
    \E n \in 0 .. arg[p].size :
      /\ returned[p] = "0" => n = arg[p].size
      /\ \A i \in n .. arg[p].size - 1 : sorted[p][i] = Garbage
      /\ \A i \in 0 .. n - 1 :
           /\ Cardinality({j \in DOMAIN taken[p] : taken[p][j] < sorted[p][i]}) <= i
           /\ Cardinality({j \in DOMAIN taken[p] : taken[p][j] <= sorted[p][i]}) > i

\* Every buffer still allocated belongs to a call under way or was lost by a call
\* that failed in a copy: those two paths, and no other, leak.
LeaksOnlyOnFault ==
  kmallocs = faulted + Cardinality({p \in Caller : pc[p] \in {"copyin", "sort", "copyout", "free"}})

=============================================================================
