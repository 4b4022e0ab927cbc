----------------------------- MODULE Credentials -----------------------------
(***************************************************************************)
(* kernel/sys.c (HW2/Ques5/sys.c): the system calls by which a process      *)
(* changes its user and group IDs.  Each call prepares new credentials,     *)
(* checks them against the old ones, and commits or aborts them as a whole; *)
(* set_user keeps the user the process is accounted to in step.             *)
(*                                                                          *)
(* The capability set is reduced to what these calls ask of it:             *)
(* CAP_SETUID and CAP_SETGID, held together.  What a change of user IDs     *)
(* does to capabilities is the security module's and external (the rules of *)
(* commoncap without the secure bits).  exec is not modelled: the initial   *)
(* states are what it can leave.                                            *)
(***************************************************************************)
EXTENDS Integers, FiniteSets

CONSTANTS
  ID, GID,     \* the user and the group IDs the namespace maps
  Unmapped,    \* IDs it does not map
  OverLimit,   \* users with RLIMIT_NPROC processes or more
  Denies       \* whether a security module can refuse a change

RootID == 0
Keep == -1     \* (uid_t) -1: leave this ID as it is

ASSUME CredentialsAssumption ==
  /\ ID \subseteq Nat /\ RootID \in ID /\ GID \subseteq Nat
  /\ Unmapped \subseteq Nat \ (ID \cup GID)
  /\ OverLimit \subseteq ID /\ Denies \in BOOLEAN

VARIABLES
  uids, gids,        \* the real, effective, saved and file system IDs
  user,              \* the user_struct the process is accounted to, by its ID
  permitted, effective,   \* the capability, in the permitted and effective sets
  PF_NPROC_EXCEEDED,
  retval,            \* what the last call returned
  shadows            \* ghost: no setfsuid since another call set the user IDs

credentialVars == <<uids, gids, user, permitted, effective, PF_NPROC_EXCEEDED, retval, shadows>>

IDs(S) == [real : S, effective : S, saved : S, fs : S]
Held(c) == {c.real, c.effective, c.saved}
Argument(S) == S \cup Unmapped \cup {Keep}

\* What exec leaves: a program with the IDs of its user, of which the effective and
\* saved ones may come from the file's setuid or setgid bit; the capability goes with
\* root, in force if the effective ID is root, or comes from the file.
CredentialsInit ==
  /\ \E u, o \in ID : uids = [real |-> u, effective |-> o, saved |-> o, fs |-> o]
  /\ \E g, o \in GID : gids = [real |-> g, effective |-> o, saved |-> o, fs |-> o]
  /\ user = uids.real
  /\ permitted \in BOOLEAN /\ effective \in BOOLEAN /\ (effective => permitted)
  /\ RootID \in Held(uids) => permitted
  /\ uids.effective = RootID => effective
  /\ PF_NPROC_EXCEEDED = FALSE /\ retval = "none" /\ shadows = TRUE

-----------------------------------------------------------------------------
(* What the calls compute, the same for users and groups.                   *)

Given(a, old) == IF a = Keep THEN old ELSE a

\* The arguments are mapped (else EINVAL).
Valid(args, mapped) == args \subseteq mapped \cup {Keep}

\* Mutant of May: the check is missing.
MayUnchecked(a, allowed) == TRUE

\* An argument is kept, is one of the IDs allowed, or the process is capable.
May(a, allowed) == a = Keep \/ a \in allowed \/ effective

MayRe(c, r, e) == May(r, {c.real, c.effective}) /\ May(e, Held(c))

AfterRe(c, r, e) ==
  [real |-> Given(r, c.real), effective |-> Given(e, c.effective),
   saved |-> IF r # Keep \/ (e # Keep /\ e # c.real) THEN Given(e, c.effective) ELSE c.saved,
   fs |-> Given(e, c.effective)]

\* Mutant of MaySet: the file system ID may be taken up too.
MaySetFromFs(c, u) == effective \/ u \in {c.real, c.saved, c.fs}

MaySet(c, u) == effective \/ u \in {c.real, c.saved}

\* Mutant of AfterSet: the saved ID is kept.
AfterSetKeepingSaved(c, u) ==
  IF effective THEN [real |-> u, effective |-> u, saved |-> c.saved, fs |-> u]
  ELSE [real |-> c.real, effective |-> u, saved |-> c.saved, fs |-> u]

AfterSet(c, u) ==
  IF effective THEN [real |-> u, effective |-> u, saved |-> u, fs |-> u]
  ELSE [real |-> c.real, effective |-> u, saved |-> c.saved, fs |-> u]

MayRes(c, r, e, s) == May(r, Held(c)) /\ May(e, Held(c)) /\ May(s, Held(c))

AfterRes(c, r, e, s) ==
  [real |-> Given(r, c.real), effective |-> Given(e, c.effective),
   saved |-> Given(s, c.saved), fs |-> Given(e, c.effective)]

MayFs(c, f) == f \in Held(c) \cup {c.fs} \/ effective

AfterFs(c, f) ==
  [real |-> c.real, effective |-> c.effective, saved |-> c.saved, fs |-> f]

-----------------------------------------------------------------------------
(* Committing and aborting.                                                 *)

\* The call fails and the prepared credentials are dropped.  ENOMEM is always
\* possible.
Refuse(error) ==
  /\ retval' = error
  /\ UNCHANGED <<uids, gids, user, permitted, effective, PF_NPROC_EXCEEDED, shadows>>

\* What the security module makes of the capability: gone with the last root ID,
\* off while the effective ID is not root, on again when it is root again.
FixPermitted(new) == permitted /\ (RootID \in Held(uids) => RootID \in Held(new))
FixEffective(new) ==
  IF uids.effective # RootID /\ new.effective = RootID THEN FixPermitted(new)
  ELSE effective /\ FixPermitted(new) /\ (uids.effective = RootID => new.effective = RootID)

Exceeds(u) == u \in OverLimit /\ u # RootID

\* Mutant of FollowUser: set_user is not called.
KeepUser(new) == UNCHANGED <<user, PF_NPROC_EXCEEDED>>

\* set_user, called for a new real ID only, takes its user and notes an exceeded limit
\* for exec.
FollowUser(new) ==
  IF new.real # uids.real
  THEN user' = new.real /\ PF_NPROC_EXCEEDED' = Exceeds(new.real)
  ELSE UNCHANGED <<user, PF_NPROC_EXCEEDED>>

CommitUids(new) ==
  /\ uids' = new
  /\ FollowUser(new)
  /\ permitted' = FixPermitted(new)
  /\ effective' = FixEffective(new)
  /\ shadows' = TRUE /\ retval' = "0"
  /\ UNCHANGED gids

\* alloc_uid fails in set_user.
NoUser(new) == new.real # uids.real /\ Refuse("EAGAIN")

\* The security module refuses, after set_user has set the flag of the process.
Denied(new) ==
  /\ Denies
  /\ PF_NPROC_EXCEEDED' = IF new.real # uids.real THEN Exceeds(new.real) ELSE PF_NPROC_EXCEEDED
  /\ retval' = "denied"
  /\ UNCHANGED <<uids, gids, user, permitted, effective, shadows>>

ChangeUids(valid, allowed, new) ==
  \/ ~valid /\ Refuse("EINVAL")
  \/ valid /\ Refuse("ENOMEM")
  \/ valid /\ ~allowed /\ Refuse("EPERM")
  \/ valid /\ allowed /\ (CommitUids(new) \/ NoUser(new) \/ Denied(new))

CommitGids(new) ==
  /\ gids' = new /\ retval' = "0"
  /\ UNCHANGED <<uids, user, permitted, effective, PF_NPROC_EXCEEDED, shadows>>

ChangeGids(valid, allowed, new) ==
  \/ ~valid /\ Refuse("EINVAL")
  \/ valid /\ Refuse("ENOMEM")
  \/ valid /\ ~allowed /\ Refuse("EPERM")
  \/ valid /\ allowed /\ CommitGids(new)

-----------------------------------------------------------------------------
(* The calls.                                                               *)

setreuid(r, e) == ChangeUids(Valid({r, e}, ID), MayRe(uids, r, e), AfterRe(uids, r, e))
setregid(r, e) == ChangeGids(Valid({r, e}, GID), MayRe(gids, r, e), AfterRe(gids, r, e))

\* Here -1 is an ID like any other, which the namespace does not map.
setuid(u) == ChangeUids(u \in ID, MaySet(uids, u), AfterSet(uids, u))
setgid(g) == ChangeGids(g \in GID, MaySet(gids, g), AfterSet(gids, g))

setresuid(r, e, s) ==
  ChangeUids(Valid({r, e, s}, ID), MayRes(uids, r, e, s), AfterRes(uids, r, e, s))
setresgid(r, e, s) ==
  ChangeGids(Valid({r, e, s}, GID), MayRes(gids, r, e, s), AfterRes(gids, r, e, s))

\* setfsuid and setfsgid return the old ID whether they changed it or not.
setfsuid(f) ==
  \/ /\ f \in ID /\ MayFs(uids, f) /\ f # uids.fs
     /\ uids' = AfterFs(uids, f)
     /\ shadows' = FALSE /\ retval' = "old"
     /\ UNCHANGED <<gids, user, permitted, effective, PF_NPROC_EXCEEDED>>
  \/ Refuse("old")

setfsgid(f) ==
  \/ /\ f \in GID /\ MayFs(gids, f) /\ f # gids.fs
     /\ gids' = AfterFs(gids, f) /\ retval' = "old"
     /\ UNCHANGED <<uids, user, permitted, effective, PF_NPROC_EXCEEDED, shadows>>
  \/ Refuse("old")

UserCall ==
  \/ \E r, e \in Argument(ID) : setreuid(r, e)
  \/ \E r, e, s \in Argument(ID) : setresuid(r, e, s)
  \/ \E u \in Argument(ID) : setuid(u) \/ setfsuid(u)

GroupCall ==
  \/ \E r, e \in Argument(GID) : setregid(r, e)
  \/ \E r, e, s \in Argument(GID) : setresgid(r, e, s)
  \/ \E g \in Argument(GID) : setgid(g) \/ setfsgid(g)

CredentialsNext == UserCall \/ GroupCall

CredentialsSpec == CredentialsInit /\ [][CredentialsNext]_credentialVars

-----------------------------------------------------------------------------
(* Properties.                                                              *)

\* The type invariant.
CredentialsTypeOK ==
  /\ uids \in IDs(ID) /\ gids \in IDs(GID) /\ user \in ID
  /\ permitted \in BOOLEAN /\ effective \in BOOLEAN /\ (effective => permitted)
  /\ PF_NPROC_EXCEEDED \in BOOLEAN /\ shadows \in BOOLEAN
  /\ retval \in {"none", "0", "old", "EPERM", "EINVAL", "ENOMEM", "EAGAIN", "denied"}

\* The process is always accounted to the user of its real ID, although set_user is
\* called from three places and can fail.
UserMatchesReal == user = uids.real

\* "It normally shadows euid, except when explicitly set by setfsuid()": until then
\* the file system ID is the effective one.
FsShadowsEffective == shadows => uids.fs = uids.effective

\* Without the capability no sequence of arguments brings an ID into the real,
\* effective or saved one that was not among them before, neither for users nor for
\* groups: "Unprivileged users may change the real uid to the effective uid or vice
\* versa", and no more.
UnprivilegedGainNothing ==
  [][~effective => Held(uids') \subseteq Held(uids) /\ Held(gids') \subseteq Held(gids)]_credentialVars

\* No root ID and no capability left.
Dropped == RootID \notin Held(uids) /\ ~permitted

\* "This makes it possible for a setuid program to completely drop its privileges":
\* once it has, no later calls bring back a root ID or the capability.
DropIsForever == [][Dropped => Dropped']_credentialVars

\* "a setuid root program like sendmail, for example, cannot set its uid to be a
\* normal user and then switch back, because if you're root, setuid() sets the saved
\* uid too": three equal IDs other than root, reached from root by one successful
\* call, mean that the privileges are gone.
RootSetuidDrops ==
  [][(\E u \in ID \ {RootID} : setuid(u)) /\ effective /\ RootID \in Held(uids) /\ uids' # uids
       => Dropped']_credentialVars
=============================================================================
