--------------------------- MODULE PasswordChange ---------------------------
(***************************************************************************)
(* A user changes the password of the account (POST /api/profile/password).*)
(* The password is kept by the authentication service, the date of the     *)
(* last change in the account's row: a request reads the date, has the     *)
(* service verify the old password and set the new one, and only then      *)
(* stamps the date, on condition that the cooldown has run out.  What the  *)
(* condition says is not looked at: the password is changed by then.       *)
(* Requests overlap, and one may die between the change and the stamp.     *)
(***************************************************************************)
EXTENDS Cooldown

CONSTANTS Passwords,
          Posts             \* requests there may be at a time

VARIABLES password,         \* what the service has
          authProvider,     \* whether the account came without a password
          lastPasswordChangeAt,
          posts,
          changes,          \* history: when requests set a password,
          unstamped         \* ... and never came to the stamp

passwordVars ==
    <<clock, password, authProvider, lastPasswordChangeAt, posts, changes, unstamped>>

NoPost == [pc |-> "idle"]

Becomes(r, q) == posts' = [posts EXCEPT ![r] = q]

GoesOn(r, pc) == Becomes(r, [posts[r] EXCEPT !.pc = pc])

Leaves(r) == Becomes(r, NoPost)

(* findUnique: the date of the last change. *)
ReadAccount(r, current, new) ==
    /\ posts[r] = NoPost
    /\ Becomes(r, [pc |-> "check", began |-> clock, current |-> current, new |-> new,
                  seen |-> lastPasswordChangeAt, at |-> clock])
    /\ UNCHANGED <<clock, password, authProvider, lastPasswordChangeAt, changes, unstamped>>

MayChange_Always(last) == TRUE

MayChange(last) == IsCooldownExpired(last, clock)

CheckCooldown(r) ==
    LET q == posts[r]
    IN  /\ q.pc = "check"
        /\ IF MayChange(q.seen)
           THEN Becomes(r, [q EXCEPT !.pc = IF authProvider THEN "update" ELSE "verify",
                                    !.at = clock])
           ELSE Leaves(r)
        /\ UNCHANGED <<clock, password, authProvider, lastPasswordChangeAt, changes, unstamped>>

(* signInWithPassword, which may fail whatever the password is. *)
Verify(r) ==
    /\ posts[r].pc = "verify"
    /\ \/ posts[r].current = password /\ GoesOn(r, "update")
       \/ Leaves(r)
    /\ UNCHANGED <<clock, password, authProvider, lastPasswordChangeAt, changes, unstamped>>

(* updateUser.  The answer comes later than the check of the cooldown: the *)
(* call is over the network, and dates are in milliseconds.                *)
UpdateUser(r) ==
    LET q == posts[r]
    IN  /\ q.pc = "update"
        /\ \/ /\ Becomes(r, [q EXCEPT !.pc = "stamp", !.at = clock])
              /\ clock > q.at
              /\ password' = q.new
              /\ changes' = changes \cup {clock}
           \/ Leaves(r) /\ UNCHANGED <<password, changes>>
        /\ UNCHANGED <<clock, authProvider, lastPasswordChangeAt, unstamped>>

Stamped_Never(last, now) == last

(* updateMany: what becomes of the date. *)
Stamped(last, now) == IF MayStamp(last, CooldownCutoff(now)) THEN now ELSE last

(* now was taken when the password was set or later. *)
Stamp(r, now) ==
    /\ posts[r].pc = "stamp"
    /\ now \in posts[r].at .. clock
    /\ lastPasswordChangeAt' = Stamped(lastPasswordChangeAt, now)
    /\ Leaves(r)
    /\ UNCHANGED <<clock, password, authProvider, changes, unstamped>>

(* The instance dies, the platform ends the request, or the database fails.*)
DieAt(r) ==
    /\ posts[r] # NoPost
    /\ unstamped' = IF posts[r].pc = "stamp" THEN unstamped \cup {posts[r].at} ELSE unstamped
    /\ Leaves(r)
    /\ UNCHANGED <<clock, password, authProvider, lastPasswordChangeAt, changes>>

(* POST /api/auth/reset-password knows no cooldown and stamps nothing. *)
ResetPassword(new) ==
    /\ password' = new
    /\ UNCHANGED <<clock, authProvider, lastPasswordChangeAt, posts, changes, unstamped>>

PasswordTick ==
    /\ Pass({posts[r].began : r \in {q \in Posts : posts[q] # NoPost}})
    /\ UNCHANGED <<password, authProvider, lastPasswordChangeAt, posts, changes, unstamped>>

PasswordInit ==
    /\ clock = 0
    /\ password \in Passwords /\ authProvider \in BOOLEAN
    /\ lastPasswordChangeAt \in {Never, 0}
    /\ posts = [r \in Posts |-> NoPost]
    /\ changes = {} /\ unstamped = {}

PostStep(r) ==
    \/ \E current, new \in Passwords : ReadAccount(r, current, new)
    \/ CheckCooldown(r)
    \/ Verify(r)
    \/ UpdateUser(r)
    \/ \E now \in 0 .. MaxClock : Stamp(r, now)
    \/ DieAt(r)

PasswordNext ==
    \/ \E r \in Posts : PostStep(r)
    \/ \E new \in Passwords : ResetPassword(new)
    \/ PasswordTick

PasswordSpec == PasswordInit /\ [][PasswordNext]_passwordVars

-----------------------------------------------------------------------------
(* Properties. *)

Post ==
    [pc : {"check", "verify", "update", "stamp"}, began : Nat, current : Passwords,
     new : Passwords, seen : Dates, at : Nat]

(* The type invariant of the account and the requests. *)
PasswordTypeOK ==
    /\ clock \in Nat
    /\ password \in Passwords /\ authProvider \in BOOLEAN
    /\ lastPasswordChangeAt \in Dates
    /\ posts \in [Posts -> {NoPost} \cup Post]
    /\ changes \subseteq Nat /\ unstamped \subseteq changes

(* Requests change the password in bursts: two changes are either those of *)
(* requests that overlapped, or the cooldown lies between them, but for    *)
(* what a request and one it overlaps with may take.  A change whose       *)
(* request died before the stamp begins no cooldown.                       *)
ChangesInBursts ==
    \A u \in changes \ unstamped, v \in changes :
        u < v => \/ v <= u + 2 * MaxDuration
                 \/ v >= u + COOLDOWN_MS - 2 * MaxDuration

(* Password changes are limited to one in a cooldown, and concurrent       *)
(* requests cannot halve it.                                               *)
PasswordCooldown ==
    \A u \in changes \ unstamped, v \in changes :
        u < v => v >= u + COOLDOWN_MS - 2 * MaxDuration
=============================================================================
