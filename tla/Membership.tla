------------------------------ MODULE Membership ------------------------------
(***************************************************************************)
(* Members, their roles and their sign-ins.  A change of members or roles  *)
(* is one transaction under the membership lock, with its actor read again *)
(* inside; sign-ins and remembered sessions go on beside it, and a         *)
(* rotation and a revocation of the same sign-in beside each other.        *)
(***************************************************************************)
EXTENDS Integers, FiniteSets

CONSTANTS
  User, Custom,      \* accounts by id, and roles the organization may define
  Secret,            \* remembered secrets, by their hash
  MaxVersion, MaxRequests

MembersAssumption == {MaxVersion, MaxRequests} \subseteq Nat

VARIABLES
  users,             \* table users
  roles,             \* table member_roles, without the administrator's
  sessions,          \* table remembered_sessions
  signin,            \* an access token, and how far it has got to a remembered session
  rotation,          \* a refresh that holds its row
  revoking,          \* rows a revocation has read and is about to delete
  requests           \* requests so far

memberVars == <<users, roles, sessions, signin, rotation, revoking, requests>>

Nobody == [state |-> "none", active |-> TRUE, role |-> "user", version |-> 0,
           invitation |-> "none", reset |-> "none"]
Editable == Custom \cup {"user"}
Unissued == [user |-> "none"]
Deleted == [user |-> "deleted"]       \* a hash is not issued twice
NoSignin == [stage |-> "none"]
NoRotation == [secret |-> "none"]

Init ==
  /\ users = [u \in User |-> Nobody]
  /\ roles = [r \in Editable |-> IF r = "user" THEN "plain" ELSE "absent"]
  /\ sessions = [s \in Secret |-> Unissued]
  /\ signin = NoSignin /\ rotation = NoRotation /\ revoking = {} /\ requests = 0

Request == requests < MaxRequests /\ requests' = requests + 1
Exists(u) == users[u].state \in {"pending", "member"}
Usable(u) == users[u].state = "member" /\ users[u].active
RoleExists(r) == r = "admin" \/ (r \in Editable /\ roles[r] # "absent")

\* _manager_count
Managers(us, rs) ==
  {u \in User : us[u].state = "member" /\ us[u].active
                 /\ (us[u].role = "admin" \/ rs[us[u].role] = "manages")}

Stored(s) == sessions[s] \notin {Unissued, Deleted}

SignIns == UNCHANGED <<sessions, signin, rotation, revoking>>

-----------------------------------------------------------------------------
(* Members and roles, under the membership lock.                           *)

\* Would not look whether a manager is left.
CommitAny(us, rs) == users' = us /\ roles' = rs
CommitKeepingAManager(us, rs) ==
  IF Managers(us, rs) = {} THEN UNCHANGED <<users, roles>> ELSE users' = us /\ roles' = rs

Invited(u, r) ==
  /\ RoleExists(r) /\ (users[u].state = "none" \/ (users[u].state = "pending" /\ users[u].active))
  /\ users' = [users EXCEPT ![u] = [@ EXCEPT !.state = "pending", !.role = r, !.invitation = "live"]]
  /\ UNCHANGED roles

\* invite: by a manager, or by the operator while there is none.
Invite ==
  /\ Request /\ SignIns
  /\ \/ Managers(users, roles) # {} /\ \E u \in User, r \in Editable \cup {"admin"} : Invited(u, r)
     \/ Managers(users, roles) = {} /\ \E u \in User : Invited(u, "admin")

\* bootstrap_invitation: only for an installation without other accounts.
Bootstrap(resend) ==
  /\ Request /\ SignIns /\ Managers(users, roles) = {}
  /\ \E u \in User :
       /\ {v \in User : Exists(v)} \subseteq {u}
       /\ Exists(u) => /\ users[u].state = "pending" /\ users[u].active /\ users[u].role = "admin"
                       /\ resend \/ users[u].invitation # "live"
       /\ Invited(u, "admin")

\* Would leave sessions as they are.
ChangedQuietly(x, r, active) ==
  [x EXCEPT !.role = r, !.active = active, !.reset = "none",
            !.invitation = IF active THEN @ ELSE "none"]

\* update: who has had other access signs in again, and old links end.
Changed(x, r, active) ==
  LET differs == x.role # r \/ x.active # active
  IN  [x EXCEPT !.role = r, !.active = active,
         !.version = IF differs THEN @ + 1 ELSE @,
         !.reset = IF differs THEN "none" ELSE @,
         !.invitation = IF active THEN @ ELSE "none"]

Update ==
  /\ Request /\ SignIns /\ Managers(users, roles) # {}
  /\ \E u \in User, r \in Editable \cup {"admin"}, active \in BOOLEAN :
       /\ Exists(u) /\ RoleExists(r) /\ users[u].version < MaxVersion
       /\ CommitKeepingAManager([users EXCEPT ![u] = Changed(@, r, active)], roles)

\* remove: remembered sessions go with the account; a rotation's row is waited for.
Remove ==
  /\ Request /\ UNCHANGED <<roles, signin, rotation, revoking>> /\ Managers(users, roles) # {}
  /\ \E u \in User :
       /\ Exists(u) /\ ~users[u].active /\ (rotation # NoRotation => rotation.user # u)
       /\ users' = [users EXCEPT ![u] = [Nobody EXCEPT !.state = "removed"]]
       /\ sessions' = [s \in Secret |-> IF sessions[s].user = u THEN Deleted ELSE sessions[s]]

ChangeRole ==
  /\ Request /\ SignIns /\ Managers(users, roles) # {}
  /\ \/ \E r \in Custom, p \in {"plain", "manages"} :                              \* create_role
          roles[r] = "absent" /\ roles' = [roles EXCEPT ![r] = p] /\ UNCHANGED users
     \/ \E r \in Editable, p \in {"plain", "manages"} :                            \* update_role
          roles[r] # "absent" /\ CommitKeepingAManager(users, [roles EXCEPT ![r] = p])
     \/ \E r \in Custom :                                                          \* delete_role
          /\ roles[r] # "absent" /\ \A u \in User : Exists(u) => users[u].role # r
          /\ roles' = [roles EXCEPT ![r] = "absent"] /\ UNCHANGED users

-----------------------------------------------------------------------------
(* Links.                                                                  *)

AcceptInvitation(u) ==
  /\ users[u].state = "pending" /\ users[u].active /\ users[u].invitation = "live"
  /\ users[u].version < MaxVersion
  /\ users' = [users EXCEPT ![u] = [@ EXCEPT !.state = "member", !.invitation = "none",
                                              !.version = users[u].version + 1]]

IssueResetToken(u) == Usable(u) /\ users' = [users EXCEPT ![u] = [@ EXCEPT !.reset = "live"]]

ResetPassword(u) ==
  /\ Usable(u) /\ users[u].reset = "live" /\ users[u].version < MaxVersion
  /\ users' = [users EXCEPT ![u] = [@ EXCEPT !.reset = "none", !.version = users[u].version + 1]]

LinkExpires(u) ==
  \/ users[u].invitation = "live"
       /\ users' = [users EXCEPT ![u] = [@ EXCEPT !.invitation = "expired"]]
  \/ users[u].reset = "live" /\ users' = [users EXCEPT ![u] = [@ EXCEPT !.reset = "expired"]]

Link ==
  /\ Request /\ SignIns /\ UNCHANGED roles
  /\ \E u \in User : AcceptInvitation(u) \/ IssueResetToken(u) \/ ResetPassword(u) \/ LinkExpires(u)

-----------------------------------------------------------------------------
(* Sign-ins and remembered sessions.                                       *)

Membership == UNCHANGED <<users, roles>>
Accepts(c) == Usable(c.user) /\ users[c.user].version = c.version      \* current_member

Login(u) ==
  /\ Request /\ Membership /\ UNCHANGED <<sessions, rotation, revoking>> /\ Usable(u)
  /\ signin' = [stage |-> "token", user |-> u, version |-> users[u].version]

\* The request for a remembered session: the member is read, then the row is added.
Check ==
  /\ signin.stage = "token" /\ Membership /\ UNCHANGED <<sessions, rotation, revoking, requests>>
  /\ signin' = IF Accepts(signin) THEN [signin EXCEPT !.stage = "checked"] ELSE NoSignin

Issue(s, user, version, family) ==
  [user |-> user, version |-> version, family |-> family, age |-> "fresh", replaced |-> "no"]

Create ==
  /\ signin.stage = "checked" /\ Membership /\ UNCHANGED <<rotation, revoking, requests>>
  /\ signin' = NoSignin
  /\ IF ~Exists(signin.user) THEN UNCHANGED sessions
     ELSE \E s \in Secret : /\ sessions[s] = Unissued
                            /\ sessions' = [sessions EXCEPT ![s] = Issue(s, signin.user, signin.version, s)]

Family(s) == {t \in Secret : Stored(t) /\ sessions[t].family = sessions[s].family}

\* refresh: a replaced secret that comes late ends the whole sign-in, one that is a day old is
\* rotated; the answer is an access token.
Refresh(s) ==
  /\ Request /\ Membership /\ UNCHANGED sessions
  /\ Stored(s) /\ rotation = NoRotation /\ Accepts(sessions[s])
  /\ LET x == sessions[s]
         identity == signin' = [stage |-> "token", user |-> x.user, version |-> x.version]
     IN  CASE x.replaced = "past" -> /\ revoking = {} /\ revoking' = Family(s)
                                     /\ UNCHANGED <<signin, rotation>>
           [] x.replaced = "recent" \/ x.age = "fresh" -> identity /\ UNCHANGED <<rotation, revoking>>
           [] OTHER -> /\ rotation' = [secret |-> s, user |-> x.user, version |-> x.version]
                       /\ UNCHANGED <<signin, revoking>>

\* Would issue the new secret and forget to mark the one it replaces.
RotateTwice ==
  /\ rotation # NoRotation /\ Membership /\ rotation' = NoRotation /\ UNCHANGED <<revoking, requests>>
  /\ \/ \E n \in Secret :
          /\ sessions[n] = Unissued
          /\ sessions' = [sessions EXCEPT
               ![n] = Issue(n, rotation.user, rotation.version, sessions[rotation.secret].family)]
          /\ signin' = [stage |-> "token", user |-> rotation.user, version |-> rotation.version]
     \/ UNCHANGED <<sessions, signin>>

Rotate ==
  /\ rotation # NoRotation /\ Membership /\ rotation' = NoRotation /\ UNCHANGED <<revoking, requests>>
  /\ \/ \E n \in Secret :
          /\ sessions[n] = Unissued
          /\ sessions' = [sessions EXCEPT
               ![rotation.secret] = [@ EXCEPT !.replaced = "recent"],
               ![n] = Issue(n, rotation.user, rotation.version, sessions[rotation.secret].family)]
          /\ signin' = [stage |-> "token", user |-> rotation.user, version |-> rotation.version]
     \/ UNCHANGED <<sessions, signin>>                      \* the connection is lost

\* revoke: the rows of the family that are there when the statement begins; it waits for a row
\* that is being rotated.
Revoke(s) ==
  /\ Request /\ Membership /\ UNCHANGED <<sessions, signin, rotation>>
  /\ Stored(s) /\ revoking = {} /\ revoking' = Family(s)

Delete ==
  /\ revoking # {} /\ (rotation # NoRotation => rotation.secret \notin revoking)
  /\ Membership /\ UNCHANGED <<signin, rotation, requests>> /\ revoking' = {}
  /\ sessions' = [s \in Secret |-> IF s \in revoking THEN Deleted ELSE sessions[s]]

\* Time passes for a secret, or its sign-in expires.
Age(s) ==
  /\ Request /\ Membership /\ UNCHANGED <<signin, rotation, revoking>> /\ Stored(s)
  /\ rotation # NoRotation => rotation.secret \notin Family(s)
  /\ \/ sessions[s].age = "fresh" /\ sessions' = [sessions EXCEPT ![s] = [@ EXCEPT !.age = "old"]]
     \/ sessions[s].replaced = "recent" /\ sessions' = [sessions EXCEPT ![s] = [@ EXCEPT !.replaced = "past"]]
     \/ revoking = {} /\ sessions' = [t \in Secret |-> IF t \in Family(s) THEN Deleted ELSE sessions[t]]

Next ==
  \/ Invite \/ (\E resend \in BOOLEAN : Bootstrap(resend)) \/ Update \/ Remove \/ ChangeRole \/ Link
  \/ (\E u \in User : Login(u)) \/ Check \/ Create
  \/ (\E s \in Secret : Refresh(s) \/ Revoke(s) \/ Age(s)) \/ Rotate \/ Delete

Spec == Init /\ [][Next]_memberVars

-----------------------------------------------------------------------------
(* What membership promises.                                               *)

(* The values of the tables.                                               *)
MembersTypeOK ==
  /\ \A u \in User :
       /\ users[u].state \in {"none", "pending", "member", "removed"}
       /\ users[u].version \in 0 .. MaxVersion
       /\ users[u].invitation \in {"none", "live", "expired"} /\ users[u].reset \in {"none", "live", "expired"}
  /\ revoking \subseteq Secret /\ requests \in 0 .. MaxRequests

(* Once somebody is a member, somebody can manage members: no sequence of  *)
(* edits of members and roles takes the last one away (_commit_keeping).   *)
ManagerKept == (\E u \in User : users[u].state = "member") => Managers(users, roles) # {}

(* A role that is held exists, and a link is out only for whom it is       *)
(* meant: an invitation for one who has not accepted, a reset for a member *)
(* (invite, update, delete_role, accept_invitation, issue_reset).          *)
LinksFit ==
  \A u \in User :
    /\ Exists(u) => RoleExists(users[u].role)
    /\ users[u].invitation # "none" => users[u].state = "pending" /\ users[u].active
    /\ users[u].reset # "none" => Usable(u)

(* Of the secrets of one sign-in one at most is in use, whatever refreshes *)
(* meet, and none outlives its account (refresh, revoke).                  *)
OneInUse ==
  \A s, t \in Secret :
    Stored(s) =>
      /\ Exists(sessions[s].user) /\ sessions[s].version <= users[sessions[s].user].version
      /\ s # t /\ t \in Family(s) =>
           /\ sessions[t].user = sessions[s].user /\ sessions[t].version = sessions[s].version
           /\ sessions[s].replaced # "no" \/ sessions[t].replaced # "no"

Credentials ==
  {[user |-> sessions[s].user, version |-> sessions[s].version] : s \in {t \in Secret : Stored(t)}}
  \cup (IF signin = NoSignin THEN {} ELSE {[user |-> signin.user, version |-> signin.version]})
  \cup (IF rotation = NoRotation THEN {} ELSE {[user |-> rotation.user, version |-> rotation.version]})

EndsAccess ==
  /\ \A u \in User :
       \/ users'[u].state = users[u].state /\ users'[u].active = users[u].active
            /\ users'[u].role = users[u].role /\ (users[u].reset # "none" => users'[u].reset # "none")
       \/ \A c \in Credentials' : c.user = u => ~Accepts(c)'
  /\ \A c \in Credentials' :
       Accepts(c)' => Accepts(c) /\ (c \in Credentials \/ (signin' # signin /\ signin'.stage = "token"))

(* Who gets other access or another password has to sign in again,         *)
(* whatever request is under way; and what is no longer accepted never is  *)
(* again (credential_version, refresh, current_member).                    *)
AccessEnds == [][EndsAccess]_memberVars
=============================================================================
