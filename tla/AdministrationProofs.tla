------------------------- MODULE AdministrationProofs -------------------------
(***************************************************************************)
(* What is proved of favorites, members, the catalogue, releases,          *)
(* retention, the library of designs, migrations, topics and the health of *)
(* collection: the inductive invariant of each, and what none of its steps *)
(* does.                                                                   *)
(***************************************************************************)
EXTENDS Administration, SequenceTheorems, FiniteSetTheorems, WellFoundedInduction, TLAPS

(* Favorites.                                                              *)

\* Every module counts alike.
LEMMA CountersAlike == \A S : FV!Cardinality(S) = Cardinality(S) /\ RD!Cardinality(S) = Cardinality(S)
<1> SUFFICES ASSUME NEW S
             PROVE  FV!Cardinality(S) = Cardinality(S) /\ RD!Cardinality(S) = Cardinality(S) OBVIOUS
<1>1. FV!Cardinality(S) = Cardinality(S) BY DEF FV!Cardinality, Cardinality
<1>2. RD!Cardinality(S) = Cardinality(S) BY DEF RD!Cardinality, Cardinality
<1> QED BY <1>1, <1>2

\* Who holds the row of the member.
HoldsMember(r) == additions[r].phase \in {"locked", "missing", "room", "full"}

\* An addition that looked and did not find its favorite does not find it later, and one that
\* counted has room: nobody else adds meanwhile.
FavoritesWhole ==
  /\ IsFiniteSet(favorites) /\ Cardinality(favorites) <= MaxFavorites
  /\ DOMAIN additions = Addition
  /\ \A r \in Addition : additions[r] \in
       [phase : {"none", "asked", "locked", "missing", "room", "full", "stored"}, item : {additions[r].item}]
  /\ \A r, o \in Addition : HoldsMember(r) /\ HoldsMember(o) => r = o
  /\ \A r \in Addition : additions[r].phase \in {"missing", "room", "full"} =>
       additions[r].item \notin favorites
  /\ \A r \in Addition : additions[r].phase = "room" => Cardinality(favorites) < MaxFavorites

\* Nothing is kept at first.
LEMMA FavoritesStart ==
  ASSUME FV!Init
  PROVE  FavoritesWhole
<1>1. MaxFavorites \in Nat BY AdministrationAssumption DEF FV!FavoritesAssumption
<1>2. IsFiniteSet(favorites) /\ Cardinality(favorites) = 0 BY FS_EmptySet DEF FV!Init
<1>3. \A r \in Addition : additions[r] = [phase |-> "none", item |-> CHOOSE i \in Starrable : TRUE]
  BY DEF FV!Init
<1> QED BY <1>1, <1>2, <1>3 DEF FavoritesWhole, HoldsMember, FV!Init

\* What a step of one addition may do: another phase, perhaps another item, and what is kept.
Moves(r, phase) ==
  /\ DOMAIN additions' = Addition /\ \A o \in Addition \ {r} : additions'[o] = additions[o]
  /\ additions'[r] \in [phase : {phase}, item : {additions'[r].item}]
  /\ additions'[r].phase = phase

\* An addition that goes on.
LEMMA AdditionMoves ==
  ASSUME FavoritesWhole, NEW r \in Addition, NEW phase,
         additions' = [additions EXCEPT ![r].phase = phase]
  PROVE  Moves(r, phase) /\ additions'[r].item = additions[r].item
<1>1. additions[r] \in [phase : {additions[r].phase}, item : {additions[r].item}] BY DEF FavoritesWhole
<1>2. additions'[r] = [additions[r] EXCEPT !.phase = phase] BY DEF FavoritesWhole
<1> QED BY <1>1, <1>2 DEF Moves, FavoritesWhole

\* No step of the favorites breaks the invariant.
LEMMA FavoritesSteps ==
  ASSUME FavoritesWhole, FV!Next \/ UNCHANGED FV!favoritesVars
  PROVE  FavoritesWhole'
<1>1. CASE UNCHANGED FV!favoritesVars BY <1>1 DEF FV!favoritesVars, FavoritesWhole, HoldsMember
<1>2. CASE FV!RemoveFavorite
  <2>1. PICK item \in Starrable : favorites' = favorites \ {item} /\ UNCHANGED additions
    BY <1>2 DEF FV!RemoveFavorite
  <2>2. IsFiniteSet(favorites') /\ Cardinality(favorites') <= Cardinality(favorites)
    BY <2>1, FS_Subset DEF FavoritesWhole
  <2>3. Cardinality(favorites) \in Nat /\ Cardinality(favorites') \in Nat /\ MaxFavorites \in Nat
    BY <2>2, FS_CardinalityType, AdministrationAssumption DEF FavoritesWhole, FV!FavoritesAssumption
  <2> QED BY <2>1, <2>2, <2>3 DEF FavoritesWhole, HoldsMember
<1>3. ASSUME NEW r \in Addition, FV!Request(r) PROVE FavoritesWhole'
  <2>1. PICK item \in Starrable : additions' = [additions EXCEPT ![r] = [phase |-> "asked", item |-> item]]
    BY <1>3 DEF FV!Request
  <2>2. Moves(r, "asked") /\ favorites' = favorites BY <1>3, <2>1 DEF FV!Request, Moves, FavoritesWhole
  <2> QED BY <2>2 DEF FavoritesWhole, HoldsMember, Moves
<1>4. ASSUME NEW r \in Addition, FV!LockMember(r) PROVE FavoritesWhole'
  <2>1. Moves(r, "locked") /\ favorites' = favorites BY <1>4, AdditionMoves DEF FV!LockMember
  <2>2. \A o \in Addition : ~ HoldsMember(o) BY <1>4 DEF FV!LockMember, FV!MemberFree, HoldsMember
  <2> QED BY <2>1, <2>2 DEF FavoritesWhole, HoldsMember, Moves
<1>5. ASSUME NEW r \in Addition, FV!Look(r) PROVE FavoritesWhole'
  <2> DEFINE phase == FV!Missing(r)
  <2>1. Moves(r, phase) /\ additions'[r].item = additions[r].item /\ favorites' = favorites
    BY <1>5, AdditionMoves DEF FV!Look
  <2>2. HoldsMember(r) BY <1>5 DEF FV!Look, HoldsMember
  <2>3. phase \in {"none", "missing"} /\ (phase = "missing" => additions[r].item \notin favorites)
    BY DEF FV!Missing
  <2> HIDE DEF phase
  <2> QED BY <2>1, <2>2, <2>3 DEF FavoritesWhole, HoldsMember, Moves
<1>6. ASSUME NEW r \in Addition, FV!CountKept(r) PROVE FavoritesWhole'
  <2> DEFINE phase == IF Cardinality(favorites) >= MaxFavorites THEN "full" ELSE "room"
  <2>1. Moves(r, phase) /\ additions'[r].item = additions[r].item /\ favorites' = favorites
    BY <1>6, AdditionMoves, CountersAlike DEF FV!CountKept
  <2>2. HoldsMember(r) /\ additions[r].phase = "missing" BY <1>6 DEF FV!CountKept, HoldsMember
  <2>c. Cardinality(favorites) \in Nat /\ MaxFavorites \in Nat
    BY FS_CardinalityType, AdministrationAssumption DEF FavoritesWhole, FV!FavoritesAssumption
  <2>3. phase \in {"full", "room"} /\ (phase = "room" => Cardinality(favorites) < MaxFavorites) BY <2>c
  <2> HIDE DEF phase
  <2> QED BY <2>1, <2>2, <2>3 DEF FavoritesWhole, HoldsMember, Moves
<1>7. ASSUME NEW r \in Addition, FV!Store(r) PROVE FavoritesWhole'
  <2>1. Moves(r, "stored") /\ favorites' = favorites \cup {additions[r].item}
    BY <1>7, AdditionMoves DEF FV!Store
  <2>2. HoldsMember(r) /\ additions[r].phase = "room" BY <1>7 DEF FV!Store, HoldsMember
  <2>3. IsFiniteSet(favorites') /\ Cardinality(favorites') = Cardinality(favorites) + 1
    BY <2>1, <2>2, FS_AddElement DEF FavoritesWhole
  <2>4. Cardinality(favorites) \in Nat /\ MaxFavorites \in Nat /\ Cardinality(favorites) < MaxFavorites
    BY <2>2, FS_CardinalityType, AdministrationAssumption DEF FavoritesWhole, FV!FavoritesAssumption
  <2>5. \A o \in Addition \ {r} : ~ HoldsMember(o) BY <2>2 DEF FavoritesWhole
  <2> QED BY <2>1, <2>2, <2>3, <2>4, <2>5 DEF FavoritesWhole, HoldsMember, Moves
<1>8. ASSUME NEW r \in Addition, FV!Answer(r) PROVE FavoritesWhole'
  <2>1. Moves(r, "none") /\ favorites' = favorites BY <1>8, AdditionMoves DEF FV!Answer
  <2> QED BY <2>1 DEF FavoritesWhole, HoldsMember, Moves
<1> QED BY <1>1, <1>2, <1>3, <1>4, <1>5, <1>6, <1>7, <1>8 DEF FV!Next

\* A member keeps few favorites, and is told so truly.
LEMMA FavoritesPromise ==
  ASSUME FavoritesWhole
  PROVE  FV!FewKept
BY CountersAlike DEF FavoritesWhole, FV!FewKept

(* Members.                                                                *)

Links == {"none", "live", "expired"}
Versions == 0 .. MaxVersion
UserRow ==
  [state : {"none", "pending", "member", "removed"}, active : BOOLEAN,
   role : ME!Editable \cup {"admin"}, version : Versions, invitation : Links, reset : Links]
SessionRow ==
  [user : User, version : Versions, family : Secret, age : {"fresh", "old"},
   replaced : {"no", "recent", "past"}]

MemberTypes ==
  /\ users \in [User -> UserRow]
  /\ roles \in [ME!Editable -> {"absent", "plain", "manages"}]
  /\ sessions \in [Secret -> SessionRow \cup {ME!Unissued, ME!Deleted}]
  /\ signin \in {ME!NoSignin} \cup [stage : {"token", "checked"}, user : User, version : Versions]
  /\ rotation \in {ME!NoRotation} \cup [secret : Secret, user : User, version : Versions]
  /\ revoking \subseteq Secret /\ requests \in 0 .. MaxRequests

\* As long as nobody can manage, there is nobody but the one who was invited to.
Founded ==
  ME!Managers(users, roles) = {} =>
    \A u \in User : ME!Exists(u) =>
      users[u].state = "pending" /\ users[u].role = "admin" /\ users[u].active

\* Who was never invited has the row of nobody.
StrangersBlank == \A u \in User : users[u].state = "none" => users[u] = ME!Nobody

\* What is remembered is of an account that exists, of no later access than it has, and belongs
\* to a sign-in that was made.
SessionsBelong ==
  \A s \in Secret : ME!Stored(s) =>
    /\ ME!Exists(sessions[s].user) /\ sessions[s].version <= users[sessions[s].user].version
    /\ sessions[sessions[s].family] # ME!Unissued

\* Two secrets of one sign-in are of one member and of one time, and one of them was replaced.
FamiliesAgree ==
  \A s, t \in Secret : ME!Stored(s) /\ ME!Stored(t) /\ s # t /\ sessions[s].family = sessions[t].family =>
    /\ sessions[t].user = sessions[s].user /\ sessions[t].version = sessions[s].version
    /\ sessions[s].replaced # "no" \/ sessions[t].replaced # "no"

\* Who signs in was a member, with no later access than there is.
SigninBelongs ==
  signin # ME!NoSignin =>
    /\ users[signin.user].state # "none"
    /\ ME!Exists(signin.user) => signin.version <= users[signin.user].version

\* The row that a rotation holds stays as it was read.
RotationHolds ==
  rotation # ME!NoRotation =>
    /\ ME!Stored(rotation.secret) /\ sessions[rotation.secret].replaced = "no"
    /\ sessions[rotation.secret].user = rotation.user
    /\ sessions[rotation.secret].version = rotation.version

\* The inductive invariant of the members.
MembersWhole ==
  /\ MemberTypes /\ Founded /\ StrangersBlank /\ ME!LinksFit
  /\ SessionsBelong /\ FamiliesAgree /\ SigninBelongs /\ RotationHolds

(* A change of one member.                                                 *)

\* The two rows give the same access, and a reset link that was out still is.
SameAccess(x, y) ==
  /\ y.state = x.state /\ y.active = x.active /\ y.role = x.role
  /\ x.reset # "none" => y.reset # "none"

\* A row whose role exists and whose links are meant for it.
RowFits(y) ==
  /\ y.state \in {"pending", "member"} => ME!RoleExists(y.role)
  /\ y.invitation # "none" => y.state = "pending" /\ y.active
  /\ y.reset # "none" => y.state = "member" /\ y.active

\* The row of one member changes: an account that is gone does not come back, and other access
\* is a later one.
RowStep(u, y) ==
  /\ u \in User /\ y \in UserRow /\ y.state # "none" /\ RowFits(y)
  /\ users' = [users EXCEPT ![u] = y] /\ roles' = roles
  /\ y.state \in {"pending", "member"} => users[u].state # "removed" /\ users[u].version <= y.version
  /\ SameAccess(users[u], y) \/ ~ (y.state = "member" /\ y.active) \/ users[u].version < y.version

\* A member's row is one of the rows there are.
LEMMA RowOf ==
  ASSUME MemberTypes, NEW u \in User
  PROVE  users[u] \in UserRow /\ users[u].version \in Int
BY DEF MemberTypes, UserRow, Versions

\* What a change of one row leaves alone, whatever it is.
LEMMA RowKeepsTables ==
  ASSUME MembersWhole, NEW u, NEW y, RowStep(u, y)
  PROVE  /\ users' \in [User -> UserRow] /\ StrangersBlank' /\ ME!LinksFit'
         /\ roles' \in [ME!Editable -> {"absent", "plain", "manages"}]
         /\ users'[u] = y /\ \A v \in User \ {u} : users'[v] = users[v]
<1>1. users' \in [User -> UserRow] /\ roles' \in [ME!Editable -> {"absent", "plain", "manages"}]
  BY DEF MembersWhole, MemberTypes, RowStep
<1>2. users'[u] = y /\ \A v \in User \ {u} : users'[v] = users[v] BY DEF MembersWhole, MemberTypes, RowStep
<1>3. StrangersBlank' BY <1>2 DEF MembersWhole, StrangersBlank, RowStep
<1>4. ME!LinksFit'
  <2> SUFFICES ASSUME NEW v \in User
               PROVE  /\ ME!Exists(v)' => ME!RoleExists(users[v].role)'
                      /\ users'[v].invitation # "none" => users'[v].state = "pending" /\ users'[v].active
                      /\ users'[v].reset # "none" => ME!Usable(v)' BY DEF ME!LinksFit
  <2>1. CASE v = u BY <1>2, <2>1 DEF RowStep, RowFits, ME!Exists, ME!RoleExists, ME!Usable
  <2>2. CASE v # u BY <1>2, <2>2 DEF MembersWhole, ME!LinksFit, RowStep, ME!Exists, ME!RoleExists, ME!Usable
  <2> QED BY <2>1, <2>2
<1> QED BY <1>1, <1>2, <1>3, <1>4

\* Who signs in is still one who was a member, with no later access than there is.
LEMMA RowKeepsSignin ==
  ASSUME MembersWhole, NEW u, NEW y, RowStep(u, y), signin' = signin
  PROVE  SigninBelongs'
<1> SUFFICES ASSUME signin # ME!NoSignin
             PROVE  /\ users'[signin.user].state # "none"
                    /\ ME!Exists(signin.user)' => signin.version <= users'[signin.user].version
  BY DEF SigninBelongs, ME!NoSignin
<1>1. signin.user \in User /\ signin.version \in Int BY DEF MembersWhole, MemberTypes, Versions
<1>2. users[signin.user].state # "none"
      /\ (ME!Exists(signin.user) => signin.version <= users[signin.user].version)
  BY DEF MembersWhole, SigninBelongs
<1>3. CASE signin.user = u
  <2>1. users'[u] = y /\ y.state # "none" BY RowKeepsTables DEF RowStep
  <2>2. users[u] \in UserRow /\ users[u].version \in Int /\ y \in UserRow /\ y.version \in Int
    BY <1>1, <1>3, RowOf DEF MembersWhole, RowStep, UserRow, Versions
  <2>3. y.state \in {"pending", "member"} =>
          users[u].state \in {"pending", "member"} /\ users[u].version <= y.version
    BY <1>2, <1>3, <2>2 DEF RowStep, UserRow
  <2> QED BY <1>1, <1>2, <1>3, <2>1, <2>2, <2>3 DEF ME!Exists
<1>4. CASE signin.user # u BY <1>1, <1>2, <1>4, RowKeepsTables DEF ME!Exists
<1> QED BY <1>3, <1>4

\* A change of one row leaves what is remembered as it is, if the account stays.
LEMMA RowKeepsSessions ==
  ASSUME MembersWhole, NEW u, NEW y, RowStep(u, y), ME!Exists(u) => y.state \in {"pending", "member"},
         UNCHANGED <<sessions, rotation>>
  PROVE  SessionsBelong' /\ FamiliesAgree' /\ RotationHolds'
<1>1. SessionsBelong'
  <2> SUFFICES ASSUME NEW s \in Secret, ME!Stored(s)
               PROVE  /\ ME!Exists(sessions[s].user)' /\ sessions[s].version <= users'[sessions[s].user].version
                      /\ sessions[sessions[s].family] # ME!Unissued
    BY DEF SessionsBelong, ME!Stored, ME!Unissued, ME!Deleted
  <2>1. sessions[s] \in SessionRow BY DEF MembersWhole, MemberTypes, ME!Stored
  <2>2. sessions[s].user \in User /\ sessions[s].version \in Int BY <2>1 DEF SessionRow, Versions
  <2>3. /\ ME!Exists(sessions[s].user) /\ sessions[s].version <= users[sessions[s].user].version
        /\ sessions[sessions[s].family] # ME!Unissued BY DEF MembersWhole, SessionsBelong
  <2>4. CASE sessions[s].user = u
    <3>1. users'[u] = y BY RowKeepsTables
    <3>2. users[u].version \in Int /\ y.version \in Int
      BY <2>2, <2>4, RowOf DEF MembersWhole, RowStep, UserRow, Versions
    <3> QED BY <2>2, <2>3, <2>4, <3>1, <3>2 DEF RowStep, ME!Exists
  <2>5. CASE sessions[s].user # u BY <2>2, <2>3, <2>5, RowKeepsTables DEF ME!Exists
  <2> QED BY <2>4, <2>5
<1>2. FamiliesAgree' /\ RotationHolds'
  BY DEF MembersWhole, FamiliesAgree, RotationHolds, ME!Stored, ME!Unissued, ME!Deleted, ME!NoRotation
<1> QED BY <1>1, <1>2

\* Somebody who manages still does, if it is not the one whose row changes.
LEMMA ManagerStays ==
  ASSUME MembersWhole, NEW u, NEW y, RowStep(u, y), NEW m \in ME!Managers(users, roles),
         m # u \/ SameAccess(users[u], y)
  PROVE  ME!Managers(users, roles)' # {} /\ Founded'
<1>1. m \in User /\ users'[m].state = users[m].state /\ users'[m].active = users[m].active
      /\ users'[m].role = users[m].role /\ roles' = roles
  BY RowKeepsTables DEF ME!Managers, SameAccess, RowStep
<1>2. m \in ME!Managers(users, roles)' BY <1>1 DEF ME!Managers
<1> QED BY <1>2 DEF Founded

\* A step that changes one row keeps the invariant, if somebody manages or nobody can yet.
LEMMA RowKeepsWhole ==
  ASSUME MembersWhole, NEW u, NEW y, RowStep(u, y), ME!Exists(u) => y.state \in {"pending", "member"},
         Founded', UNCHANGED <<sessions, signin, rotation, revoking>>, requests' \in 0 .. MaxRequests
  PROVE  MembersWhole'
<1>1. MemberTypes'
  BY RowKeepsTables DEF MembersWhole, MemberTypes, ME!Unissued, ME!Deleted, ME!NoSignin, ME!NoRotation
<1> QED BY <1>1, RowKeepsTables, RowKeepsSignin, RowKeepsSessions DEF MembersWhole

(* The steps of members and roles.                                         *)

\* A member's row, the account gone.
Gone == [ME!Nobody EXCEPT !.state = "removed"]

\* An invitation writes the row of one who has not accepted, with a role that there is.
LEMMA InvitedRow ==
  ASSUME MembersWhole, NEW u \in User, NEW r \in ME!Editable \cup {"admin"}, ME!Invited(u, r)
  PROVE  \E y : /\ RowStep(u, y) /\ y.state = "pending" /\ y.role = r /\ y.active
                /\ users[u].state \in {"none", "pending"}
<1> DEFINE y == [users[u] EXCEPT !.state = "pending", !.role = r, !.invitation = "live"]
<1>1. users[u] \in UserRow /\ users[u].version \in Int BY RowOf DEF MembersWhole
<1>2. y \in UserRow /\ y.state = "pending" /\ y.role = r /\ y.active = users[u].active
      /\ y.invitation = "live" /\ y.reset = users[u].reset /\ y.version = users[u].version
  BY <1>1 DEF UserRow, Links
<1>3. users' = [users EXCEPT ![u] = y] /\ roles' = roles /\ ME!RoleExists(r)
      /\ (users[u].state = "none" \/ (users[u].state = "pending" /\ users[u].active)) BY DEF ME!Invited
<1> HIDE DEF y
<1>4. users[u].active BY <1>3 DEF MembersWhole, StrangersBlank, ME!Nobody
<1>5. users[u].reset = "none" BY <1>3 DEF MembersWhole, ME!LinksFit, ME!Usable
<1>6. RowFits(y) BY <1>2, <1>3, <1>4, <1>5 DEF RowFits
<1>7. RowStep(u, y) BY <1>1, <1>2, <1>3, <1>6 DEF RowStep
<1> QED BY <1>2, <1>3, <1>4, <1>7

\* The one who is invited first can only be the administrator.
LEMMA FirstInvited ==
  ASSUME MembersWhole, NEW u \in User, ME!Managers(users, roles) = {}, ME!Invited(u, "admin")
  PROVE  Founded'
<1>1. PICK y : RowStep(u, y) /\ y.state = "pending" /\ y.role = "admin" /\ y.active BY InvitedRow
<1>2. \A v \in User : ME!Exists(v) => users[v].state = "pending" /\ users[v].role = "admin" /\ users[v].active
  BY DEF MembersWhole, Founded
<1>3. \A v \in User : ME!Exists(v)' => users'[v].state = "pending" /\ users'[v].role = "admin" /\ users'[v].active
  BY <1>1, <1>2, RowKeepsTables DEF ME!Exists
<1> QED BY <1>3 DEF Founded

\* What steps do to one row: who changed, and that the rest of the invariant is kept.
RowChanges ==
  \E u, y : RowStep(u, y) /\ (ME!Exists(u) => y.state \in {"pending", "member"}) /\ Founded'

\* An invitation.
LEMMA InviteChanges ==
  ASSUME MembersWhole, ME!Invite
  PROVE  RowChanges
<1>1. CASE ME!Managers(users, roles) # {} /\ \E u \in User, r \in ME!Editable \cup {"admin"} : ME!Invited(u, r)
  <2>1. PICK u \in User, r \in ME!Editable \cup {"admin"} : ME!Invited(u, r) BY <1>1
  <2>2. PICK y : RowStep(u, y) /\ y.state = "pending" /\ users[u].state \in {"none", "pending"}
    BY <2>1, InvitedRow
  <2>3. PICK m : m \in ME!Managers(users, roles) BY <1>1
  <2>4. m # u BY <2>2, <2>3 DEF ME!Managers
  <2> QED BY <2>2, <2>3, <2>4, ManagerStays DEF RowChanges
<1>2. CASE ME!Managers(users, roles) = {} /\ \E u \in User : ME!Invited(u, "admin")
  <2>1. PICK u \in User : ME!Invited(u, "admin") BY <1>2
  <2>2. PICK y : RowStep(u, y) /\ y.state = "pending" BY <2>1, InvitedRow
  <2> QED BY <1>2, <2>1, <2>2, FirstInvited DEF RowChanges
<1> QED BY <1>1, <1>2 DEF ME!Invite

\* The first invitation of an installation.
LEMMA BootstrapChanges ==
  ASSUME MembersWhole, NEW resend \in BOOLEAN, ME!Bootstrap(resend)
  PROVE  RowChanges
<1>1. PICK u \in User : ME!Invited(u, "admin") BY DEF ME!Bootstrap
<1>2. ME!Managers(users, roles) = {} BY DEF ME!Bootstrap
<1>3. PICK y : RowStep(u, y) /\ y.state = "pending" BY <1>1, InvitedRow
<1> QED BY <1>1, <1>2, <1>3, FirstInvited DEF RowChanges

\* An update, unless it is refused because nobody could manage afterwards.
LEMMA UpdateChanges ==
  ASSUME MembersWhole, ME!Update
  PROVE  RowChanges \/ UNCHANGED <<users, roles>>
<1>1. PICK u \in User, r \in ME!Editable \cup {"admin"}, active \in BOOLEAN :
        /\ ME!Exists(u) /\ ME!RoleExists(r) /\ users[u].version < MaxVersion
        /\ ME!CommitKeepingAManager([users EXCEPT ![u] = ME!Changed(@, r, active)], roles) BY DEF ME!Update
<1> DEFINE y == ME!Changed(users[u], r, active)
           differs == users[u].role # r \/ users[u].active # active
           later == IF differs THEN users[u].version + 1 ELSE users[u].version
           reset == IF differs THEN "none" ELSE users[u].reset
           invitation == IF active THEN users[u].invitation ELSE "none"
<1>2. CASE ME!Managers([users EXCEPT ![u] = y], roles) # {}
  <2>1. users' = [users EXCEPT ![u] = y] /\ roles' = roles BY <1>1, <1>2 DEF ME!CommitKeepingAManager
  <2>2. users[u] \in UserRow /\ users[u].version \in Int BY RowOf DEF MembersWhole
  <2>3. users[u].state \in {"pending", "member"} /\ users[u].version + 1 \in Versions
        /\ users[u].version \in Versions
    BY <1>1, <2>2, AdministrationAssumption DEF ME!Exists, Versions, UserRow, ME!MembersAssumption
  <2>a. later \in Versions /\ reset \in Links /\ invitation \in Links BY <2>2, <2>3 DEF UserRow, Links
  <2>b. y = [users[u] EXCEPT !.role = r, !.active = active, !.version = later, !.reset = reset,
                             !.invitation = invitation] BY DEF ME!Changed
  <2> HIDE DEF y, later, reset, invitation
  <2>4. /\ y \in UserRow /\ y.state = users[u].state /\ y.role = r /\ y.active = active
        /\ y.version = later /\ y.reset = reset /\ y.invitation = invitation BY <2>2, <2>a, <2>b DEF UserRow
  <2>5. /\ differs => later = users[u].version + 1 /\ reset = "none"
        /\ ~ differs => later = users[u].version /\ reset = users[u].reset
        /\ invitation # "none" => active /\ users[u].invitation # "none" BY DEF later, reset, invitation
  <2>6. RowFits(y) BY <1>1, <2>3, <2>4, <2>5 DEF RowFits, MembersWhole, ME!LinksFit, ME!Usable
  <2>7. SameAccess(users[u], y) \/ users[u].version < y.version BY <2>2, <2>4, <2>5 DEF SameAccess
  <2>8. RowStep(u, y) BY <2>1, <2>2, <2>3, <2>4, <2>5, <2>6, <2>7 DEF RowStep
  <2>9. Founded' BY <1>2, <2>1 DEF Founded
  <2> QED BY <2>3, <2>4, <2>8, <2>9 DEF RowChanges
<1>3. CASE ME!Managers([users EXCEPT ![u] = y], roles) = {} BY <1>1, <1>3 DEF ME!CommitKeepingAManager
<1> QED BY <1>2, <1>3

\* A row that is written with the same access as before.
LEMMA SameAccessChanges ==
  ASSUME MembersWhole, NEW u \in User, NEW y, RowStep(u, y), users[u].state = y.state,
         y.active = users[u].active, y.role = users[u].role
  PROVE  Founded'
<1>1. \A v \in User : users'[v].state = users[v].state /\ users'[v].active = users[v].active
                      /\ users'[v].role = users[v].role BY RowKeepsTables
<1>2. roles' = roles BY DEF RowStep
<1>3. ME!Managers(users, roles)' = ME!Managers(users, roles) BY <1>1, <1>2 DEF ME!Managers
<1>4. \A v \in User : ME!Exists(v)' = ME!Exists(v) BY <1>1 DEF ME!Exists
<1> QED BY <1>1, <1>3, <1>4 DEF MembersWhole, Founded

\* Accepting an invitation makes a member, of an administrator if there is no manager.
LEMMA AcceptChanges ==
  ASSUME MembersWhole, NEW u \in User, ME!AcceptInvitation(u), roles' = roles
  PROVE  RowChanges
<1> DEFINE y == [users[u] EXCEPT !.state = "member", !.invitation = "none", !.version = users[u].version + 1]
<1>1. users[u] \in UserRow /\ users[u].version \in Int BY RowOf DEF MembersWhole
<1>2. users[u].state = "pending" /\ users[u].active /\ users[u].version < MaxVersion
      /\ users' = [users EXCEPT ![u] = y] BY DEF ME!AcceptInvitation
<1>3. users[u].version + 1 \in Versions
  BY <1>1, <1>2, AdministrationAssumption DEF Versions, UserRow, ME!MembersAssumption
<1>4. y \in UserRow /\ y.state = "member" /\ y.role = users[u].role /\ y.active = users[u].active
      /\ y.invitation = "none" /\ y.reset = users[u].reset /\ y.version = users[u].version + 1
  BY <1>1, <1>3 DEF UserRow, Links
<1> HIDE DEF y
<1>5. RowFits(y) BY <1>2, <1>4 DEF RowFits, MembersWhole, ME!LinksFit, ME!Exists
<1>6. RowStep(u, y) BY <1>1, <1>2, <1>4, <1>5 DEF RowStep
<1>7. Founded'
  <2>1. CASE ME!Managers(users, roles) = {}
    <3>1. users[u].role = "admin" BY <1>2, <2>1 DEF MembersWhole, Founded, ME!Exists
    <3>2. users'[u] = y BY <1>6, RowKeepsTables
    <3>3. u \in ME!Managers(users, roles)' BY <1>2, <1>4, <3>1, <3>2 DEF ME!Managers
    <3> QED BY <3>3 DEF Founded
  <2>2. CASE ME!Managers(users, roles) # {}
    <3>1. PICK m : m \in ME!Managers(users, roles) BY <2>2
    <3>2. m # u BY <1>2, <3>1 DEF ME!Managers
    <3> QED BY <1>6, <3>1, <3>2, ManagerStays
  <2> QED BY <2>1, <2>2
<1> QED BY <1>4, <1>6, <1>7 DEF RowChanges

\* A reset link, its use, and links that run out leave the access as it is.
LEMMA LinkChanges ==
  ASSUME MembersWhole, ME!Link
  PROVE  RowChanges
<1>1. PICK u \in User : \/ ME!AcceptInvitation(u) \/ ME!IssueResetToken(u)
                        \/ ME!ResetPassword(u) \/ ME!LinkExpires(u) BY DEF ME!Link
<1>2. roles' = roles BY DEF ME!Link
<1>3. users[u] \in UserRow /\ users[u].version \in Int BY RowOf DEF MembersWhole
<1>f. RowFits(users[u]) BY DEF RowFits, MembersWhole, ME!LinksFit, ME!Exists, ME!Usable
<1>4. ASSUME NEW y \in UserRow, users' = [users EXCEPT ![u] = y], RowFits(y), y.state = users[u].state,
             y.state \in {"pending", "member"}, y.active = users[u].active, y.role = users[u].role,
             \/ y.version = users[u].version /\ (users[u].reset # "none" => y.reset # "none")
             \/ y.version = users[u].version + 1
      PROVE  RowChanges
  <2>1. y.version \in Int BY <1>4 DEF UserRow, Versions
  <2>2. users[u].version <= y.version
        /\ (SameAccess(users[u], y) \/ users[u].version < y.version) BY <1>3, <1>4, <2>1 DEF SameAccess
  <2>3. RowStep(u, y) BY <1>2, <1>4, <2>2 DEF RowStep
  <2>4. Founded' BY <1>4, <2>3, SameAccessChanges
  <2> QED BY <1>4, <2>3, <2>4 DEF RowChanges
<1>5. CASE ME!AcceptInvitation(u) BY <1>2, <1>5, AcceptChanges
<1>6. CASE ME!IssueResetToken(u)
  <2> DEFINE y == [users[u] EXCEPT !.reset = "live"]
  <2>1. users' = [users EXCEPT ![u] = y] /\ users[u].state = "member" /\ users[u].active
    BY <1>6 DEF ME!IssueResetToken, ME!Usable
  <2>2. y \in UserRow /\ y.state = users[u].state /\ y.role = users[u].role /\ y.active = users[u].active
        /\ y.invitation = users[u].invitation /\ y.reset = "live" /\ y.version = users[u].version
    BY <1>3 DEF UserRow, Links
  <2> HIDE DEF y
  <2>3. RowFits(y) BY <1>f, <2>1, <2>2 DEF RowFits
  <2> QED BY <1>4, <2>1, <2>2, <2>3
<1>7. CASE ME!ResetPassword(u)
  <2> DEFINE y == [users[u] EXCEPT !.reset = "none", !.version = users[u].version + 1]
  <2>1. users' = [users EXCEPT ![u] = y] /\ users[u].state = "member" /\ users[u].version < MaxVersion
    BY <1>7 DEF ME!ResetPassword, ME!Usable
  <2>2. users[u].version + 1 \in Versions
    BY <1>3, <2>1, AdministrationAssumption DEF Versions, UserRow, ME!MembersAssumption
  <2>3. y \in UserRow /\ y.state = users[u].state /\ y.role = users[u].role /\ y.active = users[u].active
        /\ y.invitation = users[u].invitation /\ y.reset = "none" /\ y.version = users[u].version + 1
    BY <1>3, <2>2 DEF UserRow, Links
  <2> HIDE DEF y
  <2>4. RowFits(y) BY <1>f, <2>1, <2>3 DEF RowFits
  <2> QED BY <1>4, <2>1, <2>3, <2>4
<1>8. CASE users[u].invitation = "live" /\ users' = [users EXCEPT ![u] = [@ EXCEPT !.invitation = "expired"]]
  <2> DEFINE y == [users[u] EXCEPT !.invitation = "expired"]
  <2>1. users' = [users EXCEPT ![u] = y] /\ users[u].state = "pending" /\ users[u].active
    BY <1>8, <1>f DEF RowFits
  <2>2. y \in UserRow /\ y.state = users[u].state /\ y.role = users[u].role /\ y.active = users[u].active
        /\ y.invitation = "expired" /\ y.reset = users[u].reset /\ y.version = users[u].version
    BY <1>3 DEF UserRow, Links
  <2> HIDE DEF y
  <2>3. RowFits(y) BY <1>f, <2>1, <2>2 DEF RowFits
  <2> QED BY <1>4, <2>1, <2>2, <2>3
<1>9. CASE users[u].reset = "live" /\ users' = [users EXCEPT ![u] = [@ EXCEPT !.reset = "expired"]]
  <2> DEFINE y == [users[u] EXCEPT !.reset = "expired"]
  <2>1. users' = [users EXCEPT ![u] = y] /\ users[u].state = "member" /\ users[u].active
    BY <1>9, <1>f DEF RowFits
  <2>2. y \in UserRow /\ y.state = users[u].state /\ y.role = users[u].role /\ y.active = users[u].active
        /\ y.invitation = users[u].invitation /\ y.reset = "expired" /\ y.version = users[u].version
    BY <1>3 DEF UserRow, Links
  <2> HIDE DEF y
  <2>3. RowFits(y) BY <1>f, <2>1, <2>2 DEF RowFits
  <2> QED BY <1>4, <2>1, <2>2, <2>3
<1> QED BY <1>1, <1>5, <1>6, <1>7, <1>8, <1>9 DEF ME!LinkExpires

\* A role that changes leaves somebody to manage, and who holds a role has it still.
LEMMA RolesKeepWhole ==
  ASSUME MembersWhole, ME!ChangeRole
  PROVE  MembersWhole'
<1>0. UNCHANGED <<users, sessions, signin, rotation, revoking>> /\ requests' \in 0 .. MaxRequests
  <2>1. requests \in 0 .. MaxRequests /\ requests < MaxRequests /\ requests' = requests + 1 /\ MaxRequests \in Nat
    BY AdministrationAssumption DEF MembersWhole, MemberTypes, ME!ChangeRole, ME!Request, ME!MembersAssumption
  <2>2. requests' \in 0 .. MaxRequests BY <2>1
  <2>3. users' = users BY DEF ME!ChangeRole, ME!CommitKeepingAManager
  <2> QED BY <2>2, <2>3 DEF ME!ChangeRole, ME!SignIns
<1>1. PICK m : m \in ME!Managers(users, roles) BY DEF ME!ChangeRole
<1>2. m \in User /\ users[m].state = "member" /\ users[m].active
      /\ (users[m].role = "admin" \/ roles[users[m].role] = "manages") BY <1>1 DEF ME!Managers
<1>3. \A u \in User : ME!Exists(u) => ME!RoleExists(users[u].role) BY DEF MembersWhole, ME!LinksFit
<1> DEFINE Kept ==
      /\ roles' \in [ME!Editable -> {"absent", "plain", "manages"}] /\ Founded'
      /\ \A u \in User : ME!Exists(u) => ME!RoleExists(users[u].role)'
<1>4. Kept
  <2>1. ASSUME NEW r \in Custom, NEW p \in {"plain", "manages"}, roles[r] = "absent",
               roles' = [roles EXCEPT ![r] = p]
        PROVE  Kept
    <3>1. roles' \in [ME!Editable -> {"absent", "plain", "manages"}]
          /\ \A o \in ME!Editable : roles[o] # "absent" => roles'[o] = roles[o]
      BY <2>1 DEF MembersWhole, MemberTypes, ME!Editable
    <3>2. m \in ME!Managers(users, roles)'
      BY <1>0, <1>2, <1>3, <3>1 DEF ME!Managers, ME!RoleExists, ME!Exists
    <3> QED BY <1>0, <1>3, <3>1, <3>2 DEF Founded, ME!RoleExists
  <2>2. ASSUME NEW r \in ME!Editable, NEW p \in {"plain", "manages"}, roles[r] # "absent",
               ME!CommitKeepingAManager(users, [roles EXCEPT ![r] = p])
        PROVE  Kept
    <3>1. CASE UNCHANGED <<users, roles>>
      BY <1>3, <3>1 DEF MembersWhole, MemberTypes, Founded, ME!RoleExists, ME!Exists, ME!Managers
    <3>2. CASE roles' = [roles EXCEPT ![r] = p] /\ ME!Managers(users, roles)' # {}
      <4>1. roles' \in [ME!Editable -> {"absent", "plain", "manages"}]
            /\ \A o \in ME!Editable : roles[o] # "absent" => roles'[o] # "absent"
        BY <2>2, <3>2 DEF MembersWhole, MemberTypes
      <4> QED BY <1>0, <1>3, <3>2, <4>1 DEF Founded, ME!RoleExists
    <3> QED BY <1>0, <2>2, <3>1, <3>2 DEF ME!CommitKeepingAManager
  <2>3. ASSUME NEW r \in Custom, \A u \in User : ME!Exists(u) => users[u].role # r,
               roles' = [roles EXCEPT ![r] = "absent"]
        PROVE  Kept
    <3>1. roles' \in [ME!Editable -> {"absent", "plain", "manages"}]
          /\ \A o \in ME!Editable : o # r => roles'[o] = roles[o]
      BY <2>3 DEF MembersWhole, MemberTypes, ME!Editable
    <3>2. m \in ME!Managers(users, roles)'
      BY <1>0, <1>2, <1>3, <2>3, <3>1 DEF ME!Managers, ME!RoleExists, ME!Exists
    <3> QED BY <1>0, <1>3, <2>3, <3>1, <3>2 DEF Founded, ME!RoleExists
  <2> QED BY <2>1, <2>2, <2>3 DEF ME!ChangeRole
<1>5. MemberTypes'
  BY <1>0, <1>4 DEF MembersWhole, MemberTypes, ME!Unissued, ME!Deleted, ME!NoSignin, ME!NoRotation
<1>6. StrangersBlank' /\ ME!LinksFit'
  BY <1>0, <1>4 DEF MembersWhole, StrangersBlank, ME!LinksFit, ME!Exists, ME!Usable
<1>7. SessionsBelong' /\ FamiliesAgree' /\ SigninBelongs' /\ RotationHolds'
  BY <1>0 DEF MembersWhole, SessionsBelong, FamiliesAgree, SigninBelongs, RotationHolds, ME!Exists,
              ME!Stored, ME!Unissued, ME!Deleted, ME!NoSignin, ME!NoRotation
<1> QED BY <1>4, <1>5, <1>6, <1>7 DEF MembersWhole

(* The steps of sign-ins and remembered sessions.                          *)

\* What is remembered of one secret stays, gets older, is replaced, or is forgotten.
Outlives(t) ==
  \/ sessions'[t] = ME!Deleted
  \/ sessions'[t] = sessions[t]
  \/ /\ sessions[t] \in SessionRow /\ sessions'[t] \in SessionRow
     /\ sessions'[t].user = sessions[t].user /\ sessions'[t].version = sessions[t].version
     /\ sessions'[t].family = sessions[t].family
     /\ sessions[t].replaced # "no" => sessions'[t].replaced # "no"

\* No secret is new.
NoneNew == DOMAIN sessions' = Secret /\ sessions' = [t \in Secret |-> sessions'[t]] /\ \A t \in Secret : Outlives(t)

\* A row of a secret is none of the marks for one that has none.
LEMMA RowIsStored ==
  ASSUME NEW x \in SessionRow
  PROVE  x # ME!Unissued /\ x # ME!Deleted
<1>1. "family" \in DOMAIN x BY DEF SessionRow
<1>2. "family" \notin DOMAIN ME!Unissued /\ "family" \notin DOMAIN ME!Deleted BY DEF ME!Unissued, ME!Deleted
<1> QED BY <1>1, <1>2

\* What is stored is a row.
LEMMA StoredIsRow ==
  ASSUME MemberTypes, NEW s \in Secret, ME!Stored(s)
  PROVE  /\ sessions[s] \in SessionRow /\ sessions[s].user \in User /\ sessions[s].version \in Int
         /\ sessions[s].family \in Secret
BY DEF MemberTypes, ME!Stored, SessionRow, Versions

\* Where no secret is new, what is stored was.
LEMMA NoneNewStored ==
  ASSUME MemberTypes, NoneNew, NEW s \in Secret, ME!Stored(s)'
  PROVE  /\ ME!Stored(s) /\ sessions'[s].user = sessions[s].user /\ sessions'[s].version = sessions[s].version
         /\ sessions'[s].family = sessions[s].family
         /\ sessions[s].replaced # "no" => sessions'[s].replaced # "no"
<1>1. Outlives(s) /\ sessions'[s] # ME!Deleted /\ sessions'[s] # ME!Unissued
  BY DEF NoneNew, ME!Stored, ME!Deleted, ME!Unissued
<1>2. CASE sessions'[s] = sessions[s] BY <1>1, <1>2 DEF ME!Stored, ME!Deleted, ME!Unissued
<1>3. CASE sessions'[s] # sessions[s]
  <2>1. sessions[s] \in SessionRow BY <1>1, <1>3 DEF Outlives
  <2>2. ME!Stored(s) BY <2>1, RowIsStored DEF ME!Stored
  <2> QED BY <1>1, <1>3, <2>2 DEF Outlives
<1> QED BY <1>2, <1>3

\* Where no secret is new the sessions stay in order, if their accounts do.
LEMMA NoneNewKeeps ==
  ASSUME MembersWhole, NoneNew,
         \A s \in Secret : ME!Stored(s)' =>
           (ME!Exists(sessions[s].user) /\ sessions[s].version <= users[sessions[s].user].version)'
  PROVE  /\ sessions' \in [Secret -> SessionRow \cup {ME!Unissued, ME!Deleted}]
         /\ SessionsBelong' /\ FamiliesAgree'
<1>0. MemberTypes BY DEF MembersWhole
<1>1. \A s \in Secret : sessions[s] \in SessionRow \cup {ME!Unissued, ME!Deleted}
  BY DEF MembersWhole, MemberTypes
<1>2. sessions' \in [Secret -> SessionRow \cup {ME!Unissued, ME!Deleted}] BY <1>1 DEF NoneNew, Outlives
<1>3. SessionsBelong'
  <2> SUFFICES ASSUME NEW s \in Secret, ME!Stored(s)'
               PROVE  /\ ME!Exists(sessions[s].user)' /\ (sessions[s].version <= users[sessions[s].user].version)'
                      /\ sessions'[sessions'[s].family] # ME!Unissued BY DEF SessionsBelong, ME!Unissued
  <2>1. ME!Stored(s) /\ sessions'[s].user = sessions[s].user /\ sessions'[s].version = sessions[s].version
        /\ sessions'[s].family = sessions[s].family BY <1>0, NoneNewStored
  <2>2. sessions[s].family \in Secret /\ sessions[sessions[s].family] # ME!Unissued
    BY <1>0, <2>1, StoredIsRow DEF MembersWhole, SessionsBelong
  <2>3. ME!Deleted # ME!Unissued BY DEF ME!Deleted, ME!Unissued
  <2>4. sessions'[sessions[s].family] # ME!Unissued BY <2>2, <2>3, RowIsStored DEF NoneNew, Outlives
  <2>5. (ME!Exists(sessions[s].user) /\ sessions[s].version <= users[sessions[s].user].version)' OBVIOUS
  <2> QED BY <2>1, <2>4, <2>5 DEF ME!Exists
<1>4. FamiliesAgree'
  <2> SUFFICES ASSUME NEW s \in Secret, NEW t \in Secret, ME!Stored(s)', ME!Stored(t)', s # t,
                      sessions'[s].family = sessions'[t].family
               PROVE  /\ sessions'[t].user = sessions'[s].user /\ sessions'[t].version = sessions'[s].version
                      /\ sessions'[s].replaced # "no" \/ sessions'[t].replaced # "no" BY DEF FamiliesAgree
  <2> QED BY <1>0, NoneNewStored DEF MembersWhole, FamiliesAgree
<1> QED BY <1>2, <1>3, <1>4

\* What is about a row that nobody touches.
LEMMA RotationStays ==
  ASSUME MembersWhole, rotation # ME!NoRotation, sessions'[rotation.secret] = sessions[rotation.secret],
         rotation' = rotation
  PROVE  RotationHolds'
BY DEF MembersWhole, RotationHolds, ME!Stored, ME!Unissued, ME!Deleted, ME!NoRotation

\* Removing an account forgets what is remembered of it.
LEMMA RemoveKeepsWhole ==
  ASSUME MembersWhole, ME!Remove, requests' \in 0 .. MaxRequests
  PROVE  /\ MembersWhole' /\ \E u : RowStep(u, Gone)
         /\ \A s \in Secret : sessions'[s] \in {sessions[s], ME!Deleted}
<1>1. PICK u \in User :
        /\ ME!Exists(u) /\ ~ users[u].active /\ (rotation # ME!NoRotation => rotation.user # u)
        /\ users' = [users EXCEPT ![u] = Gone]
        /\ sessions' = [s \in Secret |-> IF sessions[s].user = u THEN ME!Deleted ELSE sessions[s]]
  BY DEF ME!Remove, Gone
<1>2. UNCHANGED <<roles, signin, rotation, revoking>> BY DEF ME!Remove
<1>3. Gone \in UserRow /\ Gone.state = "removed" /\ Gone.invitation = "none" /\ Gone.reset = "none"
  <2>1. 0 \in Versions BY AdministrationAssumption DEF Versions, ME!MembersAssumption
  <2>2. "user" \in ME!Editable BY DEF ME!Editable
  <2>3. ME!Nobody \in UserRow /\ ME!Nobody.invitation = "none" /\ ME!Nobody.reset = "none"
    BY <2>1, <2>2 DEF ME!Nobody, UserRow, Links
  <2> QED BY <2>3 DEF Gone, UserRow
<1>4. RowStep(u, Gone) BY <1>1, <1>2, <1>3 DEF RowStep, RowFits
<1>5. Founded'
  <2>1. PICK m : m \in ME!Managers(users, roles) BY DEF ME!Remove
  <2>2. m # u BY <1>1, <2>1 DEF ME!Managers
  <2> QED BY <1>4, <2>1, <2>2, ManagerStays
<1>6. NoneNew BY <1>1 DEF NoneNew, Outlives
<1>0. MemberTypes BY DEF MembersWhole
<1>7. ASSUME NEW s \in Secret, ME!Stored(s)'
      PROVE  (ME!Exists(sessions[s].user) /\ sessions[s].version <= users[sessions[s].user].version)'
  <2>1. /\ ME!Stored(s) /\ sessions[s].user \in User
        /\ sessions'[s].user = sessions[s].user /\ sessions'[s].version = sessions[s].version
    BY <1>0, <1>6, <1>7, NoneNewStored, StoredIsRow
  <2>2. sessions[s].user # u BY <1>1, <1>7 DEF ME!Stored, ME!Deleted
  <2>3. users'[sessions[s].user] = users[sessions[s].user] BY <1>4, <2>1, <2>2, RowKeepsTables
  <2> QED BY <2>1, <2>3 DEF MembersWhole, SessionsBelong, ME!Exists
<1>8. RotationHolds'
  <2>1. CASE rotation = ME!NoRotation BY <1>2, <2>1 DEF RotationHolds, ME!NoRotation
  <2>2. CASE rotation # ME!NoRotation
    <3>1. rotation.secret \in Secret /\ sessions[rotation.secret].user = rotation.user
      BY <2>2 DEF MembersWhole, MemberTypes, RotationHolds
    <3> QED BY <1>1, <1>2, <2>2, <3>1, RotationStays
  <2> QED BY <2>1, <2>2
<1>9. MemberTypes' BY <1>2, <1>4, <1>6, <1>7, RowKeepsTables, NoneNewKeeps
  DEF MembersWhole, MemberTypes, ME!Unissued, ME!Deleted, ME!NoSignin, ME!NoRotation
<1>10. MembersWhole'
  BY <1>2, <1>4, <1>5, <1>6, <1>7, <1>8, <1>9, RowKeepsTables, RowKeepsSignin, NoneNewKeeps DEF MembersWhole
<1> QED BY <1>1, <1>4, <1>10

\* The conjuncts that are about members only.
LEMMA RowsUntouched ==
  ASSUME MembersWhole, UNCHANGED <<users, roles>>
  PROVE  Founded' /\ StrangersBlank' /\ ME!LinksFit'
         /\ users' \in [User -> UserRow] /\ roles' \in [ME!Editable -> {"absent", "plain", "manages"}]
<1>1. ME!Managers(users, roles)' = ME!Managers(users, roles) BY DEF ME!Managers
<1>2. \A u \in User : ME!Exists(u)' = ME!Exists(u) /\ ME!Usable(u)' = ME!Usable(u)
                      /\ ME!RoleExists(users[u].role)' = ME!RoleExists(users[u].role)
  BY DEF ME!Exists, ME!Usable, ME!RoleExists
<1>3. Founded' /\ StrangersBlank' BY <1>1, <1>2 DEF MembersWhole, Founded, StrangersBlank
<1>4. ME!LinksFit' BY <1>2 DEF MembersWhole, ME!LinksFit
<1> QED BY <1>3, <1>4 DEF MembersWhole, MemberTypes

\* The conjuncts that are about remembered sessions only.
LEMMA SessionsUntouched ==
  ASSUME MembersWhole, UNCHANGED <<users, sessions>>
  PROVE  /\ SessionsBelong' /\ FamiliesAgree'
         /\ sessions' \in [Secret -> SessionRow \cup {ME!Unissued, ME!Deleted}]
<1>1. \A s \in Secret : ME!Stored(s)' = ME!Stored(s) BY DEF ME!Stored, ME!Unissued, ME!Deleted
<1>2. \A u \in User : ME!Exists(u)' = ME!Exists(u) BY DEF ME!Exists
<1>3. FamiliesAgree' BY <1>1 DEF MembersWhole, FamiliesAgree
<1>4. SessionsBelong' BY <1>1 DEF MembersWhole, SessionsBelong, ME!Exists, ME!Unissued
<1> QED BY <1>3, <1>4 DEF MembersWhole, MemberTypes, ME!Unissued, ME!Deleted

\* A sign-in that goes on as it was.
LEMMA SigninUntouched ==
  ASSUME MembersWhole, UNCHANGED <<users, signin>>
  PROVE  /\ SigninBelongs'
         /\ signin' \in {ME!NoSignin} \cup [stage : {"token", "checked"}, user : User, version : Versions]
BY DEF MembersWhole, MemberTypes, SigninBelongs, ME!Exists, ME!NoSignin

\* Likewise a rotation.
LEMMA RotationUntouched ==
  ASSUME MembersWhole, UNCHANGED <<sessions, rotation>>
  PROVE  /\ RotationHolds'
         /\ rotation' \in {ME!NoRotation} \cup [secret : Secret, user : User, version : Versions]
BY DEF MembersWhole, MemberTypes, RotationHolds, ME!Stored, ME!Unissued, ME!Deleted, ME!NoRotation

\* Who is accepted signs in as what the table says.
LEMMA AcceptedSignin ==
  ASSUME MembersWhole, NEW u \in User, ME!Usable(u), UNCHANGED users,
         signin' = [stage |-> "token", user |-> u, version |-> users[u].version]
  PROVE  /\ SigninBelongs'
         /\ signin' \in {ME!NoSignin} \cup [stage : {"token", "checked"}, user : User, version : Versions]
<1>1. users[u] \in UserRow /\ users[u].version \in Int BY RowOf DEF MembersWhole
<1>2. users[u].version \in Versions BY <1>1 DEF UserRow
<1>3. signin'.user = u /\ signin'.version = users[u].version OBVIOUS
<1> QED BY <1>1, <1>2, <1>3 DEF SigninBelongs, ME!Usable

\* A rotation that is over holds nothing.
LEMMA NoRotationHolds ==
  ASSUME rotation' = ME!NoRotation
  PROVE  RotationHolds' /\ rotation' \in {ME!NoRotation} \cup [secret : Secret, user : User, version : Versions]
BY DEF RotationHolds, ME!NoRotation

\* Signing in, and the request for a remembered session.
LEMMA LoginKeepsWhole ==
  ASSUME MembersWhole, requests' \in 0 .. MaxRequests, (\E u \in User : ME!Login(u)) \/ ME!Check
  PROVE  MembersWhole'
<1>1. UNCHANGED <<users, roles, sessions, rotation, revoking>> BY DEF ME!Login, ME!Check, ME!Membership
<1> DEFINE SigninTyped ==
      /\ SigninBelongs'
      /\ signin' \in {ME!NoSignin} \cup [stage : {"token", "checked"}, user : User, version : Versions]
<1>2. SigninTyped
  <2>1. ASSUME NEW u \in User, ME!Login(u) PROVE SigninTyped BY <1>1, <2>1, AcceptedSignin DEF ME!Login
  <2>2. CASE ME!Check
    <3>1. signin.stage = "token" BY <2>2 DEF ME!Check
    <3>2. signin \in [stage : {"token", "checked"}, user : User, version : Versions] /\ signin # ME!NoSignin
      BY <3>1 DEF MembersWhole, MemberTypes, ME!NoSignin
    <3>3. signin' \in {[signin EXCEPT !.stage = "checked"], ME!NoSignin} BY <2>2 DEF ME!Check
    <3>4. CASE signin' = [signin EXCEPT !.stage = "checked"]
      <4>1. signin' \in [stage : {"token", "checked"}, user : User, version : Versions]
            /\ signin'.user = signin.user /\ signin'.version = signin.version BY <3>2, <3>4
      <4> QED BY <1>1, <3>2, <4>1 DEF MembersWhole, SigninBelongs, ME!Exists
    <3>5. CASE signin' = ME!NoSignin BY <3>5 DEF SigninBelongs, ME!NoSignin
    <3> QED BY <3>3, <3>4, <3>5
  <2> QED BY <2>1, <2>2
<1>3. revoking' \subseteq Secret BY <1>1 DEF MembersWhole, MemberTypes
<1>4. MemberTypes' BY <1>1, <1>2, <1>3, RowsUntouched, SessionsUntouched, RotationUntouched
  DEF MemberTypes, ME!Unissued, ME!Deleted, ME!NoSignin, ME!NoRotation
<1> QED BY <1>1, <1>2, <1>4, RowsUntouched, SessionsUntouched, RotationUntouched DEF MembersWhole

\* A refresh answers with a token, holds its row, or begins to revoke the sign-in; a revocation
\* begins likewise.
LEMMA RefreshKeepsWhole ==
  ASSUME MembersWhole, requests' \in 0 .. MaxRequests, NEW s \in Secret, ME!Refresh(s) \/ ME!Revoke(s)
  PROVE  MembersWhole'
<1>1. UNCHANGED <<users, roles, sessions>> /\ ME!Stored(s) BY DEF ME!Refresh, ME!Revoke, ME!Membership
<1>2. sessions[s] \in SessionRow /\ sessions[s].user \in User /\ sessions[s].version \in Versions
  BY <1>1, StoredIsRow DEF MembersWhole, SessionRow
<1>3. revoking' \subseteq Secret
  <2>1. ME!Family(s) \subseteq Secret BY DEF ME!Family
  <2>2. revoking' = revoking \/ revoking' = ME!Family(s) BY <1>2 DEF ME!Refresh, ME!Revoke, SessionRow
  <2> QED BY <2>1, <2>2 DEF MembersWhole, MemberTypes
<1>4. /\ SigninBelongs'
      /\ signin' \in {ME!NoSignin} \cup [stage : {"token", "checked"}, user : User, version : Versions]
  <2>1. CASE signin' = signin BY <1>1, <2>1, SigninUntouched
  <2>2. CASE signin' # signin
    <3>1. ME!Accepts(sessions[s])
          /\ signin' = [stage |-> "token", user |-> sessions[s].user, version |-> sessions[s].version]
      BY <2>2 DEF ME!Refresh, ME!Revoke
    <3>2. ME!Usable(sessions[s].user) /\ users[sessions[s].user].version = sessions[s].version
      BY <3>1 DEF ME!Accepts
    <3> QED BY <1>1, <1>2, <3>1, <3>2, AcceptedSignin
  <2> QED BY <2>1, <2>2
<1>5. /\ RotationHolds'
      /\ rotation' \in {ME!NoRotation} \cup [secret : Secret, user : User, version : Versions]
  <2>1. CASE rotation' = rotation BY <1>1, <2>1, RotationUntouched
  <2>2. CASE rotation' # rotation
    <3>1. rotation' = [secret |-> s, user |-> sessions[s].user, version |-> sessions[s].version]
          /\ sessions[s].replaced \notin {"past", "recent"} BY <2>2 DEF ME!Refresh, ME!Revoke
    <3>2. sessions[s].replaced = "no" BY <1>2, <3>1 DEF SessionRow
    <3>3. rotation'.secret = s /\ rotation'.user = sessions[s].user /\ rotation'.version = sessions[s].version
      BY <3>1
    <3>4. rotation' \in [secret : Secret, user : User, version : Versions] BY <1>2, <3>1
    <3>5. RotationHolds' BY <1>1, <3>2, <3>3 DEF RotationHolds, ME!Stored, ME!Unissued, ME!Deleted
    <3> QED BY <3>4, <3>5
  <2> QED BY <2>1, <2>2
<1>6. MemberTypes' BY <1>1, <1>3, <1>4, <1>5, RowsUntouched, SessionsUntouched
  DEF MemberTypes, ME!Unissued, ME!Deleted, ME!NoSignin, ME!NoRotation
<1> QED BY <1>1, <1>4, <1>5, <1>6, RowsUntouched, SessionsUntouched DEF MembersWhole

\* A new secret of a sign-in that has not outlived its account.
LEMMA IssueIsRow ==
  ASSUME NEW s \in Secret, NEW user \in User, NEW version \in Versions, NEW family \in Secret
  PROVE  /\ ME!Issue(s, user, version, family) \in SessionRow
         /\ ME!Issue(s, user, version, family).user = user
         /\ ME!Issue(s, user, version, family).version = version
         /\ ME!Issue(s, user, version, family).family = family
         /\ ME!Issue(s, user, version, family).replaced = "no"
BY DEF ME!Issue, SessionRow

\* The remembered session of a sign-in is the first secret of its family.
LEMMA CreateKeepsWhole ==
  ASSUME MembersWhole, ME!Create
  PROVE  MembersWhole'
<1>1. UNCHANGED <<users, roles, rotation, revoking, requests>> /\ signin' = ME!NoSignin
      /\ signin.stage = "checked" BY DEF ME!Create, ME!Membership
<1>2. signin \in [stage : {"token", "checked"}, user : User, version : Versions] /\ signin # ME!NoSignin
  BY <1>1 DEF MembersWhole, MemberTypes, ME!NoSignin
<1>3. SigninBelongs' BY <1>1 DEF SigninBelongs, ME!NoSignin
<1>4. ASSUME /\ sessions' \in [Secret -> SessionRow \cup {ME!Unissued, ME!Deleted}]
             /\ SessionsBelong' /\ FamiliesAgree' /\ RotationHolds'
      PROVE  MembersWhole'
  <2>1. MemberTypes' BY <1>1, <1>4, RowsUntouched
    DEF MembersWhole, MemberTypes, ME!Unissued, ME!Deleted, ME!NoSignin, ME!NoRotation
  <2> QED BY <1>1, <1>3, <1>4, <2>1, RowsUntouched DEF MembersWhole
<1>5. CASE UNCHANGED sessions BY <1>1, <1>4, <1>5, SessionsUntouched, RotationUntouched
<1>6. ASSUME NEW s \in Secret, ME!Exists(signin.user), sessions[s] = ME!Unissued,
             sessions' = [sessions EXCEPT ![s] = ME!Issue(s, signin.user, signin.version, s)]
      PROVE  MembersWhole'
  <2> DEFINE x == ME!Issue(s, signin.user, signin.version, s)
  <2>1. /\ x \in SessionRow /\ x.user = signin.user /\ x.version = signin.version
        /\ x.family = s /\ x.replaced = "no" BY <1>2, IssueIsRow
  <2>2. DOMAIN sessions = Secret /\ \A t \in Secret : sessions[t] \in SessionRow \cup {ME!Unissued, ME!Deleted}
    BY DEF MembersWhole, MemberTypes
  <2> HIDE DEF x
  <2>3. sessions'[s] = x /\ \A t \in Secret \ {s} : sessions'[t] = sessions[t] BY <1>6, <2>2 DEF x
  <2>4. sessions' \in [Secret -> SessionRow \cup {ME!Unissued, ME!Deleted}] BY <1>6, <2>1, <2>2 DEF x
  <2>5. x # ME!Unissued /\ x # ME!Deleted BY <2>1, RowIsStored
  <2>6. ASSUME NEW t \in Secret, t # s, ME!Stored(t)'
        PROVE  ME!Stored(t) /\ sessions[t].family \in Secret \ {s}
    <3>1. ME!Stored(t) BY <2>3, <2>6 DEF ME!Stored, ME!Unissued, ME!Deleted
    <3>2. sessions[t].family \in Secret /\ sessions[sessions[t].family] # ME!Unissued
      BY <3>1, StoredIsRow DEF MembersWhole, SessionsBelong
    <3> QED BY <1>6, <3>1, <3>2
  <2>7. SessionsBelong'
    <3> SUFFICES ASSUME NEW t \in Secret, ME!Stored(t)'
                 PROVE  (/\ ME!Exists(sessions[t].user) /\ sessions[t].version <= users[sessions[t].user].version
                         /\ sessions[sessions[t].family] # ME!Unissued)' BY DEF SessionsBelong
    <3>1. CASE t = s
      <4>1. signin.version <= users[signin.user].version BY <1>2, <1>6 DEF MembersWhole, SigninBelongs
      <4> QED BY <1>1, <1>6, <2>1, <2>3, <2>5, <3>1, <4>1 DEF ME!Exists, ME!Unissued
    <3>2. CASE t # s
      <4>1. /\ ME!Stored(t) /\ sessions[t].family \in Secret \ {s} BY <2>6, <3>2
      <4>2. /\ ME!Exists(sessions[t].user) /\ sessions[t].version <= users[sessions[t].user].version
            /\ sessions[sessions[t].family] # ME!Unissued BY <4>1 DEF MembersWhole, SessionsBelong
      <4> QED BY <1>1, <2>3, <3>2, <4>1, <4>2 DEF ME!Exists, ME!Unissued
    <3> QED BY <3>1, <3>2
  <2>8. FamiliesAgree'
    <3> SUFFICES ASSUME NEW t \in Secret, NEW o \in Secret, ME!Stored(t)', ME!Stored(o)', t # o,
                        sessions'[t].family = sessions'[o].family
                 PROVE  /\ sessions'[o].user = sessions'[t].user /\ sessions'[o].version = sessions'[t].version
                        /\ sessions'[t].replaced # "no" \/ sessions'[o].replaced # "no" BY DEF FamiliesAgree
    <3>1. t # s /\ o # s BY <2>1, <2>3, <2>6
    <3>2. ME!Stored(t) /\ ME!Stored(o) BY <2>6, <3>1
    <3> QED BY <2>3, <3>1, <3>2 DEF MembersWhole, FamiliesAgree
  <2>9. RotationHolds'
    <3>1. CASE rotation = ME!NoRotation BY <1>1, <3>1 DEF RotationHolds, ME!NoRotation
    <3>2. CASE rotation # ME!NoRotation
      <4>1. rotation.secret \in Secret /\ ME!Stored(rotation.secret)
        BY <3>2 DEF MembersWhole, MemberTypes, RotationHolds
      <4>2. rotation.secret # s BY <1>6, <4>1 DEF ME!Stored
      <4> QED BY <1>1, <2>3, <3>2, <4>1, <4>2, RotationStays
    <3> QED BY <3>1, <3>2
  <2> QED BY <1>4, <2>4, <2>7, <2>8, <2>9
<1> QED BY <1>5, <1>6 DEF ME!Create

\* A rotation replaces the secret whose row it holds by one that nobody had.
LEMMA RotateKeepsWhole ==
  ASSUME MembersWhole, ME!Rotate
  PROVE  MembersWhole'
<1>1. UNCHANGED <<users, roles, revoking, requests>> /\ rotation' = ME!NoRotation /\ rotation # ME!NoRotation
  BY DEF ME!Rotate, ME!Membership
<1> DEFINE r == rotation.secret
<1>2. /\ r \in Secret /\ rotation.user \in User /\ rotation.version \in Versions
      /\ ME!Stored(r) /\ sessions[r].replaced = "no"
      /\ sessions[r].user = rotation.user /\ sessions[r].version = rotation.version
  BY <1>1 DEF MembersWhole, MemberTypes, RotationHolds
<1> HIDE DEF r
<1>3. sessions[r] \in SessionRow /\ sessions[r].family \in Secret BY <1>2, StoredIsRow DEF MembersWhole
<1>4. /\ ME!Exists(rotation.user) /\ rotation.version <= users[rotation.user].version
      /\ sessions[sessions[r].family] # ME!Unissued BY <1>2 DEF MembersWhole, SessionsBelong
<1>5. ASSUME /\ sessions' \in [Secret -> SessionRow \cup {ME!Unissued, ME!Deleted}]
             /\ SessionsBelong' /\ FamiliesAgree' /\ SigninBelongs'
             /\ signin' \in {ME!NoSignin} \cup [stage : {"token", "checked"}, user : User, version : Versions]
      PROVE  MembersWhole'
  <2>1. MemberTypes' BY <1>1, <1>5, RowsUntouched, NoRotationHolds
    DEF MembersWhole, MemberTypes, ME!Unissued, ME!Deleted, ME!NoSignin, ME!NoRotation
  <2> QED BY <1>1, <1>5, <2>1, RowsUntouched, NoRotationHolds DEF MembersWhole
<1>6. CASE UNCHANGED <<sessions, signin>> BY <1>1, <1>5, <1>6, SessionsUntouched, SigninUntouched
<1>7. ASSUME NEW s \in Secret, sessions[s] = ME!Unissued,
             sessions' = [sessions EXCEPT
                ![r] = [@ EXCEPT !.replaced = "recent"],
                ![s] = ME!Issue(s, rotation.user, rotation.version, sessions[r].family)],
             signin' = [stage |-> "token", user |-> rotation.user, version |-> rotation.version]
      PROVE  MembersWhole'
  <2> DEFINE x == ME!Issue(s, rotation.user, rotation.version, sessions[r].family)
             z == [sessions[r] EXCEPT !.replaced = "recent"]
  <2>1. /\ x \in SessionRow /\ x.user = rotation.user /\ x.version = rotation.version
        /\ x.family = sessions[r].family /\ x.replaced = "no" BY <1>2, <1>3, IssueIsRow
  <2>2. /\ z \in SessionRow /\ z.user = rotation.user /\ z.version = rotation.version
        /\ z.family = sessions[r].family /\ z.replaced = "recent" BY <1>2, <1>3 DEF SessionRow
  <2>3. DOMAIN sessions = Secret /\ \A t \in Secret : sessions[t] \in SessionRow \cup {ME!Unissued, ME!Deleted}
    BY DEF MembersWhole, MemberTypes
  <2>4. s # r BY <1>2, <1>7 DEF ME!Stored
  <2>5. sessions' = [sessions EXCEPT ![r] = z, ![s] = x] BY <1>7
  <2> HIDE DEF x, z
  <2>6. /\ DOMAIN sessions' = Secret /\ sessions' = [t \in Secret |-> sessions'[t]]
        /\ sessions'[s] = x /\ sessions'[r] = z /\ \A t \in Secret \ {s, r} : sessions'[t] = sessions[t]
    BY <1>2, <2>3, <2>4, <2>5
  <2>7. sessions' \in [Secret -> SessionRow \cup {ME!Unissued, ME!Deleted}] BY <2>1, <2>2, <2>3, <2>6
  <2>8. x # ME!Unissued /\ z # ME!Unissued BY <2>1, <2>2, RowIsStored
  <2>9. ASSUME NEW t \in Secret, t \notin {s, r}, ME!Stored(t)'
        PROVE  ME!Stored(t) /\ sessions[t].family \in Secret
    <3>1. ME!Stored(t) BY <2>6, <2>9 DEF ME!Stored, ME!Unissued, ME!Deleted
    <3> QED BY <3>1, StoredIsRow DEF MembersWhole
  <2>10. \A t \in Secret : sessions[t] # ME!Unissued => sessions'[t] # ME!Unissued
    BY <2>6, <2>8 DEF ME!Unissued
  <2>11. SessionsBelong'
    <3> SUFFICES ASSUME NEW t \in Secret, ME!Stored(t)'
                 PROVE  (/\ ME!Exists(sessions[t].user) /\ sessions[t].version <= users[sessions[t].user].version
                         /\ sessions[sessions[t].family] # ME!Unissued)' BY DEF SessionsBelong
    <3>1. CASE t \in {s, r}
      <4>1. sessions'[t].user = rotation.user /\ sessions'[t].version = rotation.version
            /\ sessions'[t].family = sessions[r].family BY <2>1, <2>2, <2>6, <3>1
      <4>2. sessions'[sessions[r].family] # ME!Unissued BY <1>3, <1>4, <2>10
      <4> QED BY <1>1, <1>2, <1>4, <4>1, <4>2 DEF ME!Exists, ME!Unissued
    <3>2. CASE t \notin {s, r}
      <4>1. ME!Stored(t) /\ sessions[t].family \in Secret BY <2>9, <3>2
      <4>2. /\ ME!Exists(sessions[t].user) /\ sessions[t].version <= users[sessions[t].user].version
            /\ sessions[sessions[t].family] # ME!Unissued BY <4>1 DEF MembersWhole, SessionsBelong
      <4>3. sessions'[sessions[t].family] # ME!Unissued BY <2>10, <4>1, <4>2
      <4>4. sessions'[t] = sessions[t] BY <2>6, <3>2
      <4> QED BY <1>1, <4>2, <4>3, <4>4 DEF ME!Exists, ME!Unissued
    <3> QED BY <3>1, <3>2
  <2>12. FamiliesAgree'
    <3>1. ASSUME NEW t \in Secret, t \notin {s, r}, ME!Stored(t)', sessions'[t].family = sessions[r].family
          PROVE  sessions'[t].user = rotation.user /\ sessions'[t].version = rotation.version
                 /\ sessions'[t].replaced # "no"
      <4>1. ME!Stored(t) /\ sessions'[t] = sessions[t] BY <2>6, <2>9, <3>1
      <4> QED BY <1>2, <3>1, <4>1 DEF MembersWhole, FamiliesAgree
    <3> SUFFICES ASSUME NEW t \in Secret, NEW o \in Secret, ME!Stored(t)', ME!Stored(o)', t # o,
                        sessions'[t].family = sessions'[o].family
                 PROVE  /\ sessions'[o].user = sessions'[t].user /\ sessions'[o].version = sessions'[t].version
                        /\ sessions'[t].replaced # "no" \/ sessions'[o].replaced # "no" BY DEF FamiliesAgree
    <3>2. CASE t \in {s, r} /\ o \in {s, r} BY <2>1, <2>2, <2>6, <3>2
    <3>3. CASE t \in {s, r} /\ o \notin {s, r} BY <2>1, <2>2, <2>6, <3>1, <3>3
    <3>4. CASE t \notin {s, r} /\ o \in {s, r} BY <2>1, <2>2, <2>6, <3>1, <3>4
    <3>5. CASE t \notin {s, r} /\ o \notin {s, r}
      <4>1. ME!Stored(t) /\ ME!Stored(o) /\ sessions'[t] = sessions[t] /\ sessions'[o] = sessions[o]
        BY <2>6, <2>9, <3>5
      <4> QED BY <4>1 DEF MembersWhole, FamiliesAgree
    <3> QED BY <3>2, <3>3, <3>4, <3>5
  <2>13. /\ SigninBelongs'
         /\ signin' \in {ME!NoSignin} \cup [stage : {"token", "checked"}, user : User, version : Versions]
    <3>1. signin'.user = rotation.user /\ signin'.version = rotation.version BY <1>7
    <3> QED BY <1>1, <1>2, <1>4, <1>7, <3>1 DEF SigninBelongs, ME!Exists
  <2> QED BY <1>5, <2>7, <2>11, <2>12, <2>13
<1> QED BY <1>6, <1>7 DEF ME!Rotate, r

\* Time and revocations make no secret new, and leave alone a row that is held.
LEMMA AgeForgets ==
  ASSUME MembersWhole, ME!Delete \/ \E s \in Secret : ME!Age(s)
  PROVE  NoneNew /\ (rotation # ME!NoRotation => sessions'[rotation.secret] = sessions[rotation.secret])
<1>0. MemberTypes BY DEF MembersWhole
<1> DEFINE Held(t) == rotation # ME!NoRotation /\ rotation.secret = t
<1>2. NoneNew /\ \A t \in Secret : Held(t) => sessions'[t] = sessions[t]
  <2>1. CASE ME!Delete
    <3>1. sessions' = [s \in Secret |-> IF s \in revoking THEN ME!Deleted ELSE sessions[s]]
          /\ (rotation # ME!NoRotation => rotation.secret \notin revoking) BY <2>1 DEF ME!Delete
    <3> QED BY <3>1 DEF NoneNew, Outlives
  <2>2. ASSUME NEW s \in Secret, ME!Age(s)
        PROVE  NoneNew /\ \A t \in Secret : Held(t) => sessions'[t] = sessions[t]
    <3>1. ME!Stored(s) /\ sessions[s] \in SessionRow /\ DOMAIN sessions = Secret
      BY <1>0, <2>2, StoredIsRow DEF ME!Age, MemberTypes
    <3>2. (rotation # ME!NoRotation => rotation.secret \notin ME!Family(s)) /\ s \in ME!Family(s)
      BY <2>2, <3>1 DEF ME!Age, ME!Family
    <3>3. ASSUME NEW z \in SessionRow, sessions' = [sessions EXCEPT ![s] = z], z.user = sessions[s].user,
                 z.version = sessions[s].version, z.family = sessions[s].family,
                 sessions[s].replaced # "no" => z.replaced # "no"
          PROVE  NoneNew /\ \A t \in Secret : Held(t) => sessions'[t] = sessions[t]
      <4>1. /\ DOMAIN sessions' = Secret /\ sessions' = [t \in Secret |-> sessions'[t]]
            /\ sessions'[s] = z /\ \A t \in Secret \ {s} : sessions'[t] = sessions[t] BY <3>1, <3>3
      <4> QED BY <3>1, <3>2, <3>3, <4>1 DEF NoneNew, Outlives
    <3>4. CASE sessions' = [sessions EXCEPT ![s] = [@ EXCEPT !.age = "old"]]
      <4> DEFINE z == [sessions[s] EXCEPT !.age = "old"]
      <4>1. z \in SessionRow /\ z.user = sessions[s].user /\ z.version = sessions[s].version
            /\ z.family = sessions[s].family /\ z.replaced = sessions[s].replaced BY <3>1 DEF SessionRow
      <4>2. sessions' = [sessions EXCEPT ![s] = z] BY <3>4
      <4> HIDE DEF z
      <4> QED BY <3>3, <4>1, <4>2
    <3>5. CASE sessions' = [sessions EXCEPT ![s] = [@ EXCEPT !.replaced = "past"]]
      <4> DEFINE z == [sessions[s] EXCEPT !.replaced = "past"]
      <4>1. z \in SessionRow /\ z.user = sessions[s].user /\ z.version = sessions[s].version
            /\ z.family = sessions[s].family /\ z.replaced # "no" BY <3>1 DEF SessionRow
      <4>2. sessions' = [sessions EXCEPT ![s] = z] BY <3>5
      <4> HIDE DEF z
      <4> QED BY <3>3, <4>1, <4>2
    <3>6. CASE sessions' = [t \in Secret |-> IF t \in ME!Family(s) THEN ME!Deleted ELSE sessions[t]]
      BY <3>2, <3>6 DEF NoneNew, Outlives
    <3> QED BY <2>2, <3>4, <3>5, <3>6 DEF ME!Age
  <2> QED BY <2>1, <2>2
<1>3. rotation # ME!NoRotation => rotation.secret \in Secret BY <1>0 DEF MemberTypes
<1> QED BY <1>2, <1>3

\* A secret that gets older or is forgotten, and a revocation that is carried out.
LEMMA AgeKeepsWhole ==
  ASSUME MembersWhole, requests' \in 0 .. MaxRequests, ME!Delete \/ \E s \in Secret : ME!Age(s)
  PROVE  MembersWhole'
<1>0. MemberTypes BY DEF MembersWhole
<1>1. UNCHANGED <<users, roles, signin, rotation>> /\ revoking' \subseteq Secret
  BY DEF ME!Delete, ME!Age, ME!Membership, MembersWhole, MemberTypes
<1>2. NoneNew /\ (rotation # ME!NoRotation => sessions'[rotation.secret] = sessions[rotation.secret])
  BY AgeForgets
<1>3. ASSUME NEW s \in Secret, ME!Stored(s)'
      PROVE  (ME!Exists(sessions[s].user) /\ sessions[s].version <= users[sessions[s].user].version)'
  <2>1. /\ ME!Stored(s) /\ sessions'[s].user = sessions[s].user /\ sessions'[s].version = sessions[s].version
    BY <1>0, <1>2, <1>3, NoneNewStored
  <2> QED BY <1>1, <2>1 DEF MembersWhole, SessionsBelong, ME!Exists
<1>4. RotationHolds'
  <2>1. CASE rotation = ME!NoRotation BY <1>1, <2>1 DEF RotationHolds, ME!NoRotation
  <2>2. CASE rotation # ME!NoRotation BY <1>1, <1>2, <2>2, RotationStays
  <2> QED BY <2>1, <2>2
<1>5. MemberTypes' BY <1>0, <1>1, <1>2, <1>3, RowsUntouched, SigninUntouched, NoneNewKeeps
  DEF MemberTypes, ME!Unissued, ME!Deleted, ME!NoSignin, ME!NoRotation
<1> QED BY <1>1, <1>2, <1>3, <1>4, <1>5, RowsUntouched, SigninUntouched, NoneNewKeeps DEF MembersWhole

\* A request is one more, as long as there may be any.
LEMMA RequestCounted ==
  ASSUME MembersWhole, ME!Request \/ requests' = requests
  PROVE  requests' \in 0 .. MaxRequests
BY AdministrationAssumption DEF MembersWhole, MemberTypes, ME!Request, ME!MembersAssumption

\* A step that changes one row by RowChanges and leaves the sign-ins alone.
LEMMA RowChangesKeep ==
  ASSUME MembersWhole, RowChanges \/ UNCHANGED <<users, roles>>, ME!SignIns, ME!Request
  PROVE  MembersWhole' /\ ((\E u, y : RowStep(u, y)) \/ UNCHANGED users)
<1>1. requests' \in 0 .. MaxRequests BY RequestCounted
<1>2. CASE RowChanges
  <2>1. PICK u, y : RowStep(u, y) /\ (ME!Exists(u) => y.state \in {"pending", "member"}) /\ Founded'
    BY <1>2 DEF RowChanges
  <2> QED BY <1>1, <2>1, RowKeepsWhole DEF ME!SignIns
<1>3. CASE UNCHANGED <<users, roles>>
  <2>1. MemberTypes' BY <1>1, <1>3, RowsUntouched, SessionsUntouched, SigninUntouched, RotationUntouched
    DEF MembersWhole, MemberTypes, ME!SignIns, ME!Unissued, ME!Deleted, ME!NoSignin, ME!NoRotation
  <2> QED BY <1>3, <2>1, RowsUntouched, SessionsUntouched, SigninUntouched, RotationUntouched
    DEF MembersWhole, ME!SignIns
<1> QED BY <1>2, <1>3

\* A step of members and roles.
MemberEdit ==
  \/ ME!Invite \/ (\E resend \in BOOLEAN : ME!Bootstrap(resend)) \/ ME!Update \/ ME!Link

\* What such a step leaves alone.
LEMMA EditsChange ==
  ASSUME MembersWhole, MemberEdit
  PROVE  (RowChanges \/ UNCHANGED <<users, roles>>) /\ ME!SignIns /\ ME!Request
<1>1. ME!SignIns /\ ME!Request BY DEF MemberEdit, ME!Invite, ME!Bootstrap, ME!Update, ME!Link
<1> QED BY <1>1, InviteChanges, BootstrapChanges, UpdateChanges, LinkChanges DEF MemberEdit

\* No step of the members breaks the invariant.
LEMMA MembersSteps ==
  ASSUME MembersWhole, ME!Next \/ UNCHANGED ME!memberVars
  PROVE  MembersWhole'
<1>1. CASE UNCHANGED ME!memberVars
  <2>1. MemberTypes' BY <1>1, RowsUntouched, SessionsUntouched, SigninUntouched, RotationUntouched
    DEF ME!memberVars, MembersWhole, MemberTypes, ME!Unissued, ME!Deleted, ME!NoSignin, ME!NoRotation
  <2> QED BY <1>1, <2>1, RowsUntouched, SessionsUntouched, SigninUntouched, RotationUntouched
    DEF ME!memberVars, MembersWhole
<1>2. CASE MemberEdit BY <1>2, EditsChange, RowChangesKeep
<1>3. CASE ME!Remove
  <2>1. requests' \in 0 .. MaxRequests BY <1>3, RequestCounted DEF ME!Remove
  <2> QED BY <1>3, <2>1, RemoveKeepsWhole
<1>4. CASE ME!ChangeRole BY <1>4, RolesKeepWhole
<1>5. CASE (\E u \in User : ME!Login(u)) \/ ME!Check
  <2>1. requests' \in 0 .. MaxRequests BY <1>5, RequestCounted DEF ME!Login, ME!Check
  <2> QED BY <1>5, <2>1, LoginKeepsWhole
<1>6. CASE \E s \in Secret : ME!Refresh(s) \/ ME!Revoke(s)
  <2>1. requests' \in 0 .. MaxRequests BY <1>6, RequestCounted DEF ME!Refresh, ME!Revoke
  <2> QED BY <1>6, <2>1, RefreshKeepsWhole
<1>7. CASE ME!Delete \/ \E s \in Secret : ME!Age(s)
  <2>1. requests' \in 0 .. MaxRequests BY <1>7, RequestCounted DEF ME!Delete, ME!Age
  <2> QED BY <1>7, <2>1, AgeKeepsWhole
<1>8. CASE ME!Create BY <1>8, CreateKeepsWhole
<1>9. CASE ME!Rotate BY <1>9, RotateKeepsWhole
<1> QED BY <1>1, <1>2, <1>3, <1>4, <1>5, <1>6, <1>7, <1>8, <1>9 DEF ME!Next, MemberEdit

\* An installation begins without members.
LEMMA MembersStart ==
  ASSUME ME!Init
  PROVE  MembersWhole
<1>1. 0 \in Versions /\ 0 \in 0 .. MaxRequests BY AdministrationAssumption DEF Versions, ME!MembersAssumption
<1>2. ME!Nobody \in UserRow /\ ME!Nobody.invitation = "none" /\ ME!Nobody.reset = "none" /\ ME!Nobody.state = "none"
  BY <1>1 DEF ME!Nobody, UserRow, Links, ME!Editable
<1>3. \A u \in User : users[u] = ME!Nobody BY DEF ME!Init
<1>4. \A s \in Secret : ~ ME!Stored(s) BY DEF ME!Init, ME!Stored
<1>5. MemberTypes BY <1>1, <1>2 DEF ME!Init, MemberTypes
<1>6. Founded /\ StrangersBlank /\ ME!LinksFit
  BY <1>2, <1>3 DEF Founded, StrangersBlank, ME!LinksFit, ME!Exists, ME!Usable
<1>7. SessionsBelong /\ FamiliesAgree BY <1>4 DEF SessionsBelong, FamiliesAgree
<1>8. SigninBelongs /\ RotationHolds BY DEF ME!Init, SigninBelongs, RotationHolds
<1> QED BY <1>5, <1>6, <1>7, <1>8 DEF MembersWhole

\* What membership promises of every state.
LEMMA MembersPromise ==
  ASSUME MembersWhole
  PROVE  ME!MembersTypeOK /\ ME!ManagerKept /\ ME!LinksFit /\ ME!OneInUse
<1>1. ME!MembersTypeOK BY DEF MembersWhole, MemberTypes, UserRow, Links, Versions, ME!MembersTypeOK
<1>2. ME!ManagerKept BY DEF MembersWhole, Founded, ME!ManagerKept, ME!Exists
<1>3. ME!OneInUse BY DEF MembersWhole, SessionsBelong, FamiliesAgree, ME!OneInUse, ME!Family
<1> QED BY <1>1, <1>2, <1>3 DEF MembersWhole

(* The end of access.                                                      *)

\* What a member has to sign in with is of no later access than there is.
LEMMA CredentialsBelong ==
  ASSUME MembersWhole, NEW c \in ME!Credentials
  PROVE  /\ c.user \in User /\ c.version \in Int /\ users[c.user].state # "none"
         /\ ME!Exists(c.user) => c.version <= users[c.user].version
<1>0. MemberTypes BY DEF MembersWhole
<1>1. ASSUME NEW s \in Secret, ME!Stored(s), c = [user |-> sessions[s].user, version |-> sessions[s].version]
      PROVE  /\ c.user \in User /\ c.version \in Int /\ users[c.user].state # "none"
             /\ ME!Exists(c.user) => c.version <= users[c.user].version
  <2>1. sessions[s].user \in User /\ sessions[s].version \in Int BY <1>0, <1>1, StoredIsRow
  <2>2. c.user = sessions[s].user /\ c.version = sessions[s].version BY <1>1
  <2> QED BY <1>1, <2>1, <2>2 DEF MembersWhole, SessionsBelong, ME!Exists
<1>2. ASSUME signin # ME!NoSignin, c = [user |-> signin.user, version |-> signin.version]
      PROVE  /\ c.user \in User /\ c.version \in Int /\ users[c.user].state # "none"
             /\ ME!Exists(c.user) => c.version <= users[c.user].version
  <2>1. signin.user \in User /\ signin.version \in Int BY <1>0, <1>2 DEF MemberTypes, Versions
  <2>2. c.user = signin.user /\ c.version = signin.version BY <1>2
  <2> QED BY <1>2, <2>1, <2>2 DEF MembersWhole, SigninBelongs
<1>3. ASSUME rotation # ME!NoRotation, c = [user |-> rotation.user, version |-> rotation.version]
      PROVE  \E s \in Secret : ME!Stored(s) /\ c = [user |-> sessions[s].user, version |-> sessions[s].version]
  <2>1. rotation.secret \in Secret BY <1>0, <1>3 DEF MemberTypes
  <2> QED BY <1>3, <2>1 DEF MembersWhole, RotationHolds
<1>4. \/ \E s \in {t \in Secret : ME!Stored(t)} : c = [user |-> sessions[s].user, version |-> sessions[s].version]
      \/ signin # ME!NoSignin /\ c = [user |-> signin.user, version |-> signin.version]
      \/ rotation # ME!NoRotation /\ c = [user |-> rotation.user, version |-> rotation.version]
  BY DEF ME!Credentials
<1> QED BY <1>1, <1>2, <1>3, <1>4

\* Where no secret is new and nobody signs in, there is nothing new to sign in with.
LEMMA NoNewCredentials ==
  ASSUME UNCHANGED <<signin, rotation>>,
         \A s \in Secret : ME!Stored(s)' => ME!Stored(s) /\ sessions'[s].user = sessions[s].user
                                            /\ sessions'[s].version = sessions[s].version
  PROVE  ME!Credentials' \subseteq ME!Credentials
<1> SUFFICES ASSUME NEW c \in ME!Credentials' PROVE c \in ME!Credentials OBVIOUS
<1>1. \/ \E s \in {t \in Secret : ME!Stored(t)'} : c = [user |-> sessions'[s].user, version |-> sessions'[s].version]
      \/ signin # ME!NoSignin /\ c = [user |-> signin.user, version |-> signin.version]
      \/ rotation # ME!NoRotation /\ c = [user |-> rotation.user, version |-> rotation.version]
  BY DEF ME!Credentials, ME!NoSignin, ME!NoRotation
<1>2. CASE \E s \in {t \in Secret : ME!Stored(t)'} : c = [user |-> sessions'[s].user, version |-> sessions'[s].version]
  <2>1. PICK s \in Secret : ME!Stored(s)' /\ c = [user |-> sessions'[s].user, version |-> sessions'[s].version]
    BY <1>2
  <2>2. ME!Stored(s) /\ c = [user |-> sessions[s].user, version |-> sessions[s].version] BY <2>1
  <2> QED BY <2>2 DEF ME!Credentials
<1> QED BY <1>1, <1>2 DEF ME!Credentials

\* When one row changes, what was accepted still is or the access is as it was.
LEMMA RowEndsAccess ==
  ASSUME MembersWhole, NEW u, NEW y, RowStep(u, y), ME!Credentials' \subseteq ME!Credentials
  PROVE  ME!EndsAccess
<1>1. u \in User /\ users'[u] = y /\ \A v \in User \ {u} : users'[v] = users[v] BY RowKeepsTables DEF RowStep
<1>2. users[u].version \in Int /\ y.version \in Int /\ y \in UserRow /\ users[u] \in UserRow
  BY <1>1, RowOf DEF MembersWhole, RowStep, UserRow, Versions
<1>3. ASSUME NEW c \in ME!Credentials, c.user = u, y.state = "member", y.active, c.version = y.version
      PROVE  SameAccess(users[u], y) /\ users[u].version = y.version
  <2>1. c.version \in Int /\ users[u].state # "none" /\ (ME!Exists(u) => c.version <= users[u].version)
    BY <1>3, CredentialsBelong
  <2>2. users[u].state # "removed" /\ users[u].version <= y.version
        /\ (SameAccess(users[u], y) \/ users[u].version < y.version) BY <1>3 DEF RowStep
  <2>3. ME!Exists(u) BY <1>2, <2>1, <2>2 DEF ME!Exists, UserRow
  <2> QED BY <1>2, <1>3, <2>1, <2>2, <2>3
<1>4. \A c \in ME!Credentials' : ME!Accepts(c)' => ME!Accepts(c)
  <2> SUFFICES ASSUME NEW c \in ME!Credentials', ME!Accepts(c)' PROVE ME!Accepts(c) OBVIOUS
  <2>1. c \in ME!Credentials /\ c.user \in User BY CredentialsBelong
  <2>2. users'[c.user].state = "member" /\ users'[c.user].active /\ users'[c.user].version = c.version
    BY DEF ME!Accepts, ME!Usable
  <2>3. CASE c.user = u
    <3>1. SameAccess(users[u], y) /\ users[u].version = y.version BY <1>1, <1>3, <2>1, <2>2, <2>3
    <3> QED BY <1>1, <2>2, <2>3, <3>1 DEF SameAccess, ME!Accepts, ME!Usable
  <2>4. CASE c.user # u BY <1>1, <2>1, <2>2, <2>4 DEF ME!Accepts, ME!Usable
  <2> QED BY <2>3, <2>4
<1>5. ASSUME NEW v \in User
      PROVE  \/ users'[v].state = users[v].state /\ users'[v].active = users[v].active
                  /\ users'[v].role = users[v].role /\ (users[v].reset # "none" => users'[v].reset # "none")
             \/ \A c \in ME!Credentials' : c.user = v => ~ ME!Accepts(c)'
  <2>1. CASE v # u \/ SameAccess(users[u], y) BY <1>1, <2>1 DEF SameAccess
  <2>2. CASE v = u /\ ~ SameAccess(users[u], y)
    <3> SUFFICES ASSUME NEW c \in ME!Credentials', c.user = u, ME!Accepts(c)' PROVE FALSE BY <2>2
    <3>1. y.state = "member" /\ y.active /\ y.version = c.version BY <1>1 DEF ME!Accepts, ME!Usable
    <3> QED BY <1>3, <2>2, <3>1
  <2> QED BY <2>1, <2>2
<1> QED BY <1>4, <1>5 DEF ME!EndsAccess

\* Where no member changes, only a sign-in gives something new to sign in with.
LEMMA SignInEndsNothing ==
  ASSUME UNCHANGED users,
         \A c \in ME!Credentials' : c \in ME!Credentials \/ (signin' # signin /\ signin'.stage = "token")
  PROVE  ME!EndsAccess
<1>1. \A c \in ME!Credentials' : ME!Accepts(c)' = ME!Accepts(c) BY DEF ME!Accepts, ME!Usable
<1> QED BY <1>1 DEF ME!EndsAccess

\* Where each new secret is of somebody's sign-in and each sign-in goes on or begins, nothing else
\* is new to sign in with.
LEMMA FewNewCredentials ==
  ASSUME MembersWhole,
         \A s \in Secret : ME!Stored(s)' =>
           [user |-> sessions'[s].user, version |-> sessions'[s].version] \in ME!Credentials,
         signin' = ME!NoSignin \/ (signin' # signin /\ signin'.stage = "token")
           \/ [user |-> signin'.user, version |-> signin'.version] \in ME!Credentials,
         rotation' = ME!NoRotation
           \/ [user |-> rotation'.user, version |-> rotation'.version] \in ME!Credentials
  PROVE  \A c \in ME!Credentials' : c \in ME!Credentials \/ (signin' # signin /\ signin'.stage = "token")
<1> SUFFICES ASSUME NEW c \in ME!Credentials'
             PROVE  c \in ME!Credentials \/ (signin' # signin /\ signin'.stage = "token") OBVIOUS
<1>1. \/ \E s \in {t \in Secret : ME!Stored(t)'} : c = [user |-> sessions'[s].user, version |-> sessions'[s].version]
      \/ signin' # ME!NoSignin /\ c = [user |-> signin'.user, version |-> signin'.version]
      \/ rotation' # ME!NoRotation /\ c = [user |-> rotation'.user, version |-> rotation'.version]
  BY DEF ME!Credentials, ME!NoSignin, ME!NoRotation
<1> QED BY <1>1

\* What is stored, under way or held can be signed in with.
LEMMA CredentialsThere ==
  /\ \A s \in Secret : ME!Stored(s) =>
       [user |-> sessions[s].user, version |-> sessions[s].version] \in ME!Credentials
  /\ signin # ME!NoSignin => [user |-> signin.user, version |-> signin.version] \in ME!Credentials
  /\ rotation # ME!NoRotation => [user |-> rotation.user, version |-> rotation.version] \in ME!Credentials
BY DEF ME!Credentials

\* A step that changes neither what is remembered nor what is under way.
LEMMA StoredAsBefore ==
  ASSUME UNCHANGED sessions
  PROVE  \A s \in Secret : ME!Stored(s)' => ME!Stored(s) /\ sessions'[s].user = sessions[s].user
                                            /\ sessions'[s].version = sessions[s].version
BY DEF ME!Stored, ME!Unissued, ME!Deleted

\* Access that ends is not had again, whatever step is next.
LEMMA AccessEndsStep ==
  ASSUME MembersWhole, ME!Next
  PROVE  ME!EndsAccess
<1>0. MemberTypes BY DEF MembersWhole
<1>1. CASE MemberEdit
  <2>1. (\E u, y : RowStep(u, y)) \/ UNCHANGED users BY <1>1, EditsChange DEF RowChanges
  <2>2. ME!Credentials' \subseteq ME!Credentials
    BY <1>1, EditsChange, NoNewCredentials, StoredAsBefore DEF ME!SignIns
  <2> QED BY <2>1, <2>2, RowEndsAccess, SignInEndsNothing
<1>2. CASE ME!Remove
  <2>1. requests' \in 0 .. MaxRequests BY <1>2, RequestCounted DEF ME!Remove
  <2>2. PICK u : RowStep(u, Gone) BY <1>2, <2>1, RemoveKeepsWhole
  <2>3. \A s \in Secret : sessions'[s] \in {sessions[s], ME!Deleted} BY <1>2, <2>1, RemoveKeepsWhole
  <2>4. \A s \in Secret : ME!Stored(s)' => ME!Stored(s) /\ sessions'[s] = sessions[s]
    BY <2>3 DEF ME!Stored, ME!Deleted, ME!Unissued
  <2>5. ME!Credentials' \subseteq ME!Credentials BY <1>2, <2>4, NoNewCredentials DEF ME!Remove
  <2> QED BY <2>2, <2>5, RowEndsAccess
<1>3. CASE ME!ChangeRole
  <2>1. users' = users /\ ME!SignIns BY <1>3 DEF ME!ChangeRole, ME!CommitKeepingAManager
  <2>2. ME!Credentials' \subseteq ME!Credentials BY <2>1, NoNewCredentials, StoredAsBefore DEF ME!SignIns
  <2> QED BY <2>1, <2>2, SignInEndsNothing
<1>4. CASE (\E u \in User : ME!Login(u)) \/ ME!Check
  <2>1. UNCHANGED <<users, sessions, rotation>> BY <1>4 DEF ME!Login, ME!Check, ME!Membership
  <2>2. signin' = ME!NoSignin \/ (signin' # signin /\ signin'.stage = "token")
          \/ [user |-> signin'.user, version |-> signin'.version] \in ME!Credentials
    <3>1. ASSUME NEW u \in User, ME!Login(u)
          PROVE  (signin' # signin /\ signin'.stage = "token")
                   \/ [user |-> signin'.user, version |-> signin'.version] \in ME!Credentials
      <4>1. signin'.stage = "token" BY <3>1 DEF ME!Login
      <4>2. signin' # ME!NoSignin BY <4>1 DEF ME!NoSignin
      <4> QED BY <4>1, <4>2, CredentialsThere
    <3>2. CASE ME!Check
      <4>1. signin \in [stage : {"token", "checked"}, user : User, version : Versions] /\ signin # ME!NoSignin
        BY <1>0, <3>2 DEF ME!Check, MemberTypes, ME!NoSignin
      <4>2. signin' = ME!NoSignin \/ signin' = [signin EXCEPT !.stage = "checked"] BY <3>2 DEF ME!Check
      <4>3. signin' = [signin EXCEPT !.stage = "checked"] =>
              signin'.user = signin.user /\ signin'.version = signin.version BY <4>1
      <4> QED BY <4>1, <4>2, <4>3, CredentialsThere
    <3> QED BY <1>4, <3>1, <3>2
  <2> QED BY <2>1, <2>2, FewNewCredentials, CredentialsThere, StoredAsBefore, SignInEndsNothing
           DEF ME!NoRotation
<1>5. CASE \E s \in Secret : ME!Refresh(s) \/ ME!Revoke(s)
  <2>1. PICK s \in Secret : ME!Refresh(s) \/ ME!Revoke(s) BY <1>5
  <2>2. UNCHANGED <<users, sessions>> /\ ME!Stored(s) BY <2>1 DEF ME!Refresh, ME!Revoke, ME!Membership
  <2>c. [user |-> sessions[s].user, version |-> sessions[s].version] \in ME!Credentials
    BY <2>2, CredentialsThere
  <2>3. signin' = signin \/ signin' = [stage |-> "token", user |-> sessions[s].user, version |-> sessions[s].version]
    BY <2>1 DEF ME!Refresh, ME!Revoke
  <2>4. \/ rotation' = rotation
        \/ rotation' = [secret |-> s, user |-> sessions[s].user, version |-> sessions[s].version]
    BY <2>1 DEF ME!Refresh, ME!Revoke
  <2>5. signin' = ME!NoSignin \/ (signin' # signin /\ signin'.stage = "token")
          \/ [user |-> signin'.user, version |-> signin'.version] \in ME!Credentials
    BY <2>c, <2>3, CredentialsThere
  <2>6. rotation' = ME!NoRotation \/ [user |-> rotation'.user, version |-> rotation'.version] \in ME!Credentials
    BY <2>c, <2>4, CredentialsThere
  <2> QED BY <2>2, <2>5, <2>6, FewNewCredentials, CredentialsThere, StoredAsBefore, SignInEndsNothing
<1>6. CASE ME!Delete \/ \E s \in Secret : ME!Age(s)
  <2>1. requests' \in 0 .. MaxRequests BY <1>6, RequestCounted DEF ME!Delete, ME!Age
  <2>2. UNCHANGED <<users, signin, rotation>> BY <1>6 DEF ME!Delete, ME!Age, ME!Membership
  <2>3. NoneNew BY <1>6, <2>1, AgeForgets
  <2> QED BY <1>0, <2>2, <2>3, NoneNewStored, NoNewCredentials, SignInEndsNothing
<1>7. CASE ME!Create
  <2>1. UNCHANGED <<users, rotation>> /\ signin' = ME!NoSignin /\ signin.stage = "checked"
    BY <1>7 DEF ME!Create, ME!Membership
  <2>2. signin # ME!NoSignin BY <2>1 DEF ME!NoSignin
  <2>3. \A s \in Secret : ME!Stored(s)' =>
           [user |-> sessions'[s].user, version |-> sessions'[s].version] \in ME!Credentials
    <3> SUFFICES ASSUME NEW s \in Secret, ME!Stored(s)'
                 PROVE  [user |-> sessions'[s].user, version |-> sessions'[s].version] \in ME!Credentials
      OBVIOUS
    <3>1. CASE sessions'[s] = sessions[s] BY <3>1, CredentialsThere DEF ME!Stored, ME!Unissued, ME!Deleted
    <3>2. CASE sessions'[s] # sessions[s]
      <4>0. DOMAIN sessions = Secret BY <1>0 DEF MemberTypes
      <4>1. sessions'[s] = ME!Issue(s, signin.user, signin.version, s) BY <1>7, <3>2, <4>0 DEF ME!Create
      <4> QED BY <2>2, <4>1, CredentialsThere DEF ME!Issue
    <3> QED BY <3>1, <3>2
  <2>4. rotation' = ME!NoRotation \/ [user |-> rotation'.user, version |-> rotation'.version] \in ME!Credentials
    BY <2>1, CredentialsThere
  <2> QED BY <2>1, <2>3, <2>4, FewNewCredentials, SignInEndsNothing
<1>8. CASE ME!Rotate
  <2>1. UNCHANGED users /\ rotation' = ME!NoRotation /\ rotation # ME!NoRotation
    BY <1>8 DEF ME!Rotate, ME!Membership
  <2>2. rotation.secret \in Secret /\ ME!Stored(rotation.secret)
        /\ sessions[rotation.secret].user = rotation.user /\ sessions[rotation.secret].version = rotation.version
        /\ sessions[rotation.secret] \in SessionRow
    BY <1>0, <2>1, StoredIsRow DEF MembersWhole, MemberTypes, RotationHolds
  <2>c. [user |-> rotation.user, version |-> rotation.version] \in ME!Credentials BY <2>1, CredentialsThere
  <2>3. \A s \in Secret : ME!Stored(s)' =>
           [user |-> sessions'[s].user, version |-> sessions'[s].version] \in ME!Credentials
    <3> SUFFICES ASSUME NEW s \in Secret, ME!Stored(s)'
                 PROVE  [user |-> sessions'[s].user, version |-> sessions'[s].version] \in ME!Credentials
      OBVIOUS
    <3>1. CASE sessions'[s] = sessions[s] BY <3>1, CredentialsThere DEF ME!Stored, ME!Unissued, ME!Deleted
    <3>2. CASE sessions'[s] = [sessions[rotation.secret] EXCEPT !.replaced = "recent"]
      <4>1. sessions'[s].user = rotation.user /\ sessions'[s].version = rotation.version
        BY <2>2, <3>2 DEF SessionRow
      <4> QED BY <2>c, <4>1
    <3>3. CASE \E family : sessions'[s] = ME!Issue(s, rotation.user, rotation.version, family)
      <4>1. sessions'[s].user = rotation.user /\ sessions'[s].version = rotation.version BY <3>3 DEF ME!Issue
      <4> QED BY <2>c, <4>1
    <3>4. CASE \E o \in Secret :
                 sessions' = [sessions EXCEPT
                   ![rotation.secret] = [@ EXCEPT !.replaced = "recent"],
                   ![o] = ME!Issue(o, rotation.user, rotation.version, sessions[rotation.secret].family)]
      <4>1. PICK o \in Secret :
                 sessions' = [sessions EXCEPT
                   ![rotation.secret] = [@ EXCEPT !.replaced = "recent"],
                   ![o] = ME!Issue(o, rotation.user, rotation.version, sessions[rotation.secret].family)]
        BY <3>4
      <4>2. DOMAIN sessions = Secret BY <1>0 DEF MemberTypes
      <4>3. sessions'[s] \in {sessions[s], [sessions[rotation.secret] EXCEPT !.replaced = "recent"],
                              ME!Issue(o, rotation.user, rotation.version, sessions[rotation.secret].family)}
            /\ (s # o => sessions'[s] \in {sessions[s], [sessions[rotation.secret] EXCEPT !.replaced = "recent"]})
        BY <2>2, <4>1, <4>2
      <4> QED BY <3>1, <3>2, <3>3, <4>3
    <3> QED BY <1>8, <3>1, <3>4 DEF ME!Rotate
  <2>4. signin' = ME!NoSignin \/ (signin' # signin /\ signin'.stage = "token")
          \/ [user |-> signin'.user, version |-> signin'.version] \in ME!Credentials
    <3>1. signin' = signin \/ signin' = [stage |-> "token", user |-> rotation.user, version |-> rotation.version]
      BY <1>8 DEF ME!Rotate
    <3> QED BY <2>c, <3>1, CredentialsThere
  <2> QED BY <2>1, <2>3, <2>4, FewNewCredentials, SignInEndsNothing
<1> QED BY <1>1, <1>2, <1>3, <1>4, <1>5, <1>6, <1>7, <1>8 DEF ME!Next, MemberEdit

(* The catalogue.                                                          *)

\* What an editor may propose instead of a definition: another document, or an edit of the rules.
Proposes(def, old) ==
  \/ \E document \in Documents : def = CA!Project(document, old)
  \/ \E edited \in CA!RuleEdits(CA!Project(old.streams, old)) : def = CA!Materialized(edited)

\* It has what a definition has.
Shape(def) ==
  def = [streams |-> def.streams, policies |-> def.policies, bindings |-> def.bindings,
         rules |-> def.rules, clock |-> def.clock, registered |-> def.registered]

\* Each rule has a scope, and admits nothing that is still to come.
RulesInTime(def) ==
  /\ def.clock \in Nat
  /\ \A k \in DOMAIN def.rules :
       /\ k \in RuleScopes \cup {FirstCatalogue.scope} \/ k.kind = "reading"
       /\ def.rules[k].admitted \in Int /\ def.rules[k].admitted <= def.clock

\* Each reading is bound to the entity of its device.
Bound(def) ==
  /\ def.bindings = [id \in DOMAIN def.streams |-> def.bindings[id]]
  /\ \A id \in DOMAIN def.streams : def.bindings[id].device = def.streams[id].device

\* A definition that has been written.
Definition(def) ==
  Shape(def) /\ RulesInTime(def) /\ Bound(def) /\ def = CA!Materialized(def)

\* A monitor and a reservation have the topics of what they read.
TopicsRead ==
  /\ \A m \in Monitor : monitors[m].state = "running" => \A x \in monitors[m].reads : x[1] \in monitors[m].topics
  /\ \A x \in reserved.reads : x[1] \in reserved.topics

\* What waits for monitors to stop was proposed of the definition that is there, unless a revision
\* has changed since.
WaitsInOrder ==
  \A e \in Editor :
    /\ {"phase", "proposed", "guard", "affected"} \subseteq DOMAIN edit[e]
    /\ edit[e].phase = "pausing" =>
         /\ edit[e].guard \in Int \X Int
         /\ edit[e].guard[1] <= written.revision /\ edit[e].guard[2] <= runtime.revision
         /\ edit[e].guard = CA!Now => Proposes(edit[e].proposed, runtime.def)
         /\ edit[e].affected \subseteq Monitor

\* The inductive invariant of the catalogue.
CatalogueWhole ==
  /\ written.revision \in Int /\ runtime.revision \in Int /\ runtime.generation \in Int
  /\ Definition(runtime.def) /\ CA!RowsAgree /\ CA!MonitorsFed /\ TopicsRead
  /\ DOMAIN edit = Editor /\ DOMAIN monitors = Monitor
  /\ \A m \in Monitor : {"state", "topics", "reads"} \subseteq DOMAIN monitors[m]
  /\ WaitsInOrder

\* A definition with other policies is one with the rest as it was.
LEMMA OtherPolicies ==
  ASSUME NEW def, Shape(def), NEW v
  PROVE  /\ Shape([def EXCEPT !.policies = v])
         /\ [def EXCEPT !.policies = v] =
              [streams |-> def.streams, policies |-> v, bindings |-> def.bindings,
               rules |-> def.rules, clock |-> def.clock, registered |-> def.registered]
<1> DEFINE r == [streams |-> def.streams, policies |-> v, bindings |-> def.bindings,
                 rules |-> def.rules, clock |-> def.clock, registered |-> def.registered]
<1>1. def = [streams |-> def.streams, policies |-> def.policies, bindings |-> def.bindings,
             rules |-> def.rules, clock |-> def.clock, registered |-> def.registered] BY DEF Shape
<1>2. [def EXCEPT !.policies = v] = r BY <1>1
<1>3. Shape(r) BY DEF Shape
<1> QED BY <1>2, <1>3

\* Likewise one with other rules.
LEMMA OtherRules ==
  ASSUME NEW def, Shape(def), NEW v
  PROVE  /\ Shape([def EXCEPT !.rules = v])
         /\ [def EXCEPT !.rules = v] =
              [streams |-> def.streams, policies |-> def.policies, bindings |-> def.bindings,
               rules |-> v, clock |-> def.clock, registered |-> def.registered]
<1> DEFINE r == [streams |-> def.streams, policies |-> def.policies, bindings |-> def.bindings,
                 rules |-> v, clock |-> def.clock, registered |-> def.registered]
<1>1. def = [streams |-> def.streams, policies |-> def.policies, bindings |-> def.bindings,
             rules |-> def.rules, clock |-> def.clock, registered |-> def.registered] BY DEF Shape
<1>2. [def EXCEPT !.rules = v] = r BY <1>1
<1>3. Shape(r) BY DEF Shape
<1> QED BY <1>2, <1>3

\* What a policy comes from are the readings, the rules and the admissions only.
LEMMA ResolvedAlike ==
  ASSUME NEW def, NEW other, other.streams = def.streams, other.rules = def.rules,
         other.registered = def.registered, NEW id
  PROVE  CA!Resolve(other, id) = CA!Resolve(def, id)
<1>1. CA!Own(other, id) = CA!Own(def, id) /\ CA!Parents(other, id) = CA!Parents(def, id)
  BY DEF CA!Own, CA!Parents
<1>2. CA!Nearest(other, id) = CA!Nearest(def, id) BY <1>1, Zenon DEF CA!Nearest
<1>3. \A rule : CA!Admitted(other, id, rule) = CA!Admitted(def, id, rule) BY <1>1 DEF CA!Admitted
<1> HIDE DEF CA!Admitted
<1> QED BY <1>1, <1>2, <1>3 DEF CA!Resolve

\* Policies that follow from the rules follow from them still.
LEMMA MaterializedOnce ==
  ASSUME NEW def, Shape(def)
  PROVE  /\ CA!Materialized(def) =
              [streams |-> def.streams, policies |-> [id \in DOMAIN def.streams |-> CA!Resolve(def, id).policy],
               bindings |-> def.bindings, rules |-> def.rules, clock |-> def.clock,
               registered |-> def.registered]
         /\ CA!Materialized(CA!Materialized(def)) = CA!Materialized(def)
         /\ Shape(CA!Materialized(def))
<1> DEFINE policies == [id \in DOMAIN def.streams |-> CA!Resolve(def, id).policy]
           m == CA!Materialized(def)
<1>1. /\ Shape(m) /\ m = [streams |-> def.streams, policies |-> policies, bindings |-> def.bindings,
                          rules |-> def.rules, clock |-> def.clock, registered |-> def.registered]
  BY OtherPolicies DEF CA!Materialized
<1> HIDE DEF m, policies
<1>2. m.streams = def.streams /\ m.rules = def.rules /\ m.registered = def.registered /\ m.policies = policies
      /\ m.bindings = def.bindings /\ m.clock = def.clock BY <1>1
<1>3. [id \in DOMAIN m.streams |-> CA!Resolve(m, id).policy] = policies BY <1>2, ResolvedAlike DEF policies
<1>4. CA!Materialized(m) = [streams |-> m.streams, policies |-> policies, bindings |-> m.bindings,
                            rules |-> m.rules, clock |-> m.clock, registered |-> m.registered]
  BY <1>1, <1>3, OtherPolicies DEF CA!Materialized
<1>5. CA!Materialized(m) = m BY <1>1, <1>2, <1>4
<1> QED BY <1>1, <1>5 DEF m, policies

\* The rules, the clock and the admissions there are after a new document, and the policies that
\* a definition's rules make.
Kept(document, old) == [k \in CA!RulesKept(document, old) |-> old.rules[k]]
Clocked(document, old) == old.clock + (IF CA!New(document, old) = {} THEN 0 ELSE 1)
Registered(document, old) ==
  [id \in DOMAIN document |->
     IF id \in CA!New(document, old) THEN Clocked(document, old) ELSE old.registered[id]]
Policies(def) == [id \in DOMAIN def.streams |-> CA!Resolve(def, id).policy]

\* What a new document makes of a definition.
LEMMA ProjectedFields ==
  ASSUME NEW document, NEW old
  PROVE  /\ Shape(CA!Project(document, old)) /\ CA!Project(document, old) = CA!Materialized(CA!Project(document, old))
         /\ CA!Project(document, old).streams = document
         /\ CA!Project(document, old).bindings = CA!Bindings(document, old)
         /\ CA!Project(document, old).rules = Kept(document, old)
         /\ CA!Project(document, old).clock = Clocked(document, old)
         /\ CA!Project(document, old).registered = Registered(document, old)
         /\ CA!Project(document, old).policies = Policies(CA!Project(document, old))
<1> DEFINE clocked == Clocked(document, old)
           registered == Registered(document, old)
           bindings == CA!Bindings(document, old)
           rules == Kept(document, old)
           b == [streams |-> document, policies |-> CA!None, bindings |-> bindings,
                 rules |-> rules, clock |-> clocked, registered |-> registered]
           p == CA!Project(document, old)
<1>1. p = CA!Materialized(b) BY Zenon DEF CA!Project, Kept, Clocked, Registered
<1> HIDE DEF clocked, registered, bindings, rules, p
<1>2. Shape(b) /\ b.streams = document /\ b.bindings = bindings /\ b.rules = rules /\ b.clock = clocked
      /\ b.registered = registered BY DEF Shape
<1> HIDE DEF b
<1>3. /\ p = [streams |-> b.streams, policies |-> Policies(b),
              bindings |-> b.bindings, rules |-> b.rules, clock |-> b.clock, registered |-> b.registered]
      /\ CA!Materialized(p) = p /\ Shape(p) BY <1>1, <1>2, MaterializedOnce DEF Policies
<1>4. /\ p.streams = document /\ p.bindings = bindings /\ p.rules = rules /\ p.clock = clocked
      /\ p.registered = registered /\ p.policies = Policies(b) BY <1>2, <1>3
<1>5. \A id : CA!Resolve(p, id) = CA!Resolve(b, id) BY <1>2, <1>4, ResolvedAlike
<1>6. p.policies = Policies(p) BY <1>2, <1>4, <1>5 DEF Policies
<1> QED BY <1>3, <1>4, <1>6 DEF p, clocked, registered, bindings, rules

\* A new document keeps the rules in time, and binds each reading to its device.
LEMMA ProjectIsDefinition ==
  ASSUME NEW document, NEW old, RulesInTime(old)
  PROVE  Definition(CA!Project(document, old))
<1> DEFINE p == CA!Project(document, old)
<1>1. /\ Shape(p) /\ p = CA!Materialized(p) /\ p.streams = document
      /\ p.bindings = CA!Bindings(document, old) /\ p.rules = Kept(document, old)
      /\ p.clock = Clocked(document, old) BY ProjectedFields
<1> HIDE DEF p
<1>2. p.clock \in Nat /\ old.clock <= p.clock /\ old.clock \in Nat BY <1>1 DEF RulesInTime, Clocked
<1>3. DOMAIN p.rules \subseteq DOMAIN old.rules /\ \A k \in DOMAIN p.rules : p.rules[k] = old.rules[k]
  BY <1>1 DEF Kept, CA!RulesKept
<1>4. RulesInTime(p) BY <1>2, <1>3 DEF RulesInTime
<1>5. Bound(p) BY <1>1 DEF Bound, CA!Bindings
<1> QED BY <1>1, <1>4, <1>5 DEF Definition, p

\* An edit of the rules leaves the readings alone, and each new rule admits nothing that is still
\* to come.
Edited(edited, def) ==
  /\ Shape(edited) /\ RulesInTime(edited)
  /\ edited.streams = def.streams /\ edited.bindings = def.bindings
  /\ edited.clock = def.clock /\ edited.registered = def.registered

\* Rules that come and go one by one.
LEMMA RulesReplaced ==
  ASSUME NEW def, Shape(def), RulesInTime(def), NEW rules,
         \A k \in DOMAIN rules :
           \/ k \in DOMAIN def.rules /\ rules[k] = def.rules[k]
           \/ /\ k \in RuleScopes \cup {FirstCatalogue.scope} \/ k.kind = "reading"
              /\ rules[k].admitted \in Int /\ rules[k].admitted <= def.clock
  PROVE  Edited([def EXCEPT !.rules = rules], def)
<1> DEFINE z == [def EXCEPT !.rules = rules]
<1>1. Shape(z) /\ z = [streams |-> def.streams, policies |-> def.policies, bindings |-> def.bindings,
                       rules |-> rules, clock |-> def.clock, registered |-> def.registered] BY OtherRules
<1> HIDE DEF z
<1>2. z.streams = def.streams /\ z.bindings = def.bindings /\ z.rules = rules /\ z.clock = def.clock
      /\ z.registered = def.registered BY <1>1
<1>3. RulesInTime(z) BY <1>2 DEF RulesInTime
<1> QED BY <1>1, <1>2, <1>3 DEF Edited, z

\* A rule that is set.
LEMMA RuleWith ==
  ASSUME NEW def, Shape(def), RulesInTime(def), NEW k, NEW rule,
         k \in RuleScopes \cup {FirstCatalogue.scope} \/ k.kind = "reading",
         rule.admitted \in Int, rule.admitted <= def.clock
  PROVE  Edited(CA!With(def, k, rule), def)
<1> DEFINE rules == [j \in DOMAIN def.rules \cup {k} |-> IF j = k THEN rule ELSE def.rules[j]]
<1>1. DOMAIN rules = DOMAIN def.rules \cup {k} /\ rules[k] = rule
      /\ \A j \in DOMAIN def.rules \ {k} : rules[j] = def.rules[j] OBVIOUS
<1>2. CA!With(def, k, rule) = [def EXCEPT !.rules = rules] BY DEF CA!With
<1> HIDE DEF rules
<1>3. \A j \in DOMAIN rules :
           \/ j \in DOMAIN def.rules /\ rules[j] = def.rules[j]
           \/ /\ j \in RuleScopes \cup {FirstCatalogue.scope} \/ j.kind = "reading"
              /\ rules[j].admitted \in Int /\ rules[j].admitted <= def.clock BY <1>1
<1> QED BY <1>2, <1>3, RulesReplaced

\* A rule that is taken away.
LEMMA RuleWithout ==
  ASSUME NEW def, Shape(def), RulesInTime(def), NEW k
  PROVE  Edited(CA!Without(def, k), def)
<1> DEFINE rules == [j \in DOMAIN def.rules \ {k} |-> def.rules[j]]
<1>1. \A j \in DOMAIN rules : j \in DOMAIN def.rules /\ rules[j] = def.rules[j] OBVIOUS
<1>2. CA!Without(def, k) = [def EXCEPT !.rules = rules] BY DEF CA!Without
<1> HIDE DEF rules
<1> QED BY <1>1, <1>2, RulesReplaced

\* A rule that is set admits what there is, or what it did.
LEMMA RuleSet ==
  ASSUME NEW def, Shape(def), RulesInTime(def), NEW k, NEW policy, NEW future,
         k \in RuleScopes \cup {FirstCatalogue.scope} \/ k.kind = "reading"
  PROVE  Edited(CA!SetRule(def, k, policy, future), def)
<1> DEFINE cutoff == IF k \notin DOMAIN def.rules \/ (def.rules[k].future /\ ~future) THEN def.clock
                     ELSE def.rules[k].admitted
           rule == CA!Rule(policy, future, cutoff)
<1>1. cutoff \in Int /\ cutoff <= def.clock BY DEF RulesInTime
<1>2. rule.admitted = cutoff BY DEF CA!Rule
<1>3. CA!SetRule(def, k, policy, future) = CA!With(def, k, rule) BY Zenon DEF CA!SetRule
<1> HIDE DEF rule, cutoff
<1> QED BY <1>1, <1>2, <1>3, RuleWith

\* Readings that a member admits.
LEMMA RulesIncluded ==
  ASSUME NEW def, Shape(def), RulesInTime(def), NEW k
  PROVE  Edited(CA!Include(def, k), def)
<1> DEFINE below == IF k.kind = "reading" THEN {k.reading}
                    ELSE {id \in DOMAIN def.streams : CA!Matches(k, def.streams[id])}
           admit == {CA!Own(def, id) : id \in {id \in below : CA!Resolve(def, id).review}}
           rules == [j \in DOMAIN def.rules \cup admit |->
                       IF j \in admit THEN CA!Rule("none", FALSE, 0) ELSE def.rules[j]]
<1>1. CA!Include(def, k) = [def EXCEPT !.rules = rules] BY Zenon DEF CA!Include
<1>2. \A j \in admit : j.kind = "reading" BY DEF CA!Own
<1> HIDE DEF admit
<1>3. CA!Rule("none", FALSE, 0).admitted = 0 BY DEF CA!Rule
<1>4. def.clock \in Nat BY DEF RulesInTime
<1>5. \A j \in DOMAIN rules :
           \/ j \in DOMAIN def.rules /\ rules[j] = def.rules[j]
           \/ /\ j \in RuleScopes \cup {FirstCatalogue.scope} \/ j.kind = "reading"
              /\ rules[j].admitted \in Int /\ rules[j].admitted <= def.clock
  <2>r. \A j \in DOMAIN rules :
          IF j \in admit THEN rules[j] = CA!Rule("none", FALSE, 0)
          ELSE j \in DOMAIN def.rules /\ rules[j] = def.rules[j] OBVIOUS
  <2> HIDE DEF rules
  <2> SUFFICES ASSUME NEW j \in DOMAIN rules
               PROVE  \/ j \in DOMAIN def.rules /\ rules[j] = def.rules[j]
                      \/ /\ j \in RuleScopes \cup {FirstCatalogue.scope} \/ j.kind = "reading"
                         /\ rules[j].admitted \in Int /\ rules[j].admitted <= def.clock OBVIOUS
  <2>1. CASE j \in admit
    <3>1. rules[j] = CA!Rule("none", FALSE, 0) BY <2>1, <2>r
    <3>2. rules[j].admitted = 0 BY <1>3, <3>1
    <3> QED BY <1>2, <1>4, <2>1, <3>2
  <2>2. CASE j \notin admit
    <3>1. j \in DOMAIN def.rules /\ rules[j] = def.rules[j] BY <2>2, <2>r
    <3> QED BY <3>1
  <2> QED BY <2>1, <2>2
<1> HIDE DEF rules
<1> QED BY <1>1, <1>5, RulesReplaced

\* Whatever edit a member makes.
LEMMA EditsAreEdited ==
  ASSUME NEW def, Shape(def), RulesInTime(def), NEW edited \in CA!RuleEdits(def)
  PROVE  Edited(edited, def)
<1> DEFINE Futures(k) == IF k.kind = "reading" THEN {FALSE} ELSE BOOLEAN
           Sets(k) == {CA!SetRule(def, k, c[1], c[2]) : c \in {"on", "off"} \X Futures(k)}
           Restores(k) == {CA!RestoreRule(def, k, CA!Rule(policy, FALSE, 0)) : policy \in {"none", "on"}}
           Of(k) == Sets(k) \cup {CA!Inherit(def, k), CA!Include(def, k)} \cup Restores(k)
<1>a. CA!RuleEdits(def) = UNION {Of(k) : k \in CA!Scoped(def)} BY Zenon DEF CA!RuleEdits
<1>b. \A k : edited \in Sets(k) => \E policy, future : edited = CA!SetRule(def, k, policy, future) OBVIOUS
<1>c. \A k : edited \in Restores(k) =>
        \E policy : edited = CA!RestoreRule(def, k, CA!Rule(policy, FALSE, 0)) OBVIOUS
<1> HIDE DEF Sets, Restores
<1>1. PICK k \in CA!Scoped(def) : edited \in Of(k) BY <1>a
<1>2. k \in RuleScopes BY DEF CA!Scoped
<1>3. def.clock \in Nat BY DEF RulesInTime
<1>5. ASSUME NEW policy PROVE Edited(CA!With(def, k, CA!Rule(policy, FALSE, 0)), def)
  <2> DEFINE rule == CA!Rule(policy, FALSE, 0)
  <2>0. rule.admitted = 0 BY DEF CA!Rule
  <2> HIDE DEF rule
  <2>1. rule.admitted \in Int /\ rule.admitted <= def.clock BY <1>3, <2>0
  <2>2. Edited(CA!With(def, k, rule), def) BY <1>2, <2>1, RuleWith
  <2> QED BY <2>2 DEF rule
<1>6. Edited(CA!Without(def, k), def) BY RuleWithout
<1>7. CASE \E policy, future : edited = CA!SetRule(def, k, policy, future) BY <1>2, <1>7, RuleSet
<1>8. CASE edited = CA!Inherit(def, k) BY <1>5, <1>6, <1>8 DEF CA!Inherit
<1>9. CASE edited = CA!Include(def, k) BY <1>9, RulesIncluded
<1>10. CASE \E policy : edited = CA!RestoreRule(def, k, CA!Rule(policy, FALSE, 0))
  BY <1>5, <1>6, <1>10 DEF CA!RestoreRule
<1> QED BY <1>1, <1>b, <1>c, <1>7, <1>8, <1>9, <1>10

\* What an editor may propose is a definition, of the readings that there are or of a document.
LEMMA ProposalIsDefinition ==
  ASSUME NEW old, Definition(old), NEW def, Proposes(def, old)
  PROVE  /\ Definition(def)
         /\ \/ \E document \in Documents : def = CA!Project(document, old)
            \/ /\ def.streams = old.streams /\ def.bindings = CA!Bindings(old.streams, old)
               /\ \E edited \in CA!RuleEdits(CA!Project(old.streams, old)) : def = CA!Materialized(edited)
<1>1. CASE \E document \in Documents : def = CA!Project(document, old)
  BY <1>1, ProjectIsDefinition DEF Definition
<1>2. ASSUME NEW edited \in CA!RuleEdits(CA!Project(old.streams, old)), def = CA!Materialized(edited)
      PROVE  Definition(def) /\ def.streams = old.streams /\ def.bindings = CA!Bindings(old.streams, old)
  <2> DEFINE p == CA!Project(old.streams, old)
  <2>1. Definition(p) BY ProjectIsDefinition DEF Definition
  <2>2. p.streams = old.streams /\ p.bindings = CA!Bindings(old.streams, old) BY ProjectedFields
  <2>3. edited \in CA!RuleEdits(p) BY <1>2
  <2> HIDE DEF p
  <2>4. Edited(edited, p) BY <2>1, <2>3, EditsAreEdited DEF Definition
  <2>5. /\ CA!Materialized(def) = def /\ Shape(def)
        /\ def.streams = edited.streams /\ def.bindings = edited.bindings /\ def.rules = edited.rules
        /\ def.clock = edited.clock BY <1>2, <2>4, MaterializedOnce DEF Edited
  <2>6. RulesInTime(def) BY <2>4, <2>5 DEF Edited, RulesInTime
  <2>7. Bound(def) BY <2>1, <2>2, <2>4, <2>5 DEF Definition, Bound, Edited
  <2> QED BY <2>2, <2>4, <2>5, <2>6, <2>7 DEF Definition, Edited
<1> QED BY <1>1, <1>2 DEF Proposes

\* The least of some numbers.
LEMMA LeastOf ==
  ASSUME NEW T, T \subseteq Nat, T # {}
  PROVE  \E x \in T : \A y \in T : x <= y
<1> DEFINE R == {p \in Nat \X Nat : p[1] < p[2]}
<1>1. IsWellFoundedOn(R, Nat) BY NatLessThanWellFounded, Zenon DEF OpToRel
<1>2. \A x, y \in Nat : y < x => <<y, x>> \in R OBVIOUS
<1> HIDE DEF R
<1>3. PICK x \in T : \A y \in T : ~ (<<y, x>> \in R) BY <1>1, WFMin
<1>4. \A y \in T : x \in Nat /\ y \in Nat OBVIOUS
<1>5. \A y \in T : ~ (y < x) BY <1>2, <1>3, <1>4
<1>6. \A y \in T : x <= y BY <1>4, <1>5
<1> QED BY <1>6

\* Of the rules above a reading one is the nearest.
LEMMA NearestThere ==
  ASSUME NEW def, RulesInTime(def), NEW id, Len(def.streams[id].topic) \in Nat, CA!Parents(def, id) # {}
  PROVE  CA!Nearest(def, id) \in CA!Parents(def, id)
<1> DEFINE P == CA!Parents(def, id)
           l == Len(def.streams[id].topic)
           T == {l - Len(k.prefix) : k \in P}
<1>1. \A k \in P : /\ k \in RuleScopes \cup {FirstCatalogue.scope}
                   /\ Len(k.prefix) <= l BY DEF CA!Parents, CA!Matches, RulesInTime
<1>2. \A k \in P : Len(k.prefix) \in Nat BY <1>1, AdministrationAssumption DEF CA!CatalogueAssumption
<1>3. CA!Nearest(def, id) = CHOOSE k \in P : \A other \in P : Len(other.prefix) <= Len(k.prefix)
  BY DEF CA!Nearest
<1> HIDE DEF P, l
<1>4. l \in Nat BY DEF l
<1>5. T \subseteq Nat BY <1>1, <1>2, <1>4
<1>6. T # {} BY DEF P
<1>7. PICK x \in T : \A y \in T : x <= y BY <1>5, <1>6, LeastOf
<1>8. PICK k \in P : x = l - Len(k.prefix) OBVIOUS
<1>9. \A other \in P : Len(other.prefix) <= Len(k.prefix)
  <2> SUFFICES ASSUME NEW other \in P PROVE Len(other.prefix) <= Len(k.prefix) OBVIOUS
  <2>1. l - Len(k.prefix) <= l - Len(other.prefix) BY <1>7, <1>8
  <2> QED BY <1>2, <1>4, <2>1
<1> HIDE DEF T
<1>10. CA!Nearest(def, id) \in P BY <1>3, <1>8, <1>9
<1> QED BY <1>10 DEF P

\* There is a binding for each reading.
LEMMA BoundReadings ==
  ASSUME NEW def, Bound(def)
  PROVE  DOMAIN def.bindings = DOMAIN def.streams
BY DEF Bound

\* A new document records nothing new that nobody reviewed, and moves no reading to another entity.
LEMMA ProjectReviewed ==
  ASSUME NEW old, Definition(old), NEW document \in Documents
  PROVE  CA!Reviewed(old, CA!Project(document, old))
<1> DEFINE p == CA!Project(document, old)
<1>1. /\ p.streams = document /\ p.bindings = CA!Bindings(document, old) /\ p.rules = Kept(document, old)
      /\ p.clock = Clocked(document, old) /\ p.registered = Registered(document, old)
      /\ p.policies = Policies(p) BY ProjectedFields
<1>2. RulesInTime(p) BY ProjectIsDefinition DEF Definition
<1> HIDE DEF p
<1>3. ASSUME NEW id \in DOMAIN document, id \in CA!New(document, old), p.policies[id] = "on"
      PROVE  \E k \in DOMAIN p.rules : \/ k = CA!Own(p, id) /\ p.rules[k].policy = "on"
                                       \/ CA!Matches(k, p.streams[id]) /\ p.rules[k].future
  <2>1. CA!Resolve(p, id).policy = "on" BY <1>1, <1>3 DEF Policies
  <2>2. CASE CA!Own(p, id) \in DOMAIN p.rules /\ p.rules[CA!Own(p, id)].policy # "none"
    <3>1. CA!Resolve(p, id).policy = p.rules[CA!Own(p, id)].policy BY <2>2 DEF CA!Resolve
    <3> QED BY <2>1, <2>2, <3>1
  <2>3. CASE ~ (CA!Own(p, id) \in DOMAIN p.rules /\ p.rules[CA!Own(p, id)].policy # "none")
    <3> DEFINE k == CA!Nearest(p, id)
    <3>1. CA!Parents(p, id) # {} /\ CA!Admitted(p, id, p.rules[k]) /\ p.rules[k].policy = "on"
      BY <2>1, <2>3 DEF CA!Resolve
    <3>2. Len(p.streams[id].topic) \in Nat BY <1>1, AdministrationAssumption DEF CA!CatalogueAssumption
    <3>3. k \in CA!Parents(p, id) BY <1>2, <3>1, <3>2, NearestThere
    <3> HIDE DEF k
    <3>4. k \in DOMAIN p.rules /\ CA!Matches(k, p.streams[id]) BY <3>3 DEF CA!Parents
    <3>5. CA!Own(p, id) \notin DOMAIN p.rules
      <4> SUFFICES ASSUME CA!Own(p, id) \in DOMAIN p.rules PROVE FALSE OBVIOUS
      <4> DEFINE own == CA!Own(p, id)
      <4>1. own.kind = "reading" /\ own.reading = id BY DEF CA!Own
      <4>2. own \in CA!RulesKept(document, old) /\ p.rules[own] = old.rules[own] BY <1>1 DEF Kept
      <4> HIDE DEF own
      <4>3. old.rules[own].policy # "none" \/ own.reading \notin CA!New(document, old)
        BY <4>1, <4>2 DEF CA!RulesKept
      <4> QED BY <1>3, <2>3, <4>1, <4>2, <4>3 DEF own
    <3>6. ~ (p.registered[id] <= p.rules[k].admitted)
      <4>1. p.registered[id] = old.clock + 1 BY <1>1, <1>3 DEF Registered, Clocked
      <4>2. k \in DOMAIN old.rules /\ p.rules[k] = old.rules[k] BY <1>1, <3>4 DEF Kept, CA!RulesKept
      <4>3. old.clock \in Nat /\ old.rules[k].admitted \in Int /\ old.rules[k].admitted <= old.clock
        BY <4>2 DEF Definition, RulesInTime
      <4> QED BY <4>1, <4>2, <4>3
    <3>7. p.rules[k].future BY <3>1, <3>5, <3>6 DEF CA!Admitted
    <3> QED BY <3>4, <3>7
  <2> QED BY <2>2, <2>3
<1>4. ASSUME NEW id \in DOMAIN document, id \in DOMAIN old.streams, old.streams[id].device = document[id].device
      PROVE  p.bindings[id] = old.bindings[id]
  <2>1. id \in DOMAIN old.bindings /\ old.bindings[id].device = document[id].device
    BY <1>4, BoundReadings DEF Definition, Bound
  <2> QED BY <1>1, <2>1 DEF CA!Bindings
<1>5. CA!Reviewed(old, p) BY <1>1, <1>3, <1>4 DEF CA!Reviewed
<1> QED BY <1>5 DEF p

\* What is proposed of a definition changes its rules or its readings only as reviewed.
LEMMA ProposalReviewed ==
  ASSUME NEW old, Definition(old), NEW def, Proposes(def, old)
  PROVE  CA!Reviewed(old, def) /\ CA!ChangesApart(old, def)
<1>1. CASE \E document \in Documents : def = CA!Project(document, old)
  <2>1. PICK document \in Documents : def = CA!Project(document, old) BY <1>1
  <2>2. def.rules = Kept(document, old) BY <2>1, ProjectedFields
  <2>3. CA!ChangesApart(old, def) BY <2>2 DEF CA!ChangesApart, Kept, CA!RulesKept
  <2> QED BY <2>1, <2>3, ProjectReviewed
<1>2. CASE def.streams = old.streams BY <1>2 DEF CA!Reviewed, CA!ChangesApart
<1> QED BY <1>1, <1>2, ProposalIsDefinition

\* Two definitions of the same readings bind them alike.
LEMMA BoundAlike ==
  ASSUME NEW old, Definition(old), NEW def, Proposes(def, old), def.streams = old.streams
  PROVE  def.bindings = old.bindings
<1>1. def.bindings = CA!Bindings(old.streams, old)
  <2>1. CASE \E document \in Documents : def = CA!Project(document, old)
    <3>1. PICK document \in Documents : def = CA!Project(document, old) BY <2>1
    <3>2. def.streams = document /\ def.bindings = CA!Bindings(document, old) BY <3>1, ProjectedFields
    <3> QED BY <3>2
  <2> QED BY <2>1, ProposalIsDefinition
<1>2. Definition(def) BY ProposalIsDefinition
<1>3. \A id \in DOMAIN old.streams : def.bindings[id] = old.bindings[id]
  BY <1>1 DEF CA!Bindings, Definition, Bound
<1>4. def.bindings = [id \in DOMAIN old.streams |-> def.bindings[id]]
      /\ old.bindings = [id \in DOMAIN old.streams |-> old.bindings[id]] BY <1>2 DEF Definition, Bound
<1>5. [id \in DOMAIN old.streams |-> def.bindings[id]] = [id \in DOMAIN old.streams |-> old.bindings[id]]
  BY <1>3
<1> QED BY <1>4, <1>5

\* A change that is written makes the two rows agree, and a revision tells of it.
LEMMA WriteTells ==
  ASSUME CatalogueWhole, NEW def, Proposes(def, runtime.def), CA!Write(def)
  PROVE  /\ runtime'.def = def /\ Definition(def) /\ CA!RowsAgree' /\ CA!Revised
         /\ written'.revision \in Int /\ runtime'.revision \in Int /\ runtime'.generation \in Int
         /\ runtime'.def # runtime.def => CA!Now' # CA!Now
<1> DEFINE tells == CA!NewRevision(runtime.def, def)
           begins == CA!Inputs(runtime.def) # CA!Inputs(def)
<1>1. /\ runtime'.def = def
      /\ runtime'.revision = runtime.revision + (IF tells THEN 1 ELSE 0)
      /\ runtime'.generation = runtime.generation + (IF begins THEN 1 ELSE 0) BY DEF CA!Write
<1>2. begins => tells BY DEF CA!NewRevision
<1>m. CA!Metadata(runtime.def) # CA!Metadata(def) => tells BY DEF CA!NewRevision
<1> HIDE DEF tells, begins
<1>3. /\ runtime'.revision \in Int /\ runtime'.generation \in Int /\ runtime'.revision >= runtime.revision
      /\ begins => runtime'.revision > runtime.revision /\ runtime'.generation > runtime.generation
      /\ tells => runtime'.revision > runtime.revision BY <1>1, <1>2 DEF CatalogueWhole
<1>4. Definition(def) BY ProposalIsDefinition DEF CatalogueWhole
<1>5. \/ written' = written /\ written.streams = def.streams /\ written.policies = def.policies
      \/ /\ written'.revision = written.revision + 1
         /\ written'.streams = def.streams /\ written'.policies = def.policies BY DEF CA!Write
<1>6. /\ written'.revision \in Int /\ written'.revision >= written.revision
      /\ written'.streams = def.streams /\ written'.policies = def.policies
      /\ written'.revision = written.revision =>
           written.streams = def.streams /\ written.policies = def.policies BY <1>5 DEF CatalogueWhole
<1>7. CA!RowsAgree'
  <2>1. def = CA!Materialized(def) BY <1>4 DEF Definition
  <2> QED BY <1>1, <1>6, <2>1 DEF CA!RowsAgree
<1>8. ASSUME runtime'.def # runtime.def, written'.revision = written.revision
      PROVE  runtime'.revision > runtime.revision
  <2>1. def.streams = runtime.def.streams /\ def.policies = runtime.def.policies
    BY <1>6, <1>8 DEF CatalogueWhole, CA!RowsAgree
  <2>2. def.bindings = runtime.def.bindings BY <2>1, BoundAlike DEF CatalogueWhole
  <2>3. Shape(def) /\ Shape(runtime.def) BY <1>4 DEF CatalogueWhole, Definition
  <2>4. ~ (def.rules = runtime.def.rules /\ def.registered = runtime.def.registered
           /\ def.clock = runtime.def.clock) BY <1>1, <1>8, <2>1, <2>2, <2>3 DEF Shape
  <2>5. CA!Metadata(runtime.def) # CA!Metadata(def) BY <2>4 DEF CA!Metadata
  <2> QED BY <1>3, <1>m, <2>5
<1>9. CA!Revised BY <1>1, <1>3, <1>6, <1>8 DEF CA!Revised, begins
<1>10. runtime'.def # runtime.def => CA!Now' # CA!Now BY <1>3, <1>6, <1>8 DEF CA!Now, CatalogueWhole
<1> QED BY <1>1, <1>3, <1>4, <1>6, <1>7, <1>9, <1>10

\* What waits does so still, however the rows went on.
LEMMA WaitsStay ==
  ASSUME CatalogueWhole, NEW e \in Editor, edit'[e] = edit[e],
         written'.revision \in Int, runtime'.revision \in Int,
         written'.revision >= written.revision, runtime'.revision >= runtime.revision,
         runtime'.def # runtime.def => CA!Now' # CA!Now
  PROVE  /\ {"phase", "proposed", "guard", "affected"} \subseteq DOMAIN edit'[e]
         /\ edit'[e].phase = "pausing" =>
              /\ edit'[e].guard \in Int \X Int
              /\ edit'[e].guard[1] <= written'.revision /\ edit'[e].guard[2] <= runtime'.revision
              /\ edit'[e].guard = CA!Now' => Proposes(edit'[e].proposed, runtime'.def)
              /\ edit'[e].affected \subseteq Monitor
<1>1. {"phase", "proposed", "guard", "affected"} \subseteq DOMAIN edit[e] BY DEF CatalogueWhole, WaitsInOrder
<1>2. ASSUME edit[e].phase = "pausing"
      PROVE  /\ edit[e].guard \in Int \X Int
             /\ edit[e].guard[1] <= written'.revision /\ edit[e].guard[2] <= runtime'.revision
             /\ edit[e].guard = CA!Now' => Proposes(edit[e].proposed, runtime'.def)
             /\ edit[e].affected \subseteq Monitor
  <2> DEFINE g == edit[e].guard
  <2>1. /\ g \in Int \X Int /\ g[1] <= written.revision /\ g[2] <= runtime.revision
        /\ g = CA!Now => Proposes(edit[e].proposed, runtime.def)
        /\ edit[e].affected \subseteq Monitor BY <1>2 DEF CatalogueWhole, WaitsInOrder
  <2> HIDE DEF g
  <2>2. g[1] \in Int /\ g[2] \in Int BY <2>1
  <2>3. written.revision \in Int /\ runtime.revision \in Int BY DEF CatalogueWhole
  <2>4. g[1] <= written'.revision /\ g[2] <= runtime'.revision BY <2>1, <2>2, <2>3
  <2>5. ASSUME g = CA!Now' PROVE Proposes(edit[e].proposed, runtime'.def)
    <3>1. g[1] = written'.revision /\ g[2] = runtime'.revision BY <2>5 DEF CA!Now
    <3>2. written'.revision = written.revision /\ runtime'.revision = runtime.revision
      BY <2>1, <2>2, <2>3, <3>1
    <3>3. CA!Now' = CA!Now BY <3>2 DEF CA!Now
    <3>4. runtime'.def = runtime.def BY <3>3
    <3> QED BY <2>1, <2>5, <3>3, <3>4
  <2> QED BY <2>1, <2>4, <2>5 DEF g
<1> QED BY <1>1, <1>2

\* What no running monitor and no reservation is affected by changes nothing that they read.
LEMMA WriteFeeds ==
  ASSUME CatalogueWhole, NEW def, runtime'.def = def, ~ CA!Reserved(def),
         \A m \in Monitor : monitors[m].state = "running" => m \notin CA!Affected(def),
         UNCHANGED <<monitors, reserved>>
  PROVE  CA!MonitorsFed'
<1> DEFINE before == CA!Inputs(runtime.def)
           after == CA!Inputs(def)
           changed == CA!ChangedInputs(runtime.def, def)
<1>1. \A x \in before : x[1] \notin changed => x \in after BY DEF CA!ChangedInputs
<1>2. \A m \in Monitor : monitors[m].state = "running" => monitors[m].topics \cap changed = {}
  BY DEF CA!Affected, CA!Claims
<1>3. reserved.topics \cap changed = {} BY DEF CA!Reserved
<1>4. after = CA!Inputs(runtime.def)' BY DEF CA!Inputs, CA!Selected, CA!Signature, CA!Accepted, CA!Input
<1>5. /\ \A m \in Monitor : monitors[m].state = "running" => monitors[m].reads \subseteq before
      /\ reserved.reads \subseteq before BY DEF CatalogueWhole, CA!MonitorsFed
<1> HIDE DEF before, after, changed
<1>6. \A m \in Monitor : monitors[m].state = "running" => monitors[m].reads \subseteq after
  BY <1>1, <1>2, <1>5 DEF CatalogueWhole, TopicsRead
<1>7. reserved.reads \subseteq after BY <1>1, <1>3, <1>5 DEF CatalogueWhole, TopicsRead
<1> QED BY <1>4, <1>6, <1>7 DEF CA!MonitorsFed

\* What a step of the catalogue does to the invariant, and what it promises of the step.
CatalogueStep ==
  /\ CatalogueWhole' /\ CA!Revised
  /\ CA!Reviewed(runtime.def, runtime'.def) /\ CA!ChangesApart(runtime.def, runtime'.def)

\* A change that is written.
LEMMA WriteKeeps ==
  ASSUME CatalogueWhole, NEW def, Proposes(def, runtime.def), CA!Write(def), ~ CA!Reserved(def),
         \A m \in Monitor : monitors[m].state = "running" => m \notin CA!Affected(def),
         UNCHANGED <<monitors, reserved>>, DOMAIN edit' = Editor,
         \A e \in Editor : edit'[e] = edit[e] \/ edit'[e] = CA!NoEdit
  PROVE  CatalogueStep
<1>1. /\ runtime'.def = def /\ Definition(def) /\ CA!RowsAgree' /\ CA!Revised
      /\ written'.revision \in Int /\ runtime'.revision \in Int /\ runtime'.generation \in Int
      /\ runtime'.def # runtime.def => CA!Now' # CA!Now BY WriteTells
<1>2. written'.revision >= written.revision /\ runtime'.revision >= runtime.revision BY <1>1 DEF CA!Revised
<1>3. CA!MonitorsFed' BY <1>1, WriteFeeds
<1>4. TopicsRead' /\ \A m \in Monitor : {"state", "topics", "reads"} \subseteq DOMAIN monitors'[m]
  BY DEF CatalogueWhole, TopicsRead
<1>5. WaitsInOrder'
  <2> SUFFICES ASSUME NEW e \in Editor
               PROVE  /\ {"phase", "proposed", "guard", "affected"} \subseteq DOMAIN edit'[e]
                      /\ edit'[e].phase = "pausing" =>
                           /\ edit'[e].guard \in Int \X Int
                           /\ edit'[e].guard[1] <= written'.revision /\ edit'[e].guard[2] <= runtime'.revision
                           /\ edit'[e].guard = CA!Now' => Proposes(edit'[e].proposed, runtime'.def)
                           /\ edit'[e].affected \subseteq Monitor BY DEF WaitsInOrder
  <2>1. CASE edit'[e] = edit[e] BY <1>1, <1>2, <2>1, WaitsStay
  <2>2. CASE edit'[e] = CA!NoEdit BY <2>2 DEF CA!NoEdit
  <2> QED BY <2>1, <2>2
<1>6. CatalogueWhole' BY <1>1, <1>3, <1>4, <1>5 DEF CatalogueWhole
<1>7. CA!Reviewed(runtime.def, def) /\ CA!ChangesApart(runtime.def, def)
  BY ProposalReviewed DEF CatalogueWhole
<1> QED BY <1>1, <1>6, <1>7 DEF CatalogueStep

\* Where the rows stay as they are, nothing is to be told.
LEMMA RowsStay ==
  ASSUME CatalogueWhole, UNCHANGED <<written, runtime>>
  PROVE  /\ CA!Revised /\ CA!Reviewed(runtime.def, runtime'.def) /\ CA!ChangesApart(runtime.def, runtime'.def)
         /\ Definition(runtime'.def) /\ CA!RowsAgree'
         /\ CA!Inputs(runtime.def)' = CA!Inputs(runtime.def) /\ CA!Now' = CA!Now
<1>1. CA!Inputs(runtime.def)' = CA!Inputs(runtime.def)
  BY DEF CA!Inputs, CA!Selected, CA!Signature, CA!Accepted, CA!Input
<1>2. CA!Now' = CA!Now BY DEF CA!Now
<1>3. CA!RowsAgree' BY DEF CatalogueWhole, CA!RowsAgree, Definition
<1> QED BY <1>1, <1>2, <1>3 DEF CatalogueWhole, CA!Revised, CA!Reviewed, CA!ChangesApart

\* Where the rows stay, the rest of the invariant is what is left to keep.
LEMMA RowsStayKeep ==
  ASSUME CatalogueWhole, UNCHANGED <<written, runtime>>, CA!MonitorsFed', TopicsRead',
         DOMAIN edit' = Editor, DOMAIN monitors' = Monitor,
         \A m \in Monitor : {"state", "topics", "reads"} \subseteq DOMAIN monitors'[m],
         \A e \in Editor :
           \/ edit'[e] = edit[e] \/ edit'[e] = CA!NoEdit
           \/ \E def : /\ Proposes(def, runtime.def)
                       /\ edit'[e] = [phase |-> "pausing", proposed |-> def, guard |-> CA!Now,
                                      affected |-> CA!Affected(def)]
  PROVE  CatalogueStep
<1>1. WaitsInOrder'
  <2> SUFFICES ASSUME NEW e \in Editor
               PROVE  /\ {"phase", "proposed", "guard", "affected"} \subseteq DOMAIN edit'[e]
                      /\ edit'[e].phase = "pausing" =>
                           /\ edit'[e].guard \in Int \X Int
                           /\ edit'[e].guard[1] <= written'.revision /\ edit'[e].guard[2] <= runtime'.revision
                           /\ edit'[e].guard = CA!Now' => Proposes(edit'[e].proposed, runtime'.def)
                           /\ edit'[e].affected \subseteq Monitor BY DEF WaitsInOrder
  <2>1. CASE edit'[e] = edit[e]
    <3>1. written'.revision \in Int /\ runtime'.revision \in Int
          /\ written'.revision >= written.revision /\ runtime'.revision >= runtime.revision
      BY DEF CatalogueWhole
    <3> QED BY <2>1, <3>1, WaitsStay
  <2>2. CASE edit'[e] = CA!NoEdit BY <2>2 DEF CA!NoEdit
  <2>3. ASSUME NEW def, Proposes(def, runtime.def),
               edit'[e] = [phase |-> "pausing", proposed |-> def, guard |-> CA!Now,
                           affected |-> CA!Affected(def)]
        PROVE  /\ {"phase", "proposed", "guard", "affected"} \subseteq DOMAIN edit'[e]
               /\ edit'[e].guard \in Int \X Int
               /\ edit'[e].guard[1] <= written'.revision /\ edit'[e].guard[2] <= runtime'.revision
               /\ Proposes(edit'[e].proposed, runtime'.def)
               /\ edit'[e].affected \subseteq Monitor
    <3>1. edit'[e].guard = CA!Now /\ edit'[e].proposed = def /\ edit'[e].affected = CA!Affected(def)
          /\ {"phase", "proposed", "guard", "affected"} \subseteq DOMAIN edit'[e] BY <2>3
    <3>2. /\ CA!Now \in Int \X Int /\ CA!Now[1] = written.revision /\ CA!Now[2] = runtime.revision
          /\ written.revision <= written'.revision /\ runtime.revision <= runtime'.revision
      BY DEF CA!Now, CatalogueWhole
    <3>3. CA!Affected(def) \subseteq Monitor BY DEF CA!Affected
    <3> QED BY <2>3, <3>1, <3>2, <3>3
  <2> QED BY <2>1, <2>2, <2>3
<1>2. CatalogueWhole' BY <1>1, RowsStay DEF CatalogueWhole
<1> QED BY <1>2, RowsStay DEF CatalogueStep

\* A change is written at once, or the monitors that it affects are asked to stop.
LEMMA ProtectKeeps ==
  ASSUME CatalogueWhole, NEW e \in Editor, NEW def, Proposes(def, runtime.def), CA!Protect(e, def),
         UNCHANGED reserved
  PROVE  CatalogueStep
<1>1. CASE CA!Affected(def) = {}
  <2>1. CA!Write(def) /\ UNCHANGED <<edit, monitors>> /\ ~ CA!Reserved(def) BY <1>1 DEF CA!Protect
  <2>2. DOMAIN edit' = Editor /\ \A o \in Editor : edit'[o] = edit[o] BY <2>1 DEF CatalogueWhole
  <2> QED BY <1>1, <2>1, <2>2, WriteKeeps
<1>2. CASE CA!Affected(def) # {}
  <2>1. /\ edit' = [edit EXCEPT ![e] = [phase |-> "pausing", proposed |-> def, guard |-> CA!Now,
                                        affected |-> CA!Affected(def)]]
        /\ monitors' = [m \in Monitor |-> IF m \in CA!Affected(def)
                                          THEN [monitors[m] EXCEPT !.state = "stopping"] ELSE monitors[m]]
        /\ UNCHANGED <<written, runtime>> BY <1>2 DEF CA!Protect
  <2>2. ASSUME NEW m \in Monitor
        PROVE  /\ {"state", "topics", "reads"} \subseteq DOMAIN monitors'[m]
               /\ monitors'[m].state = "running" => monitors'[m] = monitors[m]
    <3>1. {"state", "topics", "reads"} \subseteq DOMAIN monitors[m] BY DEF CatalogueWhole
    <3>2. CASE m \in CA!Affected(def)
      <4>1. monitors'[m] = [monitors[m] EXCEPT !.state = "stopping"] BY <2>1, <3>2
      <4> QED BY <3>1, <4>1
    <3>3. CASE m \notin CA!Affected(def) BY <2>1, <3>1, <3>3
    <3> QED BY <3>2, <3>3
  <2>3. CA!MonitorsFed' BY <2>1, <2>2, RowsStay DEF CatalogueWhole, CA!MonitorsFed
  <2>4. TopicsRead' BY <2>2 DEF CatalogueWhole, TopicsRead
  <2>5. DOMAIN monitors' = Monitor BY <2>1
  <2>6. DOMAIN edit' = Editor /\ \A o \in Editor :
           \/ edit'[o] = edit[o]
           \/ edit'[o] = [phase |-> "pausing", proposed |-> def, guard |-> CA!Now,
                          affected |-> CA!Affected(def)] BY <2>1 DEF CatalogueWhole
  <2> QED BY <2>1, <2>2, <2>3, <2>4, <2>5, <2>6, RowsStayKeep
<1> QED BY <1>1, <1>2

\* Steps that change none of the monitors and reservations.
LEMMA NobodyMoves ==
  ASSUME CatalogueWhole, UNCHANGED <<written, runtime, monitors, reserved>>, DOMAIN edit' = Editor,
         \A e \in Editor : edit'[e] = edit[e] \/ edit'[e] = CA!NoEdit
  PROVE  CatalogueStep
<1>1. CA!MonitorsFed' /\ TopicsRead' /\ DOMAIN monitors' = Monitor
      /\ \A m \in Monitor : {"state", "topics", "reads"} \subseteq DOMAIN monitors'[m]
  BY RowsStay DEF CatalogueWhole, CA!MonitorsFed, TopicsRead
<1> QED BY <1>1, RowsStayKeep

\* When the monitors have stopped, what the change rests on is looked at again.
LEMMA ResumeKeeps ==
  ASSUME CatalogueWhole, NEW e \in Editor, CA!Resume(e)
  PROVE  CatalogueStep
<1>1. UNCHANGED <<monitors, reserved>> /\ edit[e].phase = "pausing"
      /\ DOMAIN edit' = Editor /\ \A o \in Editor : edit'[o] = edit[o] \/ edit'[o] = CA!NoEdit
  BY DEF CA!Resume, CatalogueWhole
<1> DEFINE def == edit[e].proposed
<1>2. CASE UNCHANGED <<written, runtime>> BY <1>1, <1>2, NobodyMoves
<1>3. CASE /\ \A m \in edit[e].affected : monitors[m].state = "stopped"
           /\ CA!GuardHolds(e) /\ CA!NoneStarted(e) /\ CA!Write(def)
  <2>1. edit[e].guard = CA!Now BY <1>3 DEF CA!GuardHolds
  <2>2. Proposes(def, runtime.def) BY <1>1, <2>1 DEF CatalogueWhole, WaitsInOrder
  <2>3. ~ CA!Reserved(def) /\ CA!Affected(def) \subseteq edit[e].affected BY <1>3 DEF CA!NoneStarted
  <2>4. \A m \in Monitor : monitors[m].state = "running" => m \notin CA!Affected(def) BY <1>3, <2>3
  <2>5. CA!Write(def) BY <1>3
  <2> HIDE DEF def
  <2> QED BY <1>1, <2>2, <2>3, <2>4, <2>5, WriteKeeps
<1> QED BY <1>2, <1>3 DEF CA!Resume

\* Each step of the catalogue keeps the invariant and what the step promises.
LEMMA CatalogueSteps ==
  ASSUME CatalogueWhole, CA!Next
  PROVE  CatalogueStep
<1>1. ASSUME NEW e \in Editor, CA!Load(e) PROVE CatalogueStep
  <2>1. UNCHANGED <<written, runtime, edit, monitors, reserved>> BY <1>1 DEF CA!Load
  <2> QED BY <2>1, NobodyMoves DEF CatalogueWhole
<1>2. ASSUME NEW e \in Editor, CA!Save(e) PROVE CatalogueStep
  <2>1. PICK document \in Documents : CA!Protect(e, CA!Project(document, runtime.def)) BY <1>2 DEF CA!Save
  <2>2. Proposes(CA!Project(document, runtime.def), runtime.def) BY DEF Proposes
  <2>3. UNCHANGED reserved BY <1>2 DEF CA!Save
  <2> QED BY <2>1, <2>2, <2>3, ProtectKeeps
<1>3. ASSUME NEW e \in Editor, CA!ApplyCollection(e) PROVE CatalogueStep
  <2>1. PICK edited \in CA!RuleEdits(CA!Project(written.streams, runtime.def)) :
          CA!Protect(e, CA!Materialized(edited)) BY <1>3 DEF CA!ApplyCollection
  <2>2. written.streams = runtime.def.streams BY DEF CatalogueWhole, CA!RowsAgree
  <2>3. Proposes(CA!Materialized(edited), runtime.def) BY <2>1, <2>2 DEF Proposes
  <2>4. UNCHANGED reserved BY <1>3 DEF CA!ApplyCollection
  <2> QED BY <2>1, <2>3, <2>4, ProtectKeeps
<1>4. ASSUME NEW e \in Editor, CA!Resume(e) PROVE CatalogueStep BY <1>4, ResumeKeeps
<1>5. CASE CA!Reserve
  <2>1. UNCHANGED <<written, runtime, edit, monitors>> BY <1>5 DEF CA!Reserve
  <2>2. PICK topics : reserved' = [topics |-> topics,
                                   reads |-> {x \in CA!Inputs(runtime.def) : x[1] \in topics}]
    BY <1>5 DEF CA!Reserve
  <2>3. reserved'.topics = topics /\ reserved'.reads = {x \in CA!Inputs(runtime.def) : x[1] \in topics}
    BY <2>2
  <2>4. CA!MonitorsFed' BY <2>1, <2>3, RowsStay DEF CatalogueWhole, CA!MonitorsFed
  <2>5. TopicsRead' BY <2>1, <2>3 DEF CatalogueWhole, TopicsRead
  <2>6. DOMAIN edit' = Editor /\ \A e \in Editor : edit'[e] = edit[e] BY <2>1 DEF CatalogueWhole
  <2>7. DOMAIN monitors' = Monitor /\ \A m \in Monitor : {"state", "topics", "reads"} \subseteq DOMAIN monitors'[m]
    BY <2>1 DEF CatalogueWhole
  <2>8. UNCHANGED <<written, runtime>> BY <2>1
  <2> QED BY <2>4, <2>5, <2>6, <2>7, <2>8, RowsStayKeep
<1>6. CASE CA!Launch
  <2>1. UNCHANGED <<written, runtime, edit>> /\ reserved'.topics = {} /\ reserved'.reads = {}
    BY <1>6 DEF CA!Launch
  <2>2. DOMAIN edit' = Editor /\ \A e \in Editor : edit'[e] = edit[e] BY <2>1 DEF CatalogueWhole
  <2> DEFINE Launched ==
          DOMAIN monitors' = Monitor /\ \A m \in Monitor :
            /\ {"state", "topics", "reads"} \subseteq DOMAIN monitors'[m]
            /\ \/ monitors'[m] = monitors[m]
               \/ /\ monitors'[m].topics = reserved.topics /\ monitors'[m].reads = reserved.reads
                  /\ reserved.reads \subseteq CA!Inputs(runtime.def)
  <2>3. Launched
    <3>1. CASE UNCHANGED monitors BY <3>1 DEF CatalogueWhole
    <3>2. ASSUME NEW m \in Monitor, reserved.reads \subseteq CA!Inputs(runtime.def),
                 monitors' = [monitors EXCEPT ![m] = [state |-> "running", topics |-> reserved.topics,
                                                      reads |-> reserved.reads]]
          PROVE  Launched BY <3>2 DEF CatalogueWhole
    <3> QED BY <1>6, <3>1, <3>2 DEF CA!Launch
  <2>4. CA!MonitorsFed' BY <2>1, <2>3, RowsStay DEF CatalogueWhole, CA!MonitorsFed
  <2>5. TopicsRead' BY <2>1, <2>3 DEF CatalogueWhole, TopicsRead
  <2> QED BY <2>1, <2>2, <2>3, <2>4, <2>5, RowsStayKeep
<1>7. ASSUME NEW m \in Monitor, CA!Stop(m) PROVE CatalogueStep
  <2>1. UNCHANGED <<written, runtime, edit, reserved>> /\ monitors' = [monitors EXCEPT ![m].state = "stopped"]
    BY <1>7 DEF CA!Stop
  <2>2. DOMAIN monitors' = Monitor /\ DOMAIN edit' = Editor /\ \A e \in Editor : edit'[e] = edit[e]
    BY <2>1 DEF CatalogueWhole
  <2>3. ASSUME NEW o \in Monitor
        PROVE  /\ {"state", "topics", "reads"} \subseteq DOMAIN monitors'[o]
               /\ monitors'[o].state = "running" => monitors'[o] = monitors[o]
    <3>1. {"state", "topics", "reads"} \subseteq DOMAIN monitors[o] /\ DOMAIN monitors = Monitor
      BY DEF CatalogueWhole
    <3>2. CASE o = m
      <4>1. monitors'[o] = [monitors[o] EXCEPT !.state = "stopped"] BY <2>1, <3>1, <3>2
      <4> QED BY <3>1, <4>1
    <3>3. CASE o # m BY <2>1, <3>1, <3>3
    <3> QED BY <3>2, <3>3
  <2>4. CA!MonitorsFed' BY <2>1, <2>3, RowsStay DEF CatalogueWhole, CA!MonitorsFed
  <2>5. TopicsRead' BY <2>1, <2>3 DEF CatalogueWhole, TopicsRead
  <2> QED BY <2>1, <2>2, <2>3, <2>4, <2>5, RowsStayKeep
<1> QED BY <1>1, <1>2, <1>3, <1>4, <1>5, <1>6, <1>7 DEF CA!Next

\* Where nothing happens to the catalogue, its invariant stays.
LEMMA CatalogueStays ==
  ASSUME CatalogueWhole, UNCHANGED CA!catalogueVars
  PROVE  CatalogueWhole'
<1>1. UNCHANGED <<written, runtime, edit, monitors, reserved>> BY DEF CA!catalogueVars
<1>2. DOMAIN edit' = Editor BY <1>1 DEF CatalogueWhole
<1>3. CatalogueStep BY <1>1, <1>2, NobodyMoves
<1> QED BY <1>3 DEF CatalogueStep

\* The first definition is one.
LEMMA CatalogueStart ==
  ASSUME CA!Init
  PROVE  CatalogueWhole
<1>1. CA!Empty.clock = 0 /\ DOMAIN CA!Empty.rules = {} BY DEF CA!Empty, CA!NoRules
<1>2. RulesInTime(CA!Empty) BY <1>1 DEF RulesInTime
<1> DEFINE p == CA!Project(FirstCatalogue.document, CA!Empty)
           s == CA!SetRule(p, FirstCatalogue.scope, "on", FALSE)
<1>3. Definition(p) BY <1>2, ProjectIsDefinition
<1>4. CA!First = CA!Materialized(s) BY DEF CA!First
<1> HIDE DEF p
<1>5. Edited(s, p) BY <1>3, RuleSet DEF Definition
<1> HIDE DEF s
<1>6. /\ CA!First = [streams |-> s.streams, policies |-> Policies(s), bindings |-> s.bindings,
                     rules |-> s.rules, clock |-> s.clock, registered |-> s.registered]
      /\ CA!Materialized(CA!First) = CA!First /\ Shape(CA!First)
  BY <1>4, <1>5, MaterializedOnce DEF Edited, Policies
<1>7. /\ CA!First.streams = s.streams /\ CA!First.bindings = s.bindings /\ CA!First.rules = s.rules
      /\ CA!First.clock = s.clock BY <1>6
<1>8. RulesInTime(CA!First) BY <1>5, <1>7 DEF Edited, RulesInTime
<1>9. Bound(CA!First) BY <1>3, <1>5, <1>7 DEF Edited, Definition, Bound
<1>10. Definition(CA!First) BY <1>6, <1>8, <1>9 DEF Definition
<1>11. /\ runtime.def = CA!First /\ runtime.revision = 1 /\ runtime.generation = 1
       /\ written.revision = 1 /\ written.streams = CA!First.streams /\ written.policies = CA!First.policies
       /\ edit = [e \in Editor |-> CA!NoEdit]
       /\ monitors = [m \in Monitor |-> [state |-> "new", topics |-> {}, reads |-> {}]]
       /\ reserved.topics = {} /\ reserved.reads = {} BY DEF CA!Init
<1>12. CA!RowsAgree BY <1>6, <1>11 DEF CA!RowsAgree
<1>13. CA!MonitorsFed /\ TopicsRead /\ WaitsInOrder
  BY <1>11 DEF CA!MonitorsFed, TopicsRead, WaitsInOrder, CA!NoEdit
<1>14. DOMAIN edit = Editor /\ DOMAIN monitors = Monitor
       /\ \A m \in Monitor : {"state", "topics", "reads"} \subseteq DOMAIN monitors[m] BY <1>11
<1> QED BY <1>10, <1>11, <1>12, <1>13, <1>14 DEF CatalogueWhole

(* A release.                                                              *)

Row == [config : BOOLEAN, replacement : Service \cup {NoService}, preflight : BOOLEAN,
        stopped : BOOLEAN, restarted : BOOLEAN]
KeptService(s) == s \in [intent : {"none", "running", "stopping", "stopped"},
                  worker : {"none", "up", "retiring", "gone"},
                  run : {"none", "reserved", "starting", "running", "ended"}]
Command == [does : {"nothing", "begin", "resume"}, todo : SUBSET Service]

Listing(o) ==
  /\ o = [phase |-> o.phase, revision |-> o.revision, monitors |-> o.monitors]
  /\ o.phase \in {"none", "quiescing", "preparing", "stopped", "restarted", "complete"}
  /\ DOMAIN o.monitors \subseteq Service
  /\ o.monitors \in [DOMAIN o.monitors -> Row]

ReleaseTyped ==
  /\ Listing(op) /\ DOMAIN service = Service /\ service = [s \in Service |-> service[s]]
  /\ \A s \in Service : KeptService(service[s])
  /\ command \in Command
  /\ halted \cup told \cup untold \cup captured \subseteq Service

\* A command does what its phase allows; what resume has left behind was restarted.
InPhase(c, phase, ms) ==
  /\ c.does = "begin" => phase = "preparing"
  /\ c.does = "resume" =>
       /\ phase \in {"stopped", "restarted"}
       /\ c.todo \subseteq {m \in DOMAIN ms : ms[m].config}
       /\ \A m \in DOMAIN ms : ms[m].config /\ m \notin c.todo => ms[m].restarted

Prepared(ms) == \A c \in DOMAIN ms : ms[c].config => ms[c].preflight

\* What has to be done first was done.
InTurn(phase, ms) ==
  \A m \in DOMAIN ms :
    /\ ms[m].preflight => ms[m].replacement # NoService
    /\ ms[m].stopped => Prepared(ms)
    /\ phase \in {"stopped", "restarted"} => ms[m].stopped
    /\ phase = "restarted" /\ ms[m].config => ms[m].restarted

\* A monitor that was stopped stays so; its replacement is another service, and is not there before.
Replaced(ms, ss) ==
  \A m \in DOMAIN ms :
    LET f == ms[m].replacement IN
    /\ ss[m].intent # "none"
    /\ ms[m].stopped => ss[m].worker \in {"none", "gone"} /\ ss[m].intent = "stopped"
    /\ f # NoService =>
         /\ f \notin DOMAIN ms /\ ss[f].run # "none"
         /\ ss[f].intent # "none" \/ ss[f].worker # "none" => ms[m].stopped

\* What is to run is on the list or replaces what is.
Accounted(phase, ms, ss) ==
  phase \in {"preparing", "stopped", "restarted"} =>
    \A s \in Service : ss[s].intent = "running" =>
      s \in DOMAIN ms \/ \E m \in DOMAIN ms : ms[m].replacement = s

\* What the release stopped is noted as stopped, but for the one that is being noted.
Noticed(phase, ms) ==
  /\ phase \in {"none", "quiescing"} => halted = {}
  /\ halted # {} => Prepared(ms)
  /\ \A m \in halted :
       /\ m \in DOMAIN ms
       /\ ms[m].stopped \/ m = CHOOSE x \in {y \in DOMAIN ms : ~ms[y].stopped} : TRUE
       /\ phase = "complete" => m \in told \cup untold \/ ms[m].restarted \/ ~ms[m].config
  /\ \A x, y \in untold : x = y

\* Runs are starting while the release restarts them.
StartingNow(phase, ms, ss) ==
  \A s \in Service : ss[s].run = "starting" =>
    /\ phase \in {"stopped", "restarted"}
    /\ \E m \in DOMAIN ms : ms[m].restarted /\ ms[m].replacement = s

\* The inductive invariant of a release.
ReleaseWhole ==
  /\ ReleaseTyped /\ InPhase(command, op.phase, op.monitors) /\ InTurn(op.phase, op.monitors)
  /\ Replaced(op.monitors, service) /\ Accounted(op.phase, op.monitors, service)
  /\ Noticed(op.phase, op.monitors) /\ StartingNow(op.phase, op.monitors, service)

\* It begins so.
LEMMA ReleaseStart ==
  ASSUME RD!Init, RD!ReleaseAssumption
  PROVE  ReleaseWhole
<1>1. /\ op.phase = "none" /\ op.monitors = <<>> /\ DOMAIN op.monitors = {}
      /\ op = [phase |-> op.phase, revision |-> op.revision, monitors |-> op.monitors] BY DEF RD!Init
<1>2. op.monitors \in [DOMAIN op.monitors -> Row]
  <2>1. op.monitors = [x \in {} |-> 0] BY <1>1
  <2> QED BY <1>1, <2>1
<1>3. Listing(op) BY <1>1, <1>2 DEF Listing
<1>4. /\ service = [s \in Service |-> IF s \in Monitors THEN RD!Going ELSE RD!Unused]
      /\ command = RD!NoCommand /\ halted = {} /\ told = {} /\ untold = {} /\ captured \subseteq Service
  BY DEF RD!Init, RD!ReleaseAssumption
<1>5. \A s \in Service : KeptService(service[s]) /\ service[s].run # "starting"
  BY <1>4 DEF KeptService, RD!Going, RD!Unused
<1>6. ReleaseTyped BY <1>3, <1>4, <1>5 DEF ReleaseTyped, Command, RD!NoCommand
<1>7. /\ InPhase(command, op.phase, op.monitors) /\ InTurn(op.phase, op.monitors)
      /\ Replaced(op.monitors, service) /\ Accounted(op.phase, op.monitors, service)
  BY <1>1, <1>4 DEF InPhase, InTurn, Replaced, Accounted, RD!NoCommand
<1>8. Noticed(op.phase, op.monitors) /\ StartingNow(op.phase, op.monitors, service)
  BY <1>4, <1>5 DEF Noticed, StartingNow
<1> QED BY <1>6, <1>7, <1>8 DEF ReleaseWhole

(* What happens to a service.                                              *)

\* A service becomes t: nothing that the release relies on.
Becomes(s, t) ==
  /\ s \in Service /\ KeptService(t) /\ service' = [service EXCEPT ![s] = t]
  /\ service[s].intent # "none" => t.intent # "none"
  /\ service[s].run # "none" => t.run # "none"
  /\ t.run = "starting" => service[s].run = "starting"
  /\ t.intent = "running" /\ service[s].intent # "running" =>
       \/ op.phase \notin {"preparing", "stopped", "restarted"}
       \/ \E m \in DOMAIN op.monitors : op.monitors[m].replacement = s
  /\ s \in DOMAIN op.monitors /\ op.monitors[s].stopped =>
       t.worker \in {"none", "gone"} /\ t.intent = "stopped"
  /\ (t.intent # "none" /\ service[s].intent = "none") \/ (t.worker # "none" /\ service[s].worker = "none") =>
       \A m \in DOMAIN op.monitors : op.monitors[m].replacement = s => op.monitors[m].stopped

\* When a service moves, the release keeps its invariant.
LEMMA MoveKeeps ==
  ASSUME ReleaseWhole, NEW s, NEW t, Becomes(s, t), RD!ReleaseAssumption, UNCHANGED <<op, command>>,
         Noticed(op.phase, op.monitors)',
         halted' \cup told' \cup untold' \cup captured' \subseteq Service
  PROVE  ReleaseWhole'
<1> DEFINE ms == op.monitors
<1>1. /\ s \in Service /\ DOMAIN service = Service /\ DOMAIN service' = Service /\ DOMAIN ms \subseteq Service
      /\ service'[s] = t /\ \A x \in Service : x # s => service'[x] = service[x]
      /\ service' = [x \in Service |-> service'[x]] BY DEF Becomes, ReleaseWhole, ReleaseTyped, Listing
<1>2. op' = op /\ command' = command OBVIOUS
<1>3. ReleaseTyped' BY <1>1, <1>2 DEF ReleaseTyped, ReleaseWhole, Becomes
<1>4. InPhase(command', op'.phase, op'.monitors) /\ InTurn(op'.phase, op'.monitors) BY <1>2 DEF ReleaseWhole
<1>5. Replaced(ms, service')
  <2> SUFFICES ASSUME NEW m \in DOMAIN ms
               PROVE  LET f == ms[m].replacement IN
                      /\ service'[m].intent # "none"
                      /\ ms[m].stopped => service'[m].worker \in {"none", "gone"} /\ service'[m].intent = "stopped"
                      /\ f # NoService =>
                           /\ f \notin DOMAIN ms /\ service'[f].run # "none"
                           /\ service'[f].intent # "none" \/ service'[f].worker # "none" => ms[m].stopped
    BY DEF Replaced
  <2> DEFINE f == ms[m].replacement
  <2>1. /\ service[m].intent # "none"
        /\ ms[m].stopped => service[m].worker \in {"none", "gone"} /\ service[m].intent = "stopped"
        /\ f # NoService =>
             /\ f \notin DOMAIN ms /\ service[f].run # "none"
             /\ service[f].intent # "none" \/ service[f].worker # "none" => ms[m].stopped
    BY DEF Replaced, ReleaseWhole
  <2>2. m \in Service /\ f \in Service \cup {NoService} BY DEF ReleaseWhole, ReleaseTyped, Listing, Row
  <2>3. service'[m].intent # "none" BY <1>1, <2>1, <2>2 DEF Becomes
  <2>4. ms[m].stopped => service'[m].worker \in {"none", "gone"} /\ service'[m].intent = "stopped"
    BY <1>1, <2>1, <2>2 DEF Becomes
  <2>5. f # NoService => service'[f].run # "none" BY <1>1, <2>1, <2>2 DEF Becomes
  <2>6. f # NoService /\ (service'[f].intent # "none" \/ service'[f].worker # "none") => ms[m].stopped
    BY <1>1, <2>1, <2>2 DEF Becomes
  <2> QED BY <2>1, <2>3, <2>4, <2>5, <2>6
<1>6. Accounted(op.phase, ms, service') BY <1>1 DEF Accounted, ReleaseWhole, Becomes
<1>7. StartingNow(op.phase, ms, service') BY <1>1 DEF StartingNow, ReleaseWhole, Becomes
<1> QED BY <1>2, <1>3, <1>4, <1>5, <1>6, <1>7 DEF ReleaseWhole

\* When the list, the command and what was told stay, so does what was noticed.
LEMMA NoticedStays ==
  ASSUME ReleaseWhole, UNCHANGED <<op, halted, told, untold>>
  PROVE  Noticed(op.phase, op.monitors)'
BY DEF ReleaseWhole, Noticed

\* What a service that is changed in place is then.
LEMMA FieldSet ==
  ASSUME ReleaseTyped, NEW s \in Service
  PROVE  /\ \A v : v \in {"none", "running", "stopping", "stopped"} =>
              /\ KeptService([service[s] EXCEPT !.intent = v])
              /\ [service[s] EXCEPT !.intent = v].intent = v
              /\ [service[s] EXCEPT !.intent = v].worker = service[s].worker
              /\ [service[s] EXCEPT !.intent = v].run = service[s].run
         /\ \A v : v \in {"none", "up", "retiring", "gone"} =>
              /\ KeptService([service[s] EXCEPT !.worker = v])
              /\ [service[s] EXCEPT !.worker = v].intent = service[s].intent
              /\ [service[s] EXCEPT !.worker = v].worker = v
              /\ [service[s] EXCEPT !.worker = v].run = service[s].run
         /\ \A v : v \in {"none", "reserved", "starting", "running", "ended"} =>
              /\ KeptService([service[s] EXCEPT !.run = v])
              /\ [service[s] EXCEPT !.run = v].intent = service[s].intent
              /\ [service[s] EXCEPT !.run = v].worker = service[s].worker
              /\ [service[s] EXCEPT !.run = v].run = v
BY DEF ReleaseTyped, KeptService

\* A service that is claimed anew is one that was not used.
LEMMA FreshIsUnused ==
  ASSUME RD!Fresh # {}
  PROVE  RD!AFresh \in Service /\ service[RD!AFresh] = RD!Unused
BY DEF RD!AFresh, RD!Fresh

\* What members, their workers and the reconciliation do.
LEMMA OthersKeepRelease ==
  ASSUME ReleaseWhole, RD!ReleaseAssumption,
         \/ RD!MemberStarts
         \/ \E s \in Service : RD!MemberStops(s) \/ RD!StopCompletes(s) \/ RD!TaskEnds(s) \/ RD!WorkerFails(s)
  PROVE  ReleaseWhole'
<1> DEFINE ms == op.monitors
<1>0. ReleaseTyped BY DEF ReleaseWhole
<1>1. CASE RD!MemberStarts
  <2>1. /\ RD!AFresh \in Service /\ service[RD!AFresh] = RD!Unused /\ op.phase \in {"none", "complete"}
        /\ service' = [service EXCEPT ![RD!AFresh] = RD!Going]
        /\ captured' = captured \cup {RD!AFresh} /\ UNCHANGED <<op, command, halted, told, untold>>
    BY <1>1, FreshIsUnused DEF RD!MemberStarts, RD!ApplicationWrites, RD!Open
  <2>2. RD!AFresh \notin DOMAIN ms BY <2>1 DEF ReleaseWhole, Replaced, RD!Unused
  <2>3. \A m \in DOMAIN ms : ms[m].replacement # RD!AFresh
    BY <2>1 DEF ReleaseWhole, Replaced, RD!Unused, RD!ReleaseAssumption
  <2>4. KeptService(RD!Going) BY DEF KeptService, RD!Going
  <2>5. Becomes(RD!AFresh, RD!Going) BY <2>1, <2>2, <2>3, <2>4 DEF Becomes, RD!Going
  <2>6. halted' \cup told' \cup untold' \cup captured' \subseteq Service BY <2>1, <1>0 DEF ReleaseTyped
  <2> QED BY <2>1, <2>5, <2>6, MoveKeeps, NoticedStays
<1>2. ASSUME NEW s \in Service, RD!MemberStops(s) \/ RD!StopCompletes(s) \/ RD!TaskEnds(s) \/ RD!WorkerFails(s)
      PROVE  ReleaseWhole'
  <2>1. UNCHANGED <<op, command, halted, told, untold, captured>>
    BY <1>2 DEF RD!MemberStops, RD!StopCompletes, RD!TaskEnds, RD!WorkerFails
  <2>2. halted' \cup told' \cup untold' \cup captured' \subseteq Service BY <2>1, <1>0 DEF ReleaseTyped
  <2>3. s \in DOMAIN ms /\ ms[s].stopped => service[s].worker \in {"none", "gone"} /\ service[s].intent = "stopped"
    BY DEF ReleaseWhole, Replaced
  <2>4. KeptService(service[s]) BY <1>0 DEF ReleaseTyped
  <2>5. CASE RD!MemberStops(s)
    <3> DEFINE t == [service[s] EXCEPT !.intent = "stopping"]
    <3>1. /\ service' = [service EXCEPT ![s] = t] /\ service[s].intent = "running"
      BY <2>5 DEF RD!MemberStops, RD!Set
    <3>2. KeptService(t) /\ t.intent = "stopping" /\ t.worker = service[s].worker /\ t.run = service[s].run
      BY <1>0, FieldSet
    <3> HIDE DEF t
    <3>3. Becomes(s, t) BY <3>1, <3>2, <2>3 DEF Becomes
    <3> QED BY <2>1, <2>2, <3>3, MoveKeeps, NoticedStays
  <2>6. CASE RD!StopCompletes(s)
    <3> DEFINE t == [service[s] EXCEPT !.intent = "stopped", !.worker = "gone", !.run = "ended"]
    <3>1. /\ service' = [service EXCEPT ![s] = t] /\ service[s].intent = "stopping"
      BY <2>6 DEF RD!StopCompletes
    <3>2. KeptService(t) /\ t.intent = "stopped" /\ t.worker = "gone" /\ t.run = "ended"
      BY <2>4 DEF KeptService
    <3> HIDE DEF t
    <3>4. \A m \in DOMAIN ms : ms[m].replacement = s => ms[m].stopped
      BY <3>1, RD!ReleaseAssumption DEF ReleaseWhole, Replaced, RD!ReleaseAssumption
    <3>3. Becomes(s, t) BY <3>1, <3>2, <3>4, <2>3 DEF Becomes
    <3> QED BY <2>1, <2>2, <3>3, MoveKeeps, NoticedStays
  <2>7. CASE RD!TaskEnds(s)
    <3> DEFINE t == [service[s] EXCEPT !.worker = "gone"]
    <3>1. /\ service' = [service EXCEPT ![s] = t] /\ service[s].worker = "retiring"
      BY <2>7 DEF RD!TaskEnds, RD!Set
    <3>2. KeptService(t) /\ t.intent = service[s].intent /\ t.worker = "gone" /\ t.run = service[s].run
      BY <1>0, FieldSet
    <3> HIDE DEF t
    <3>3. Becomes(s, t) BY <3>1, <3>2, <2>3 DEF Becomes
    <3> QED BY <2>1, <2>2, <3>3, MoveKeeps, NoticedStays
  <2>8. CASE RD!WorkerFails(s)
    <3> DEFINE t == [service[s] EXCEPT !.run = "ended"]
    <3>1. /\ service' = [service EXCEPT ![s] = t] /\ service[s].worker = "up"
      BY <2>8 DEF RD!WorkerFails, RD!Set
    <3>2. KeptService(t) /\ t.intent = service[s].intent /\ t.worker = service[s].worker /\ t.run = "ended"
      BY <1>0, FieldSet
    <3> HIDE DEF t
    <3>3. Becomes(s, t) BY <3>1, <3>2, <2>3 DEF Becomes
    <3> QED BY <2>1, <2>2, <3>3, MoveKeeps, NoticedStays
  <2> QED BY <1>2, <2>5, <2>6, <2>7, <2>8
<1> QED BY <1>1, <1>2

\* What the command does to one service: its worker is retired, it is stopped, created or attached.
LEMMA CommandMoves ==
  ASSUME ReleaseWhole, RD!ReleaseAssumption, NEW m \in DOMAIN op.monitors,
         RD!ScaleDown(m) \/ RD!StopService(m) \/ RD!CreateService(m) \/ RD!Attach(m)
  PROVE  ReleaseWhole'
<1> DEFINE ms == op.monitors
<1>0. ReleaseTyped /\ m \in Service BY DEF ReleaseWhole, ReleaseTyped, Listing
<1>1. UNCHANGED <<op, command, told, untold>>
  BY DEF RD!ScaleDown, RD!StopService, RD!CreateService, RD!Attach
<1>2. KeptService(service[m]) /\ service[m].intent # "none" BY <1>0 DEF ReleaseWhole, ReleaseTyped, Replaced
<1>3. ASSUME RD!Stopping(m)
      PROVE  ~ms[m].stopped /\ op.phase = "preparing" /\ Prepared(ms)
             /\ m = CHOOSE x \in {y \in DOMAIN ms : ~ms[y].stopped} : TRUE
  BY <1>3 DEF RD!Stopping, RD!ToStop, RD!Beginning, RD!Configured, Prepared
<1>5. CASE RD!ScaleDown(m)
  <2> DEFINE t == [service[m] EXCEPT !.worker = "retiring"]
  <2>1. /\ service' = [service EXCEPT ![m] = t] /\ service[m].worker = "up" /\ ~ms[m].stopped
        /\ UNCHANGED <<halted, captured>> BY <1>3, <1>5 DEF RD!ScaleDown, RD!Set
  <2>2. KeptService(t) /\ t.intent = service[m].intent /\ t.worker = "retiring" /\ t.run = service[m].run
    BY <1>0, FieldSet
  <2> HIDE DEF t
  <2>3. Becomes(m, t) BY <1>0, <2>1, <2>2 DEF Becomes
  <2>4. halted' \cup told' \cup untold' \cup captured' \subseteq Service BY <2>1, <1>0, <1>1 DEF ReleaseTyped
  <2> QED BY <1>1, <2>1, <2>3, <2>4, MoveKeeps, NoticedStays
<1>6. CASE RD!StopService(m)
  <2> DEFINE t == [service[m] EXCEPT !.intent = "stopped", !.run = "ended"]
  <2>1. /\ service' = [service EXCEPT ![m] = t] /\ service[m].worker \in {"none", "gone"} /\ RD!Stopping(m)
        /\ halted' = halted \cup {m} /\ UNCHANGED captured BY <1>6 DEF RD!StopService, RD!Stopped
  <2>2. KeptService(t) /\ t.intent = "stopped" /\ t.worker = service[m].worker /\ t.run = "ended"
    BY <1>2 DEF KeptService
  <2> HIDE DEF t
  <2>3. Becomes(m, t) BY <1>0, <1>2, <2>1, <2>2 DEF Becomes
  <2>4. halted' \cup told' \cup untold' \cup captured' \subseteq Service BY <2>1, <1>0, <1>1 DEF ReleaseTyped
  <2>5. Noticed(op.phase, ms)' BY <1>1, <1>3, <2>1 DEF Noticed, ReleaseWhole
  <2> QED BY <1>1, <2>3, <2>4, <2>5, MoveKeeps
<1>7. ASSUME RD!Restarting(m)
      PROVE  /\ ms[m].replacement \in Service /\ op.phase \in {"stopped", "restarted"}
             /\ \A x \in DOMAIN ms : ms[x].stopped
             /\ ms[m].replacement \notin DOMAIN ms
  <2>1. m \in command.todo /\ command.does = "resume" BY <1>7 DEF RD!Restarting
  <2>2. op.phase \in {"stopped", "restarted"} /\ ms[m].config BY <2>1 DEF ReleaseWhole, InPhase
  <2>3. \A x \in DOMAIN ms : ms[x].stopped BY <2>2 DEF ReleaseWhole, InTurn
  <2>4. ms[m].replacement # NoService BY <2>2, <2>3 DEF ReleaseWhole, InTurn, Prepared
  <2>5. ms[m].replacement \in Service BY <2>4 DEF ReleaseWhole, ReleaseTyped, Listing, Row
  <2>6. ms[m].replacement \notin DOMAIN ms BY <2>4 DEF ReleaseWhole, Replaced
  <2> QED BY <2>2, <2>3, <2>5, <2>6
<1>8. CASE RD!CreateService(m)
  <2> DEFINE f == ms[m].replacement
             t == [service[f] EXCEPT !.intent = "running"]
  <2>1. /\ service' = [service EXCEPT ![f] = t] /\ RD!Restarting(m) /\ service[f].intent = "none"
        /\ captured' = captured \cup {f} /\ UNCHANGED halted
    BY <1>8 DEF RD!CreateService, RD!Replacement, RD!Set
  <2>2. f \in Service /\ f \notin DOMAIN ms /\ \A x \in DOMAIN ms : ms[x].stopped BY <1>7, <2>1
  <2>3. KeptService(t) /\ t.intent = "running" /\ t.worker = service[f].worker /\ t.run = service[f].run
    BY <1>0, <2>2, FieldSet
  <2> HIDE DEF t
  <2>4. \E x \in DOMAIN ms : ms[x].replacement = f OBVIOUS
  <2> HIDE DEF f
  <2>5. Becomes(f, t) BY <2>1, <2>2, <2>3, <2>4 DEF Becomes
  <2>6. halted' \cup told' \cup untold' \cup captured' \subseteq Service
    BY <2>1, <2>2, <1>0, <1>1 DEF ReleaseTyped
  <2> QED BY <1>1, <2>1, <2>5, <2>6, MoveKeeps, NoticedStays
<1>9. CASE RD!Attach(m)
  <2> DEFINE f == ms[m].replacement
             t == [service[f] EXCEPT !.worker = "up"]
  <2>1. /\ service' = [service EXCEPT ![f] = t] /\ RD!Restarting(m) /\ service[f].intent = "running"
        /\ UNCHANGED <<captured, halted>> BY <1>9 DEF RD!Attach, RD!Replacement, RD!Set
  <2>2. f \in Service /\ f \notin DOMAIN ms /\ \A x \in DOMAIN ms : ms[x].stopped BY <1>7, <2>1
  <2>3. KeptService(t) /\ t.intent = service[f].intent /\ t.worker = "up" /\ t.run = service[f].run
    BY <1>0, <2>2, FieldSet
  <2> HIDE DEF t, f
  <2>5. Becomes(f, t) BY <2>1, <2>2, <2>3 DEF Becomes
  <2>6. halted' \cup told' \cup untold' \cup captured' \subseteq Service BY <2>1, <1>0, <1>1 DEF ReleaseTyped
  <2> QED BY <1>1, <2>1, <2>5, <2>6, MoveKeeps, NoticedStays
<1> QED BY <1>5, <1>6, <1>8, <1>9

(* What is noted of a monitor.                                             *)

\* A note is about one field of one monitor.
LEMMA RowNoted ==
  ASSUME Listing(op), NEW m \in DOMAIN op.monitors, NEW field, NEW v, RD!Noted(m, field, v),
         \/ field = "replacement" /\ v \in Service \cup {NoService}
         \/ field \in {"preflight", "stopped", "restarted"} /\ v = TRUE
  PROVE  /\ Listing(op') /\ op'.phase = op.phase /\ DOMAIN op'.monitors = DOMAIN op.monitors
         /\ (op'.monitors[m].config <=> op.monitors[m].config)
         /\ op'.monitors[m].replacement = IF field = "replacement" THEN v ELSE op.monitors[m].replacement
         /\ (op'.monitors[m].preflight <=> op.monitors[m].preflight \/ field = "preflight")
         /\ (op'.monitors[m].stopped <=> op.monitors[m].stopped \/ field = "stopped")
         /\ (op'.monitors[m].restarted <=> op.monitors[m].restarted \/ field = "restarted")
         /\ \A x \in DOMAIN op.monitors : x # m => op'.monitors[x] = op.monitors[x]
<1> DEFINE r == [op.monitors[m] EXCEPT ![field] = v]
           ms == [op.monitors EXCEPT ![m] = r]
<1>1. op = [phase |-> op.phase, revision |-> op.revision, monitors |-> op.monitors] BY DEF Listing
<1>2. op' = [phase |-> op.phase, revision |-> op.revision, monitors |-> ms]
  <2>1. op' = [op EXCEPT !.monitors = [op.monitors EXCEPT ![m] = [op.monitors[m] EXCEPT ![field] = v]]]
    BY DEF RD!Noted
  <2> QED BY <1>1, <2>1
<1>3. /\ r \in Row /\ (r.config <=> op.monitors[m].config)
      /\ r.replacement = IF field = "replacement" THEN v ELSE op.monitors[m].replacement
      /\ (r.preflight <=> op.monitors[m].preflight \/ field = "preflight")
      /\ (r.stopped <=> op.monitors[m].stopped \/ field = "stopped")
      /\ (r.restarted <=> op.monitors[m].restarted \/ field = "restarted")
  <2> SUFFICES ASSUME NEW o \in Row, NEW c, c = [o EXCEPT ![field] = v]
               PROVE  /\ c \in Row /\ (c.config <=> o.config)
                      /\ c.replacement = IF field = "replacement" THEN v ELSE o.replacement
                      /\ (c.preflight <=> o.preflight \/ field = "preflight")
                      /\ (c.stopped <=> o.stopped \/ field = "stopped")
                      /\ (c.restarted <=> o.restarted \/ field = "restarted") BY DEF Listing
  <2>1. CASE field = "replacement"
    <3>1. c = [o EXCEPT !["replacement"] = v] BY <2>1
    <3>2. field # "preflight" /\ field # "stopped" /\ field # "restarted" BY <2>1
    <3> QED BY <2>1, <3>1, <3>2 DEF Row
  <2>2. CASE field = "preflight"
    <3>1. c = [o EXCEPT !["preflight"] = TRUE] BY <2>2
    <3> QED BY <2>2, <3>1 DEF Row
  <2>3. CASE field = "stopped"
    <3>1. c = [o EXCEPT !["stopped"] = TRUE] BY <2>3
    <3> QED BY <2>3, <3>1 DEF Row
  <2>4. CASE field = "restarted"
    <3>1. c = [o EXCEPT !["restarted"] = TRUE] BY <2>4
    <3> QED BY <2>4, <3>1 DEF Row
  <2> QED BY <2>1, <2>2, <2>3, <2>4
<1> HIDE DEF r
<1>4. /\ op.monitors \in [DOMAIN op.monitors -> Row] /\ ms \in [DOMAIN op.monitors -> Row] /\ ms[m] = r
      /\ \A x \in DOMAIN op.monitors : x # m => ms[x] = op.monitors[x] BY <1>3 DEF Listing
<1> HIDE DEF ms
<1>5. op'.phase = op.phase /\ op'.monitors = ms /\ op'.revision = op.revision BY <1>2
<1>6. DOMAIN ms = DOMAIN op.monitors BY <1>4
<1>7. Listing(op') BY <1>2, <1>4, <1>5, <1>6 DEF Listing
<1> QED BY <1>3, <1>4, <1>5, <1>6, <1>7

\* The service that is to replace a monitor is reserved with its run.
LEMMA PrepareRunKeeps ==
  ASSUME ReleaseWhole, RD!ReleaseAssumption, NEW m \in DOMAIN op.monitors, RD!PrepareRun(m)
  PROVE  ReleaseWhole'
<1> DEFINE f == RD!AFresh
           t == [service[f] EXCEPT !.run = "reserved"]
           ms == op.monitors
           new == op'.monitors
<1>1. /\ op.phase = "preparing" /\ command.does = "begin" /\ ms[m].replacement = NoService /\ RD!Fresh # {}
      /\ RD!Noted(m, "replacement", f) /\ service' = [service EXCEPT ![f] = t]
      /\ UNCHANGED <<captured, command, halted, told, untold>> BY DEF RD!PrepareRun, RD!Beginning, RD!Set
<1>2. f \in Service /\ service[f] = RD!Unused /\ f # NoService
  BY <1>1, FreshIsUnused DEF RD!ReleaseAssumption
<1>3. ReleaseTyped /\ Listing(op) /\ ms[m] \in Row BY DEF ReleaseWhole, ReleaseTyped, Listing
<1>4. /\ Listing(op') /\ op'.phase = op.phase /\ DOMAIN new = DOMAIN ms
      /\ new[m].replacement = f /\ (new[m].config <=> ms[m].config) /\ (new[m].preflight <=> ms[m].preflight)
      /\ (new[m].stopped <=> ms[m].stopped) /\ (new[m].restarted <=> ms[m].restarted)
      /\ \A x \in DOMAIN ms : x # m => new[x] = ms[x] BY <1>1, <1>2, <1>3, RowNoted
<1>5. KeptService(t) /\ t.intent = "none" /\ t.worker = "none" /\ t.run = "reserved"
  BY <1>2, <1>3, FieldSet DEF RD!Unused
<1>6. f \notin DOMAIN ms /\ \A x \in DOMAIN ms : ms[x].replacement # f
  BY <1>2 DEF ReleaseWhole, Replaced, RD!Unused
<1> HIDE DEF t, f, new
<1>7. /\ DOMAIN service' = Service /\ service'[f] = t /\ service' = [s \in Service |-> service'[s]]
      /\ \A s \in Service : s # f => service'[s] = service[s] BY <1>1, <1>2, <1>3 DEF ReleaseTyped
<1>8. ReleaseTyped' BY <1>1, <1>3, <1>4, <1>5, <1>7 DEF ReleaseTyped
<1>9. InPhase(command', op'.phase, new) BY <1>1, <1>4 DEF InPhase
<1>10. InTurn(op'.phase, new) BY <1>1, <1>2, <1>4 DEF InTurn, Prepared, ReleaseWhole
<1>11. DOMAIN ms \subseteq Service /\ \A x \in DOMAIN ms : ms[x].replacement \in Service \cup {NoService}
  BY <1>3 DEF Listing, Row
<1>12. Replaced(new, service')
  <2> SUFFICES ASSUME NEW x \in DOMAIN ms
               PROVE  LET g == new[x].replacement IN
                      /\ service'[x].intent # "none"
                      /\ new[x].stopped => service'[x].worker \in {"none", "gone"} /\ service'[x].intent = "stopped"
                      /\ g # NoService =>
                           /\ g \notin DOMAIN ms /\ service'[g].run # "none"
                           /\ service'[g].intent # "none" \/ service'[g].worker # "none" => new[x].stopped
    BY <1>4 DEF Replaced
  <2>1. x # f /\ x \in Service /\ service'[x] = service[x] BY <1>6, <1>7, <1>11
  <2>2. CASE x = m BY <2>1, <2>2, <1>2, <1>4, <1>5, <1>6, <1>7 DEF ReleaseWhole, Replaced
  <2>3. CASE x # m BY <2>1, <2>3, <1>4, <1>6, <1>7, <1>11 DEF ReleaseWhole, Replaced
  <2> QED BY <2>2, <2>3
<1>13. Accounted(op'.phase, new, service')
  <2> SUFFICES ASSUME NEW s \in Service, service'[s].intent = "running"
               PROVE  s \in DOMAIN new \/ \E x \in DOMAIN new : new[x].replacement = s BY DEF Accounted
  <2>1. s # f /\ service[s].intent = "running" BY <1>5, <1>7
  <2>2. s \in DOMAIN ms \/ \E x \in DOMAIN ms : ms[x].replacement = s
    BY <1>1, <2>1 DEF Accounted, ReleaseWhole
  <2>3. s # NoService BY DEF RD!ReleaseAssumption
  <2> QED BY <1>1, <1>4, <2>2, <2>3
<1>14. {y \in DOMAIN new : ~new[y].stopped} = {y \in DOMAIN ms : ~ms[y].stopped} BY <1>4
<1>15. Noticed(op.phase, op.monitors)' BY <1>1, <1>4, <1>14 DEF Noticed, Prepared, ReleaseWhole, new
<1>16. StartingNow(op'.phase, new, service') BY <1>1, <1>4, <1>5, <1>7 DEF StartingNow, ReleaseWhole
<1> QED BY <1>8, <1>9, <1>10, <1>12, <1>13, <1>15, <1>16 DEF ReleaseWhole, new

\* A replacement passed its preflight.
LEMMA PreflightKeeps ==
  ASSUME ReleaseWhole, RD!ReleaseAssumption, NEW m \in DOMAIN op.monitors, RD!Preflight(m)
  PROVE  ReleaseWhole'
<1> DEFINE ms == op.monitors
           new == op'.monitors
<1>1. /\ op.phase = "preparing" /\ command.does = "begin" /\ ms[m].replacement # NoService
      /\ RD!Noted(m, "preflight", TRUE)
      /\ UNCHANGED <<service, captured, command, halted, told, untold>> BY DEF RD!Preflight, RD!Beginning
<1>2. ReleaseTyped /\ Listing(op) /\ ms[m] \in Row BY DEF ReleaseWhole, ReleaseTyped, Listing
<1>3. /\ Listing(op') /\ op'.phase = op.phase /\ DOMAIN new = DOMAIN ms
      /\ new[m].replacement = ms[m].replacement /\ (new[m].config <=> ms[m].config) /\ new[m].preflight
      /\ (new[m].stopped <=> ms[m].stopped) /\ (new[m].restarted <=> ms[m].restarted)
      /\ \A x \in DOMAIN ms : x # m => new[x] = ms[x] BY <1>1, <1>2, RowNoted
<1> HIDE DEF new
<1>4. \A x \in DOMAIN ms :
        /\ new[x].replacement = ms[x].replacement /\ (new[x].config <=> ms[x].config)
        /\ (new[x].stopped <=> ms[x].stopped) /\ (new[x].restarted <=> ms[x].restarted)
        /\ ms[x].preflight => new[x].preflight
        /\ x # m => (new[x].preflight <=> ms[x].preflight) BY <1>3
<1>5. {y \in DOMAIN new : ~new[y].stopped} = {y \in DOMAIN ms : ~ms[y].stopped} BY <1>3, <1>4
<1>6. ReleaseTyped' BY <1>1, <1>2, <1>3 DEF ReleaseTyped
<1>7. InPhase(command', op'.phase, new) BY <1>1, <1>3 DEF InPhase
<1>8. InTurn(op'.phase, new) BY <1>1, <1>3, <1>4 DEF InTurn, Prepared, ReleaseWhole
<1>9. Replaced(new, service') BY <1>1, <1>3, <1>4 DEF Replaced, ReleaseWhole
<1>10. Accounted(op'.phase, new, service') BY <1>1, <1>3, <1>4 DEF Accounted, ReleaseWhole
<1>11. Noticed(op.phase, op.monitors)' BY <1>1, <1>3, <1>4, <1>5 DEF Noticed, Prepared, ReleaseWhole, new
<1>12. StartingNow(op'.phase, new, service') BY <1>1, <1>3 DEF StartingNow, ReleaseWhole
<1> QED BY <1>6, <1>7, <1>8, <1>9, <1>10, <1>11, <1>12 DEF ReleaseWhole, new

\* A monitor that is down is noted as stopped.
LEMMA NoteStoppedKeeps ==
  ASSUME ReleaseWhole, RD!ReleaseAssumption, NEW m \in DOMAIN op.monitors, RD!NoteStopped(m)
  PROVE  ReleaseWhole'
<1> DEFINE ms == op.monitors
           new == op'.monitors
<1>0. RD!Noted(m, "stopped", TRUE) BY DEF RD!NoteStopped
<1>1. /\ op.phase = "preparing" /\ command.does = "begin" /\ Prepared(ms)
      /\ service[m].worker \in {"none", "gone"} /\ service[m].intent = "stopped"
      /\ UNCHANGED <<service, captured, command, halted, told, untold>>
  BY DEF RD!NoteStopped, RD!Stopping, RD!Stopped, RD!Beginning, RD!Configured, Prepared
<1>2. ReleaseTyped /\ Listing(op) /\ ms[m] \in Row BY DEF ReleaseWhole, ReleaseTyped, Listing
<1>3. /\ Listing(op') /\ op'.phase = op.phase /\ DOMAIN new = DOMAIN ms
      /\ new[m].replacement = ms[m].replacement /\ (new[m].config <=> ms[m].config) /\ new[m].stopped
      /\ (new[m].preflight <=> ms[m].preflight) /\ (new[m].restarted <=> ms[m].restarted)
      /\ \A x \in DOMAIN ms : x # m => new[x] = ms[x] BY <1>0, <1>2, RowNoted
<1> HIDE DEF new
<1>4. \A x \in DOMAIN ms :
        /\ new[x].replacement = ms[x].replacement /\ (new[x].config <=> ms[x].config)
        /\ (new[x].preflight <=> ms[x].preflight) /\ (new[x].restarted <=> ms[x].restarted)
        /\ ms[x].stopped => new[x].stopped
        /\ x # m => (new[x].stopped <=> ms[x].stopped) BY <1>3
<1>5. Prepared(new) BY <1>1, <1>3, <1>4 DEF Prepared
<1>6. ReleaseTyped' BY <1>1, <1>2, <1>3 DEF ReleaseTyped
<1>7. InPhase(command', op'.phase, new) BY <1>1, <1>3 DEF InPhase
<1>8. InTurn(op'.phase, new) BY <1>1, <1>3, <1>4, <1>5 DEF InTurn, ReleaseWhole
<1>9. Replaced(new, service')
  <2>1. Replaced(ms, service) /\ service' = service BY <1>1 DEF ReleaseWhole
  <2>2. service[m].worker \in {"none", "gone"} /\ service[m].intent = "stopped" BY <1>1
  <2> QED BY <1>3, <1>4, <2>1, <2>2 DEF Replaced
<1>10. Accounted(op'.phase, new, service') BY <1>1, <1>3, <1>4 DEF Accounted, ReleaseWhole
<1>11. Noticed(op.phase, op.monitors)'
  <2>0. m = CHOOSE x \in {y \in DOMAIN ms : ~ms[y].stopped} : TRUE
    BY DEF RD!NoteStopped, RD!Stopping, RD!ToStop
  <2>1. \A h \in halted : h \in DOMAIN ms /\ (ms[h].stopped \/ h = m) BY <2>0 DEF Noticed, ReleaseWhole
  <2>2. \A h \in halted : h \in DOMAIN new /\ new[h].stopped BY <2>1, <1>3, <1>4
  <2>3. \A x, y \in untold' : x = y BY <1>1 DEF Noticed, ReleaseWhole
  <2> QED BY <1>1, <1>3, <1>5, <2>2, <2>3 DEF Noticed, new
<1>12. StartingNow(op'.phase, new, service') BY <1>1, <1>3 DEF StartingNow, ReleaseWhole
<1> QED BY <1>6, <1>7, <1>8, <1>9, <1>10, <1>11, <1>12 DEF ReleaseWhole, new

\* What replaces a monitor runs, and its run is starting unless it ended.
LEMMA RestartedKeeps ==
  ASSUME ReleaseWhole, RD!ReleaseAssumption, NEW m \in DOMAIN op.monitors, RD!Restarted(m)
  PROVE  ReleaseWhole'
<1> DEFINE ms == op.monitors
           new == op'.monitors
           f == ms[m].replacement
           t == service'[f]
<1>0. RD!Noted(m, "restarted", TRUE) BY DEF RD!Restarted
<1>1. /\ command.does = "resume" /\ m \in command.todo
      /\ service[f].intent = "running" /\ service[f].worker # "none"
      /\ service' = service \/ service' = [service EXCEPT ![f] = [service[f] EXCEPT !.run = "starting"]]
      /\ command' = [command EXCEPT !.todo = command.todo \ {m}]
      /\ UNCHANGED <<captured, halted, told, untold>>
  BY DEF RD!Restarted, RD!Restarting, RD!Replacement, RD!Set
<1>2. ReleaseTyped /\ Listing(op) /\ ms[m] \in Row BY DEF ReleaseWhole, ReleaseTyped, Listing
<1>3. /\ Listing(op') /\ op'.phase = op.phase /\ DOMAIN new = DOMAIN ms
      /\ new[m].replacement = ms[m].replacement /\ (new[m].config <=> ms[m].config) /\ new[m].restarted
      /\ (new[m].preflight <=> ms[m].preflight) /\ (new[m].stopped <=> ms[m].stopped)
      /\ \A x \in DOMAIN ms : x # m => new[x] = ms[x] BY <1>0, <1>2, RowNoted
<1> HIDE DEF new
<1>4. \A x \in DOMAIN ms :
        /\ new[x].replacement = ms[x].replacement /\ (new[x].config <=> ms[x].config)
        /\ (new[x].preflight <=> ms[x].preflight) /\ (new[x].stopped <=> ms[x].stopped)
        /\ ms[x].restarted => new[x].restarted BY <1>3
<1>5. {y \in DOMAIN new : ~new[y].stopped} = {y \in DOMAIN ms : ~ms[y].stopped} BY <1>3, <1>4
<1>6. op.phase \in {"stopped", "restarted"} /\ \A x \in DOMAIN ms : ms[x].stopped
  BY <1>1 DEF ReleaseWhole, InPhase, InTurn
<1>7. f \in Service /\ f # NoService
  <2>1. ms[m].config /\ ms[m].stopped BY <1>1, <1>6 DEF ReleaseWhole, InPhase
  <2>2. f # NoService BY <2>1 DEF ReleaseWhole, InTurn, Prepared
  <2> QED BY <2>2, <1>2 DEF Row
<1>8. /\ KeptService(t) /\ t.intent = service[f].intent /\ t.worker = service[f].worker
      /\ t.run = service[f].run \/ t.run = "starting"
      /\ DOMAIN service' = Service /\ service' = [s \in Service |-> service'[s]]
      /\ \A s \in Service : s # f => service'[s] = service[s]
  <2>1. CASE service' = service BY <2>1, <1>2, <1>7 DEF ReleaseTyped
  <2>2. CASE service' = [service EXCEPT ![f] = [service[f] EXCEPT !.run = "starting"]]
    <3> DEFINE u == [service[f] EXCEPT !.run = "starting"]
    <3>1. KeptService(u) /\ u.intent = service[f].intent /\ u.worker = service[f].worker /\ u.run = "starting"
      BY <1>2, <1>7, FieldSet
    <3> HIDE DEF u
    <3>2. DOMAIN service = Service BY <1>2 DEF ReleaseTyped
    <3>3. service' = [service EXCEPT ![f] = u] BY <2>2 DEF u
    <3> QED BY <3>1, <3>2, <3>3, <1>7
  <2> QED BY <1>1, <2>1, <2>2
<1>9. command' \in Command /\ command'.does = "resume" /\ command'.todo = command.todo \ {m}
  BY <1>1, <1>2 DEF ReleaseTyped, Command
<1>10. DOMAIN ms \subseteq Service /\ \A x \in DOMAIN ms : ms[x].replacement \in Service \cup {NoService}
  BY <1>2 DEF Listing, Row
<1> HIDE DEF t, f
<1>11. ReleaseTyped' BY <1>1, <1>2, <1>3, <1>8, <1>9 DEF ReleaseTyped, t
<1>12. InPhase(command', op'.phase, new)
  <2>1. /\ command.todo \subseteq {x \in DOMAIN ms : ms[x].config}
        /\ \A x \in DOMAIN ms : ms[x].config /\ x \notin command.todo => ms[x].restarted
    BY <1>1 DEF InPhase, ReleaseWhole
  <2>2. command'.todo \subseteq {x \in DOMAIN new : new[x].config} BY <1>3, <1>4, <1>9, <2>1
  <2>3. \A x \in DOMAIN new : new[x].config /\ x \notin command'.todo => new[x].restarted
    BY <1>3, <1>4, <1>9, <2>1
  <2> QED BY <1>3, <1>6, <1>9, <2>2, <2>3 DEF InPhase
<1>13. InTurn(op'.phase, new) BY <1>3, <1>4 DEF InTurn, Prepared, ReleaseWhole
<1>14. \A s \in Service : service'[s].intent = service[s].intent /\ service'[s].worker = service[s].worker
                          /\ (service'[s].run = service[s].run \/ (s = f /\ service'[s].run = "starting"))
  <2> TAKE s \in Service
  <2>1. CASE s = f BY <1>8, <2>1 DEF t
  <2>2. CASE s # f BY <1>8, <2>2
  <2> QED BY <2>1, <2>2
<1>15. Replaced(new, service') BY <1>3, <1>4, <1>10, <1>14 DEF Replaced, ReleaseWhole
<1>16. Accounted(op'.phase, new, service') BY <1>3, <1>4, <1>14 DEF Accounted, ReleaseWhole
<1>17. Noticed(op.phase, op.monitors)' BY <1>1, <1>3, <1>4, <1>5 DEF Noticed, Prepared, ReleaseWhole, new
<1>18. StartingNow(op'.phase, new, service')
  <2> SUFFICES ASSUME NEW s \in Service, service'[s].run = "starting"
               PROVE  \E x \in DOMAIN new : new[x].restarted /\ new[x].replacement = s
    BY <1>3, <1>6 DEF StartingNow
  <2>1. CASE service[s].run = "starting" BY <2>1, <1>3, <1>4 DEF StartingNow, ReleaseWhole
  <2>2. CASE s = f BY <2>2, <1>3 DEF f
  <2> QED BY <1>14, <2>1, <2>2
<1> QED BY <1>11, <1>12, <1>13, <1>15, <1>16, <1>17, <1>18 DEF ReleaseWhole, new

(* What the command does to the release.                                   *)

\* The phase alone changes.
LEMMA PhaseSet ==
  ASSUME Listing(op), NEW p \in {"none", "quiescing", "preparing", "stopped", "restarted", "complete"},
         op' = [op EXCEPT !.phase = p]
  PROVE  Listing(op') /\ op'.phase = p /\ op'.monitors = op.monitors
<1>1. op = [phase |-> op.phase, revision |-> op.revision, monitors |-> op.monitors] BY DEF Listing
<1>2. op' = [phase |-> p, revision |-> op.revision, monitors |-> op.monitors] BY <1>1
<1>3. op'.phase = p /\ op'.monitors = op.monitors /\ op'.revision = op.revision BY <1>2
<1> QED BY <1>2, <1>3 DEF Listing

\* No command is one that is.
LEMMA NoCommandTyped ==
  RD!NoCommand \in Command /\ RD!NoCommand.does = "nothing" /\ RD!NoCommand.todo = {}
BY DEF RD!NoCommand, Command

\* All monitors are down, or all that replace them run.
LEMMA AllKeep ==
  ASSUME ReleaseWhole, RD!ReleaseAssumption, RD!AllStopped \/ RD!AllRestarted
  PROVE  ReleaseWhole'
<1> DEFINE ms == op.monitors
<1>1. ReleaseTyped /\ Listing(op) BY DEF ReleaseWhole, ReleaseTyped
<1>2. PICK p \in {"stopped", "restarted"} :
        /\ op' = [op EXCEPT !.phase = p]
        /\ command' = RD!NoCommand /\ UNCHANGED <<service, captured, halted, told, untold>>
        /\ op.phase \in {"preparing", "stopped", "restarted"}
        /\ p = "stopped" => RD!ToStop = {}
        /\ p = "restarted" => command.does = "resume" /\ command.todo = {}
  <2>1. CASE RD!AllStopped BY <2>1 DEF RD!AllStopped, RD!Beginning
  <2>2. CASE RD!AllRestarted BY <2>2 DEF RD!AllRestarted, ReleaseWhole, InPhase
  <2> QED BY <2>1, <2>2
<1>3. Listing(op') /\ op'.phase = p /\ op'.monitors = ms BY <1>1, <1>2, PhaseSet
<1>4. ReleaseTyped' BY <1>1, <1>2, <1>3, NoCommandTyped DEF ReleaseTyped
<1>5. InPhase(command', op'.phase, op'.monitors) BY <1>2, NoCommandTyped DEF InPhase
<1>6. InTurn(op'.phase, ms)
  <2>1. CASE p = "stopped"
    <3>1. \A m \in DOMAIN ms : ms[m].stopped BY <1>2, <2>1 DEF RD!ToStop
    <3> QED BY <1>3, <2>1, <3>1 DEF InTurn, ReleaseWhole
  <2>2. CASE p = "restarted"
    <3>1. op.phase \in {"stopped", "restarted"} /\ \A m \in DOMAIN ms : ms[m].config => ms[m].restarted
      BY <1>2, <2>2 DEF ReleaseWhole, InPhase
    <3> QED BY <1>3, <2>2, <3>1 DEF InTurn, ReleaseWhole
  <2> QED BY <2>1, <2>2
<1>7. Replaced(op'.monitors, service') /\ Accounted(op'.phase, op'.monitors, service')
  BY <1>2, <1>3 DEF ReleaseWhole, Accounted
<1>8. Noticed(op.phase, op.monitors)' BY <1>2, <1>3 DEF ReleaseWhole, Noticed
<1>9. StartingNow(op'.phase, op'.monitors, service') BY <1>2, <1>3 DEF ReleaseWhole, StartingNow
<1> QED BY <1>3, <1>4, <1>5, <1>6, <1>7, <1>8, <1>9 DEF ReleaseWhole

\* What is settled has no run that is starting, and nothing else changed.
LEMMA SettledRuns ==
  ASSUME ReleaseWhole
  PROVE  /\ DOMAIN RD!Settled = Service /\ RD!Settled = [s \in Service |-> RD!Settled[s]]
         /\ \A s \in Service :
              /\ KeptService(RD!Settled[s]) /\ RD!Settled[s].run # "starting"
              /\ RD!Settled[s].intent = service[s].intent /\ RD!Settled[s].worker = service[s].worker
              /\ service[s].run # "none" => RD!Settled[s].run # "none"
<1> DEFINE ms == op.monitors
           started == {ms[m].replacement : m \in {x \in DOMAIN ms : ms[x].restarted}}
           set == [s \in Service |-> IF s \in started /\ service[s].run # "ended"
                                       THEN [service[s] EXCEPT !.run = "running"] ELSE service[s]]
<1>1. RD!Settled = set BY DEF RD!Settled
<1>2. ReleaseTyped BY DEF ReleaseWhole
<1>3. \A s \in Service : service[s].run = "starting" => s \in started BY DEF ReleaseWhole, StartingNow
<1> HIDE DEF started
<1>4. ASSUME NEW s \in Service
      PROVE  /\ KeptService(set[s]) /\ set[s].run # "starting"
             /\ set[s].intent = service[s].intent /\ set[s].worker = service[s].worker
             /\ service[s].run # "none" => set[s].run # "none"
  <2> DEFINE t == [service[s] EXCEPT !.run = "running"]
  <2>1. KeptService(t) /\ t.intent = service[s].intent /\ t.worker = service[s].worker /\ t.run = "running"
    BY <1>2, FieldSet
  <2>2. KeptService(service[s]) BY <1>2 DEF ReleaseTyped
  <2>3. set[s] = t \/ (set[s] = service[s] /\ ~(s \in started /\ service[s].run # "ended")) OBVIOUS
  <2> HIDE DEF t, set
  <2> QED BY <1>3, <2>1, <2>2, <2>3
<1>5. DOMAIN set = Service /\ set = [s \in Service |-> set[s]] OBVIOUS
<1> HIDE DEF set
<1> QED BY <1>1, <1>4, <1>5

\* A release is over: it finished, or it was aborted.
LEMMA OverKeeps ==
  ASSUME ReleaseWhole, RD!ReleaseAssumption, NEW r, RD!Finish(r) \/ RD!Abort(r)
  PROVE  ReleaseWhole'
<1> DEFINE ms == op.monitors
<1>1. ReleaseTyped /\ Listing(op) BY DEF ReleaseWhole, ReleaseTyped
<1>2. /\ command = RD!NoCommand /\ op' = [op EXCEPT !.phase = "complete"]
      /\ service' = RD!Settled /\ UNCHANGED <<captured, command, halted>> BY DEF RD!Finish, RD!Abort, RD!Free
<1>3. Listing(op') /\ op'.phase = "complete" /\ op'.monitors = ms BY <1>1, <1>2, PhaseSet
<1>4. \A m \in halted : m \in DOMAIN ms /\ m \in Service BY <1>1 DEF ReleaseWhole, Noticed, ReleaseTyped
<1>5. /\ \A m \in halted : m \in told' \cup untold' \/ ms[m].restarted \/ ~ms[m].config
      /\ \A x, y \in untold' : x = y
      /\ told' \cup untold' \subseteq Service
  <2>1. CASE RD!Finish(r)
    <3>1. /\ op.phase = "restarted" /\ told' = told /\ untold' = untold BY <2>1 DEF RD!Finish
    <3> QED BY <1>1, <1>4, <3>1 DEF ReleaseWhole, InTurn, Noticed, ReleaseTyped
  <2>2. CASE RD!Abort(r)
    <3> DEFINE tell == {m \in DOMAIN ms :
                          ~ms[m].restarted /\ (ms[m].stopped \/ op.phase \in {"stopped", "restarted"})}
    <3>1. /\ told' = told \cup tell /\ untold' = {m \in halted \ tell : ~ms[m].restarted}
      BY <2>2 DEF RD!Abort, RD!ToTell
    <3>2. \A m \in untold' : m \in halted /\ ~ms[m].stopped BY <1>4, <3>1
    <3>3. \A x, y \in untold' : x = y BY <3>2 DEF ReleaseWhole, Noticed
    <3> QED BY <1>1, <1>3, <1>4, <3>1, <3>3 DEF ReleaseTyped, Listing
  <2> QED BY <2>1, <2>2
<1>6. ReleaseTyped' BY <1>1, <1>2, <1>3, <1>5, SettledRuns DEF ReleaseTyped
<1>7. InPhase(command', op'.phase, op'.monitors) BY <1>2, NoCommandTyped DEF InPhase
<1>8. InTurn(op'.phase, op'.monitors) BY <1>3 DEF InTurn, ReleaseWhole
<1>9. DOMAIN ms \subseteq Service /\ \A x \in DOMAIN ms : ms[x].replacement \in Service \cup {NoService}
  BY <1>1 DEF Listing, Row
<1>10. Replaced(op'.monitors, service')
  <2>1. \A s \in Service : /\ service'[s].intent = service[s].intent /\ service'[s].worker = service[s].worker
                           /\ service[s].run # "none" => service'[s].run # "none" BY <1>2, SettledRuns
  <2> QED BY <1>3, <1>9, <2>1 DEF Replaced, ReleaseWhole
<1>11. Accounted(op'.phase, op'.monitors, service') /\ StartingNow(op'.phase, op'.monitors, service')
  BY <1>2, <1>3, SettledRuns DEF Accounted, StartingNow
<1>12. Noticed(op.phase, op.monitors)'
  <2>1. halted' # {} => Prepared(ms) BY <1>2 DEF Noticed, ReleaseWhole
  <2>2. \A m \in halted' : ms[m].stopped \/ m = CHOOSE x \in {y \in DOMAIN ms : ~ms[y].stopped} : TRUE
    BY <1>2 DEF Noticed, ReleaseWhole
  <2> QED BY <1>2, <1>3, <1>4, <1>5, <2>1, <2>2 DEF Noticed
<1> QED BY <1>3, <1>6, <1>7, <1>8, <1>10, <1>11, <1>12 DEF ReleaseWhole

\* A release is planned: what is claimed is listed.
LEMMA ListKeeps ==
  ASSUME ReleaseWhole, RD!ReleaseAssumption, NEW r, RD!Reserve(r) \/ RD!Prepare(r)
  PROVE  ReleaseWhole'
<1>1. ReleaseTyped BY DEF ReleaseWhole
<1>2. PICK p \in {"quiescing", "preparing"}, again \in SUBSET Service :
        /\ op' = [phase |-> p, revision |-> r, monitors |-> RD!Listed(RD!Claims, again)]
        /\ op.phase \in {"none", "complete", "quiescing"}
        /\ command' \in {RD!NoCommand, [does |-> "begin", todo |-> {}]}
        /\ command'.does = "begin" => p = "preparing"
        /\ halted' = {} /\ told' = {} /\ untold' = {} /\ UNCHANGED <<service, captured>>
  <2>1. CASE RD!Reserve(r) BY <2>1, NoCommandTyped DEF RD!Reserve, RD!Free, RD!Open, RD!Claims
  <2>2. CASE RD!Prepare(r)
    <3>1. PICK retired : op' = [phase |-> "preparing", revision |-> r, monitors |->
                                  RD!Listed(RD!Claims, {m \in RD!Claims : service[m].intent = "running"} \ retired)]
      BY <2>2 DEF RD!Prepare
    <3>2. {m \in RD!Claims : service[m].intent = "running"} \ retired \in SUBSET Service BY DEF RD!Claims
    <3> QED BY <2>2, <3>1, <3>2 DEF RD!Prepare
  <2> QED BY <2>1, <2>2
<1>3. command' \in Command /\ command'.does \in {"nothing", "begin"} BY <1>2, NoCommandTyped DEF Command
<1> DEFINE entry(m) == [config |-> m \in again, replacement |-> NoService, preflight |-> FALSE,
                        stopped |-> FALSE, restarted |-> FALSE]
           ms == op'.monitors
<1>4. op'.phase = p /\ op'.revision = r /\ ms = [m \in RD!Claims |-> entry(m)]
      /\ op' = [phase |-> op'.phase, revision |-> op'.revision, monitors |-> op'.monitors]
  BY <1>2 DEF RD!Listed
<1>5. RD!Claims \subseteq Service /\ \A s \in Service : s \in RD!Claims <=> service[s].intent \in {"running", "stopping"}
  BY DEF RD!Claims
<1>6. /\ DOMAIN ms = RD!Claims /\ ms \in [DOMAIN ms -> Row]
      /\ \A m \in RD!Claims : /\ ms[m].replacement = NoService /\ ~ms[m].preflight /\ ~ms[m].stopped
                              /\ ~ms[m].restarted
  <2>1. \A m \in RD!Claims : /\ entry(m) \in Row /\ entry(m).replacement = NoService /\ ~entry(m).preflight
                             /\ ~entry(m).stopped /\ ~entry(m).restarted BY DEF Row
  <2> HIDE DEF entry
  <2> QED BY <1>4, <2>1
<1> HIDE DEF ms
<1>7. Listing(op') BY <1>4, <1>5, <1>6 DEF Listing, ms
<1>8. ReleaseTyped' BY <1>1, <1>2, <1>3, <1>7 DEF ReleaseTyped
<1>9. InPhase(command', op'.phase, ms) BY <1>2, <1>3, <1>4 DEF InPhase
<1>10. InTurn(op'.phase, ms) BY <1>2, <1>4, <1>6 DEF InTurn
<1>11. Replaced(ms, service') BY <1>2, <1>5, <1>6 DEF Replaced
<1>12. Accounted(op'.phase, ms, service') BY <1>2, <1>5, <1>6 DEF Accounted
<1>13. Noticed(op.phase, op.monitors)' BY <1>2 DEF Noticed
<1>14. StartingNow(op'.phase, ms, service') BY <1>2 DEF StartingNow, ReleaseWhole
<1> QED BY <1>8, <1>9, <1>10, <1>11, <1>12, <1>13, <1>14 DEF ReleaseWhole, ms

\* A command begins, goes on where it was killed, or is killed; launches are saved.
LEMMA CommandKeeps ==
  ASSUME ReleaseWhole, RD!ReleaseAssumption, NEW r,
         RD!BeginAgain(r) \/ RD!Resume(r) \/ RD!Interrupted \/ RD!Capture
  PROVE  ReleaseWhole'
<1>1. ReleaseTyped BY DEF ReleaseWhole
<1>2. UNCHANGED <<op, service, halted, told, untold>>
  BY DEF RD!BeginAgain, RD!Resume, RD!Interrupted, RD!Capture
<1>3. captured' \subseteq Service
  BY <1>1 DEF RD!BeginAgain, RD!Resume, RD!Interrupted, RD!Capture, RD!Claims, ReleaseTyped
<1>4. command' \in Command /\ InPhase(command', op.phase, op.monitors)
  <2>1. CASE RD!BeginAgain(r) BY <2>1 DEF RD!BeginAgain, Command, InPhase
  <2>2. CASE RD!Resume(r)
    <3>1. command' = [does |-> "resume", todo |-> RD!Configured] /\ op.phase \in {"stopped", "restarted"}
      BY <2>2 DEF RD!Resume
    <3>2. RD!Configured = {m \in DOMAIN op.monitors : op.monitors[m].config} /\ DOMAIN op.monitors \subseteq Service
      BY <1>1 DEF RD!Configured, ReleaseTyped, Listing
    <3> QED BY <3>1, <3>2 DEF Command, InPhase
  <2>3. CASE RD!Interrupted BY <2>3, NoCommandTyped DEF RD!Interrupted, InPhase
  <2>4. CASE RD!Capture BY <1>1, <2>4 DEF RD!Capture, ReleaseTyped, ReleaseWhole
  <2> QED BY <2>1, <2>2, <2>3, <2>4
<1>5. ReleaseTyped' BY <1>1, <1>2, <1>3, <1>4 DEF ReleaseTyped
<1> QED BY <1>2, <1>4, <1>5, NoticedStays DEF ReleaseWhole

\* Every step of a release keeps its invariant.
LEMMA ReleaseSteps ==
  ASSUME ReleaseWhole, RD!ReleaseAssumption, RD!Next \/ UNCHANGED RD!vars
  PROVE  ReleaseWhole'
<1>1. CASE RD!Next
  BY <1>1, OthersKeepRelease, CommandMoves, PrepareRunKeeps, PreflightKeeps, NoteStoppedKeeps,
     RestartedKeeps, AllKeep, OverKeeps, ListKeeps, CommandKeeps DEF RD!Next
<1>2. CASE UNCHANGED RD!vars
  <2>1. UNCHANGED <<op, service, captured, command, halted, told, untold>> BY <1>2 DEF RD!vars
  <2>2. ReleaseTyped' BY <2>1 DEF ReleaseTyped, ReleaseWhole
  <2> QED BY <2>1, <2>2, NoticedStays DEF ReleaseWhole
<1> QED BY <1>1, <1>2

\* There are no more monitors to run than the release has listed.
LEMMA FewRunning ==
  ASSUME ReleaseWhole, RD!ReleaseAssumption
  PROVE  RD!OneReplacement
<1> DEFINE ms == op.monitors
           running == {s \in Service : service[s].intent = "running"}
           other(m) == IF service[m].intent = "running" THEN m ELSE ms[m].replacement
           covered == {other(m) : m \in DOMAIN ms}
<1> SUFFICES ASSUME op.phase \in {"preparing", "stopped", "restarted"}
             PROVE  RD!Cardinality(running) <= RD!Cardinality(DOMAIN ms) BY DEF RD!OneReplacement
<1>1. IsFiniteSet(Service) /\ DOMAIN ms \subseteq Service /\ NoService \notin Service
  BY DEF RD!ReleaseAssumption, RD!IsFiniteSet, IsFiniteSet, ReleaseWhole, ReleaseTyped, Listing
<1>2. IsFiniteSet(DOMAIN ms) BY <1>1, FS_Subset
<1>3. running \subseteq covered
  <2> SUFFICES ASSUME NEW s \in Service, service[s].intent = "running" PROVE s \in covered OBVIOUS
  <2>1. s \in DOMAIN ms \/ \E m \in DOMAIN ms : ms[m].replacement = s BY DEF Accounted, ReleaseWhole
  <2>2. CASE s \in DOMAIN ms BY <2>2
  <2>3. ASSUME NEW m \in DOMAIN ms, ms[m].replacement = s PROVE s \in covered
    <3>1. service[m].intent = "stopped" BY <1>1, <2>3 DEF Replaced, ReleaseWhole
    <3>2. other(m) = s BY <2>3, <3>1
    <3> QED BY <3>2
  <2> QED BY <2>1, <2>2, <2>3
<1>4. IsFiniteSet(covered) /\ Cardinality(covered) <= Cardinality(DOMAIN ms)
  <2> DEFINE f == [m \in DOMAIN ms |-> other(m)]
  <2>1. f \in Surjection(DOMAIN ms, covered)
    <3> HIDE DEF other
    <3> QED BY DEF Surjection
  <2> HIDE DEF f, covered
  <2> QED BY <1>2, <2>1, FS_Surjection
<1>5. Cardinality(running) <= Cardinality(covered)
  <2> HIDE DEF running, covered
  <2> QED BY <1>3, <1>4, FS_Subset
<1> HIDE DEF running, covered
<1>6. IsFiniteSet(running) BY <1>3, <1>4, FS_Subset
<1>7. Cardinality(running) \in Nat /\ Cardinality(covered) \in Nat /\ Cardinality(DOMAIN ms) \in Nat
  BY <1>2, <1>4, <1>6, FS_CardinalityType
<1>8. RD!Cardinality(running) = Cardinality(running) /\ RD!Cardinality(DOMAIN ms) = Cardinality(DOMAIN ms)
  BY DEF RD!Cardinality, Cardinality, RD!IsFiniteSet, IsFiniteSet
<1> QED BY <1>4, <1>5, <1>7, <1>8

\* A release that is whole keeps its promises.
LEMMA ReleasePromise ==
  ASSUME ReleaseWhole, RD!ReleaseAssumption
  PROVE  /\ RD!ReleaseTypeOK /\ RD!NoMonitorLost /\ RD!NeverTogether /\ RD!OneReplacement
         /\ RD!RunsSettled
<1> DEFINE ms == op.monitors
<1>1. RD!ReleaseTypeOK
  BY DEF ReleaseWhole, ReleaseTyped, Listing, Row, KeptService, Command, RD!ReleaseTypeOK
<1>2. RD!NoMonitorLost
  <2>1. \A m \in halted : /\ m \in DOMAIN ms
                          /\ ms[m].config => ms[m].preflight
                          /\ RD!Open => m \in told \cup untold \/ ms[m].restarted \/ ~ms[m].config
    BY DEF ReleaseWhole, Noticed, Prepared, RD!Open
  <2>2. RD!Cardinality(untold) <= 1
    <3>1. untold = {} \/ \E x : untold = {x} BY DEF ReleaseWhole, Noticed
    <3>2. Cardinality(untold) <= 1
      <4>1. CASE untold = {} BY <4>1, FS_EmptySet
      <4>2. ASSUME NEW x, untold = {x} PROVE Cardinality(untold) <= 1
        <5>1. Cardinality({x}) = 1 BY FS_Singleton
        <5> QED BY <4>2, <5>1
      <4> QED BY <3>1, <4>1, <4>2
    <3>3. RD!Cardinality(untold) = Cardinality(untold)
      BY DEF RD!Cardinality, Cardinality, RD!IsFiniteSet, IsFiniteSet
    <3> QED BY <3>2, <3>3
  <2> QED BY <2>1, <2>2 DEF RD!NoMonitorLost
<1>3. RD!NeverTogether BY DEF ReleaseWhole, Replaced, RD!NeverTogether
<1>4. RD!RunsSettled BY DEF ReleaseWhole, StartingNow, RD!RunsSettled
<1> QED BY <1>1, <1>2, <1>3, <1>4, FewRunning

(* Retention.                                                              *)

Job == [there : BOOLEAN, scheduled : BOOLEAN, schedule : Schedule \cup {Default}, limit : Nat]

\* What a run of the cap works with, and what it dropped: days that were over when it began, and
\* nothing that it sees is older.
Capping(k) ==
  /\ k = [phase |-> k.phase, day |-> k.day, limit |-> k.limit, table |-> k.table,
          before |-> k.before, drops |-> k.drops]
  /\ k.phase \in {"rest", "failed", "look", "drop"} /\ k.drops \subseteq RT!Chunk
RunWhole(k, held, n) ==
  /\ Capping(k)
  /\ k.phase \in {"look", "drop"} =>
       /\ k.day \in Int /\ k.day <= n
       /\ \A c \in k.drops : c[2] < k.day /\ \A e \in held \ k.drops : c[2] <= e[2]
  /\ k.phase = "drop" =>
       /\ k.before \in Int /\ k.before <= k.day
       /\ \A e \in held \ k.drops : k.before <= e[2] + 1

\* Data is counted; a job keeps no negative number of days, and one that is not there has no schedule.
RetentionWhole ==
  /\ today \in Int /\ touches = [starts |-> touches.starts, edits |-> touches.edits]
  /\ DOMAIN rows = RT!Chunk /\ rows = [c \in RT!Chunk |-> rows[c]] /\ \A c \in RT!Chunk : rows[c] \in Nat
  /\ DOMAIN jobs = RT!Jobs /\ \A j \in RT!Jobs : jobs[j] \in Job /\ (~jobs[j].there => jobs[j].schedule = Default)
  /\ RunWhole(capping, RT!Held, today)

\* What a step does: it keeps the invariant, and what is promised of it.
RetentionStep == RetentionWhole' /\ RT!Ages /\ RT!Capped /\ RT!Reapplied

\* Chunks are of days.
LEMMA ChunkDays ==
  ASSUME NEW c \in RT!Chunk
  PROVE  c[1] \in Table /\ c[2] \in Int /\ c[1] \in RT!Jobs /\ "cap" \in RT!Jobs
BY AdministrationAssumption DEF RT!Chunk, RT!Days, RT!RetentionAssumption, RT!Jobs

\* What is left without some chunks.
LEMMA DropsThese ==
  ASSUME RetentionWhole, NEW gone, rows' = RT!Without(gone)
  PROVE  /\ DOMAIN rows' = RT!Chunk /\ rows' = [c \in RT!Chunk |-> rows'[c]]
         /\ \A c \in RT!Chunk : /\ rows'[c] \in Nat
                                /\ rows'[c] < rows[c] => c \in gone /\ rows'[c] = 0
         /\ RT!Held' = RT!Held \ gone
<1>1. \A c \in RT!Chunk : rows'[c] = IF c \in gone THEN 0 ELSE rows[c] BY DEF RT!Without
<1>2. DOMAIN rows' = RT!Chunk /\ rows' = [c \in RT!Chunk |-> rows'[c]] BY DEF RT!Without
<1>3. \A c \in RT!Chunk : /\ rows'[c] \in Nat
                          /\ rows'[c] < rows[c] => c \in gone /\ rows'[c] = 0
                          /\ rows'[c] > 0 <=> (rows[c] > 0 /\ c \notin gone) BY <1>1 DEF RetentionWhole
<1>4. RT!Held' = RT!Held \ gone BY <1>3 DEF RT!Held
<1> QED BY <1>2, <1>3, <1>4

\* A run at rest, or one that failed, holds nothing.
LEMMA NoRun ==
  ASSUME NEW k, k = RT!Resting \/ k = RT!Failed, NEW held, NEW n
  PROVE  RunWhole(k, held, n) /\ k.phase \in {"rest", "failed"} /\ (k = RT!Resting => k.phase = "rest")
BY DEF RT!Resting, RT!Failed, RunWhole, Capping

\* What is held may become less, and the day later.
LEMMA RunGoesOn ==
  ASSUME NEW k, NEW held, NEW less, less \subseteq held, NEW n \in Int, NEW m \in Int, n <= m, RunWhole(k, held, n)
  PROVE  RunWhole(k, less, m)
BY DEF RunWhole, Capping

\* It begins so.
LEMMA RetentionStart ==
  ASSUME RT!Init
  PROVE  RetentionWhole
<1>1. /\ today = 0 /\ rows = [c \in RT!Chunk |-> 0] /\ capping = RT!Resting
      /\ settings \in Settings /\ jobs = [j \in RT!Jobs |-> RT!Reconciled(RT!NoJob, j, settings)]
      /\ touches = [starts |-> 0, edits |-> 0]
  BY DEF RT!Init
<1>2. ASSUME NEW j \in RT!Jobs
      PROVE  LET job == RT!Reconciled(RT!NoJob, j, settings) IN job \in Job /\ job.schedule = Default
  BY <1>1, AdministrationAssumption DEF RT!Reconciled, RT!NoJob, RT!Wanted, RT!RetentionAssumption, Job
<1>3. RunWhole(capping, RT!Held, today) BY <1>1, NoRun
<1> QED BY <1>1, <1>2, <1>3 DEF RetentionWhole

\* What a start makes of a job.
LEMMA JobReconciled ==
  ASSUME NEW job \in Job, NEW j, NEW s \in Settings, ~job.there => job.schedule = Default
  PROVE  LET new == RT!Reconciled(job, j, s) IN
         /\ new \in Job /\ (new.there <=> ~ (j = "cap" /\ s.cap = 0)) /\ (~new.there => new.schedule = Default)
         /\ new.there => /\ new.schedule = (IF job.there THEN job.schedule ELSE Default) /\ new.scheduled
                         /\ new.limit = (IF j = "cap" THEN s.cap ELSE s.days)
<1>1. s.days \in Nat /\ s.cap \in Nat BY AdministrationAssumption DEF RT!RetentionAssumption
<1>2. CASE j = "cap" /\ s.cap = 0 BY <1>2 DEF RT!Reconciled, RT!NoJob, Job
<1>3. CASE ~ (j = "cap" /\ s.cap = 0)
  <2> DEFINE new == [job EXCEPT !.there = TRUE, !.scheduled = TRUE, !.limit = RT!Wanted(j, s)]
  <2>1. RT!Reconciled(job, j, s) = new BY <1>3 DEF RT!Reconciled
  <2>2. RT!Wanted(j, s) = (IF j = "cap" THEN s.cap ELSE s.days) BY DEF RT!Wanted
  <2>3. new \in Job /\ new.there /\ new.scheduled /\ new.schedule = job.schedule /\ new.limit = RT!Wanted(j, s)
    BY <1>1, <2>2 DEF Job
  <2> HIDE DEF new
  <2> QED BY <1>1, <1>3, <2>1, <2>2, <2>3
<1> QED BY <1>2, <1>3

\* When no row is dropped, no run of the cap goes on and no service starts, nothing is promised.
LEMMA NothingDropped ==
  ASSUME RetentionWhole, RetentionWhole', \A c \in RT!Chunk : ~ (rows'[c] < rows[c]),
         capping' = capping \/ (capping'.phase \in {"look", "failed"}), touches'.starts = touches.starts
  PROVE  RetentionStep
BY DEF RetentionStep, RT!Ages, RT!Capped, RT!Reapplied

\* Measurements arrive: none that is older than what the cap dropped or is about to drop.
LEMMA ArriveSteps ==
  ASSUME RetentionWhole, RT!Arrive
  PROVE  RetentionStep
<1>1. PICK t \in Table, d \in {today, today - 1} \cap RT!Days : rows' = [rows EXCEPT ![<<t, d>>] = @ + 1]
  BY DEF RT!Arrive
<1>2. UNCHANGED <<today, jobs, capping, settings, touches>> BY DEF RT!Arrive
<1> DEFINE new == <<t, d>>
<1>3. new \in RT!Chunk /\ new[2] = d BY <1>1 DEF RT!Chunk
<1>4. today \in Int /\ d \in Int /\ d >= today - 1 BY <1>1 DEF RetentionWhole
<1> HIDE DEF new
<1>5. rows' = [rows EXCEPT ![new] = @ + 1] BY <1>1 DEF new
<1>6. /\ DOMAIN rows' = RT!Chunk /\ rows' = [c \in RT!Chunk |-> rows'[c]]
      /\ \A c \in RT!Chunk : rows'[c] \in Nat /\ ~ (rows'[c] < rows[c])
      /\ \A c \in RT!Chunk : c # new => rows'[c] = rows[c] BY <1>3, <1>5 DEF RetentionWhole
<1>7. \A c \in RT!Held' : c \in RT!Held \/ c = new BY <1>6 DEF RT!Held
<1>8. RunWhole(capping, RT!Held', today)
  <2>1. RunWhole(capping, RT!Held, today) /\ Capping(capping) BY DEF RetentionWhole, RunWhole
  <2>2. ASSUME capping.phase \in {"look", "drop"}
        PROVE  \A c \in capping.drops : c[2] < capping.day /\ \A e \in RT!Held' \ capping.drops : c[2] <= e[2]
    <3> SUFFICES ASSUME NEW c \in capping.drops
                 PROVE  c[2] < capping.day /\ \A e \in RT!Held' \ capping.drops : c[2] <= e[2] OBVIOUS
    <3>1. c[2] \in Int /\ c[2] < capping.day /\ capping.day \in Int /\ capping.day <= today
      BY <2>1, <2>2, ChunkDays DEF RunWhole, Capping
    <3>2. c[2] <= new[2] BY <3>1, <1>3, <1>4
    <3> QED BY <2>1, <2>2, <3>1, <3>2, <1>7 DEF RunWhole
  <2>3. ASSUME capping.phase = "drop"
        PROVE  \A e \in RT!Held' \ capping.drops : capping.before <= e[2] + 1
    <3>1. /\ capping.before \in Int /\ capping.before <= capping.day /\ capping.day \in Int /\ capping.day <= today
          /\ \A e \in RT!Held \ capping.drops : capping.before <= e[2] + 1
      BY <2>1, <2>3 DEF RunWhole
    <3>2. capping.before <= new[2] + 1 BY <3>1, <1>3, <1>4
    <3> QED BY <3>1, <3>2, <1>7
  <2> QED BY <2>1, <2>2, <2>3 DEF RunWhole
<1>9. RetentionWhole' BY <1>2, <1>6, <1>8 DEF RetentionWhole
<1> QED BY <1>2, <1>6, <1>9, NothingDropped

\* A day passes.
LEMMA MidnightSteps ==
  ASSUME RetentionWhole, RT!Midnight
  PROVE  RetentionStep
<1>1. today' = today + 1 /\ UNCHANGED <<rows, jobs, capping, settings, touches>> BY DEF RT!Midnight
<1>2. RT!Held' = RT!Held BY <1>1 DEF RT!Held
<1>3. \A c \in RT!Chunk : ~ (rows'[c] < rows[c]) BY <1>1 DEF RetentionWhole
<1>4. RunWhole(capping, RT!Held, today') BY <1>1, RunGoesOn DEF RetentionWhole
<1>5. RetentionWhole' BY <1>1, <1>2, <1>4 DEF RetentionWhole
<1> QED BY <1>1, <1>3, <1>5, NothingDropped

\* A policy drops what is older than its table keeps.
LEMMA RetainSteps ==
  ASSUME RetentionWhole, NEW t \in Table, RT!Retain(t)
  PROVE  RetentionStep
<1> DEFINE day == today - jobs[t].limit
<1>1. /\ rows' = RT!Without(RT!Before(t, day)) /\ jobs[t].scheduled
      /\ UNCHANGED <<today, jobs, capping, settings, touches>> BY DEF RT!Retain
<1> HIDE DEF day
<1>2. /\ DOMAIN rows' = RT!Chunk /\ rows' = [c \in RT!Chunk |-> rows'[c]]
      /\ \A c \in RT!Chunk : rows'[c] \in Nat /\ (rows'[c] < rows[c] => c \in RT!Before(t, day) /\ rows'[c] = 0)
      /\ RT!Held' \subseteq RT!Held BY <1>1, DropsThese
<1>3. RunWhole(capping, RT!Held', today) BY <1>2, RunGoesOn DEF RetentionWhole
<1>4. RetentionWhole' BY <1>1, <1>2, <1>3 DEF RetentionWhole
<1>5. \A c \in RT!Chunk : rows'[c] < rows[c] =>
        rows'[c] = 0 /\ jobs[c[1]].scheduled /\ c[2] < today - jobs[c[1]].limit
  BY <1>1, <1>2 DEF RT!Before, day
<1>6. RT!Ages BY <1>1, <1>5 DEF RT!Ages
<1> QED BY <1>1, <1>4, <1>6 DEF RetentionStep, RT!Capped, RT!Reapplied

\* A run of the cap begins: it dropped nothing.
LEMMA BeginSteps ==
  ASSUME RetentionWhole, RT!Begin
  PROVE  RetentionStep
<1>1. /\ UNCHANGED <<today, rows, jobs, settings, touches>>
      /\ capping' = [RT!Resting EXCEPT !.phase = "look", !.day = today, !.limit = jobs["cap"].limit]
  BY DEF RT!Begin
<1>2. /\ capping'.phase = "look" /\ capping'.day = today /\ capping'.drops = {} /\ Capping(capping')
  BY <1>1 DEF RT!Resting, Capping
<1>3. RunWhole(capping', RT!Held', today) BY <1>2 DEF RunWhole, RetentionWhole
<1>4. RetentionWhole' BY <1>1, <1>3 DEF RetentionWhole
<1>5. \A c \in RT!Chunk : ~ (rows'[c] < rows[c]) BY <1>1 DEF RetentionWhole
<1> QED BY <1>1, <1>2, <1>4, <1>5, NothingDropped

\* The run finds the oldest chunk that was over when it began: nothing that it sees is older.
LEMMA ChooseSteps ==
  ASSUME RetentionWhole, RT!Choose
  PROVE  RetentionStep
<1>1. UNCHANGED <<today, rows, jobs, settings, touches>> /\ capping.phase = "look" /\ ~ (RT!Total <= capping.limit)
  BY DEF RT!Choose
<1>2. PICK c \in RT!Ended : /\ RT!First(c)
                            /\ capping' = [capping EXCEPT !.phase = "drop", !.table = c[1], !.before = c[2] + 1]
  BY DEF RT!Choose
<1>3. /\ capping'.phase = "drop" /\ capping'.before = c[2] + 1 /\ capping'.day = capping.day
      /\ capping'.drops = capping.drops /\ Capping(capping')
  BY <1>2 DEF RetentionWhole, RunWhole, Capping
<1>4. RT!Held' = RT!Held /\ \A x \in RT!Chunk : ~ (rows'[x] < rows[x]) BY <1>1 DEF RT!Held, RetentionWhole
<1>5. c[2] \in Int /\ c[2] < capping.day /\ capping.day \in Int
  BY <1>1, ChunkDays DEF RT!Ended, RT!Over, RT!Left, RT!Held, RetentionWhole, RunWhole
<1>6. \A e \in RT!Held \ capping.drops : capping'.before <= e[2] + 1
  <2> SUFFICES ASSUME NEW e \in RT!Held \ capping.drops PROVE c[2] <= e[2]
    BY <1>3, <1>5, ChunkDays DEF RT!Held
  <2>1. e[2] \in Int BY ChunkDays DEF RT!Held
  <2>2. CASE e[2] < capping.day BY <1>2, <2>2 DEF RT!First, RT!Ended, RT!Over, RT!Left
  <2>3. CASE e[2] >= capping.day BY <1>5, <2>1, <2>3
  <2> QED BY <1>5, <2>1, <2>2, <2>3
<1>7. RunWhole(capping', RT!Held', today)
  BY <1>1, <1>3, <1>4, <1>5, <1>6 DEF RunWhole, RetentionWhole
<1>8. RetentionWhole' BY <1>1, <1>7 DEF RetentionWhole
<1> QED BY <1>1, <1>3, <1>4, <1>8 DEF RetentionStep, RT!Ages, RT!Capped, RT!Reapplied

\* What was chosen is dropped, with what else of its table is older.
LEMMA DropSteps ==
  ASSUME RetentionWhole, RT!Drop
  PROVE  RetentionStep
<1> DEFINE old == RT!Before(capping.table, capping.before)
<1>1. /\ capping.phase = "drop" /\ UNCHANGED <<today, rows, jobs, settings, touches>>
      /\ capping' = [capping EXCEPT !.phase = "look", !.table = "none", !.before = 0, !.drops = @ \cup old]
  BY DEF RT!Drop
<1>2. old \subseteq RT!Held /\ RT!Held \subseteq RT!Chunk /\ \A c \in old : c[2] \in Int /\ c[2] < capping.before
  BY ChunkDays DEF RT!Before, RT!Held
<1> HIDE DEF old
<1>3. Capping(capping) BY DEF RetentionWhole, RunWhole
<1>4. /\ capping'.phase = "look" /\ capping'.day = capping.day /\ capping'.drops = capping.drops \cup old
      /\ Capping(capping')
  BY <1>1, <1>2, <1>3 DEF Capping
<1>5. /\ capping.before \in Int /\ capping.before <= capping.day /\ capping.day \in Int /\ capping.day <= today
      /\ \A c \in capping.drops : c[2] < capping.day /\ \A e \in RT!Held \ capping.drops : c[2] <= e[2]
      /\ \A e \in RT!Held \ capping.drops : capping.before <= e[2] + 1
  BY <1>1 DEF RetentionWhole, RunWhole
<1>6. \A c \in capping'.drops : c[2] < capping.day /\ \A e \in RT!Held \ capping'.drops : c[2] <= e[2]
  <2> SUFFICES ASSUME NEW c \in capping'.drops
               PROVE  c[2] < capping.day /\ \A e \in RT!Held \ capping'.drops : c[2] <= e[2] OBVIOUS
  <2>1. CASE c \in capping.drops BY <2>1, <1>4, <1>5
  <2>2. CASE c \in old
    <3>1. c[2] < capping.day BY <2>2, <1>2, <1>5
    <3>2. \A e \in RT!Held \ capping'.drops : e[2] \in Int /\ capping.before <= e[2] + 1
      BY <1>2, <1>4, <1>5, ChunkDays
    <3> QED BY <2>2, <3>1, <3>2, <1>2, <1>5
  <2> QED BY <1>4, <2>1, <2>2
<1>7. RT!Held' = RT!Held /\ \A x \in RT!Chunk : ~ (rows'[x] < rows[x]) BY <1>1 DEF RT!Held, RetentionWhole
<1>8. RunWhole(capping', RT!Held', today) BY <1>4, <1>5, <1>6, <1>7 DEF RunWhole
<1>9. RetentionWhole' BY <1>1, <1>8 DEF RetentionWhole
<1> QED BY <1>1, <1>4, <1>7, <1>9, NothingDropped

\* The run commits.
LEMMA FinishSteps ==
  ASSUME RetentionWhole, RT!Finish
  PROVE  RetentionStep
<1>1. /\ capping.phase = "look" /\ (RT!Total <= capping.limit \/ RT!Ended = {})
      /\ rows' = RT!Without(capping.drops) /\ capping' = RT!Resting
      /\ UNCHANGED <<today, jobs, settings, touches>>
  BY DEF RT!Finish
<1>2. /\ DOMAIN rows' = RT!Chunk /\ rows' = [c \in RT!Chunk |-> rows'[c]]
      /\ \A c \in RT!Chunk : rows'[c] \in Nat /\ (rows'[c] < rows[c] => c \in capping.drops /\ rows'[c] = 0)
      /\ RT!Held' = RT!Held \ capping.drops BY <1>1, DropsThese
<1>3. RunWhole(capping', RT!Held', today) /\ capping'.phase = "rest" BY <1>1, NoRun
<1>4. RetentionWhole' BY <1>1, <1>2, <1>3 DEF RetentionWhole
<1>5. /\ capping.day \in Int /\ capping.day <= today
      /\ \A c \in capping.drops : c[2] < capping.day /\ \A e \in RT!Held' : c[2] <= e[2]
  BY <1>1, <1>2 DEF RetentionWhole, RunWhole
<1>6. capping' # capping BY <1>1, <1>3
<1>7. RT!Ages BY <1>2, <1>3, <1>5, <1>6 DEF RT!Ages
<1>8. RT!Ended = {} => \A c \in RT!Held' : c[2] >= capping.day
  <2> SUFFICES ASSUME RT!Ended = {}, NEW c \in RT!Held' PROVE c[2] >= capping.day OBVIOUS
  <2>1. c \in RT!Held \ capping.drops /\ c[2] \in Int BY <1>2, ChunkDays DEF RT!Held
  <2>2. ~ (c[2] < capping.day) BY <2>1 DEF RT!Ended, RT!Over, RT!Left
  <2> QED BY <1>5, <2>1, <2>2
<1>9. RT!Capped BY <1>1, <1>8 DEF RT!Capped
<1> QED BY <1>1, <1>4, <1>7, <1>9 DEF RetentionStep, RT!Reapplied

\* A run that fails drops nothing.
LEMMA AbandonSteps ==
  ASSUME RetentionWhole, RT!Abandon
  PROVE  RetentionStep
<1>1. UNCHANGED <<today, rows, jobs, settings, touches>> /\ capping' = RT!Failed BY DEF RT!Abandon
<1>2. RunWhole(capping', RT!Held', today) /\ capping'.phase = "failed"
  BY <1>1 DEF RT!Failed, RT!Resting, RunWhole, Capping
<1>3. RetentionWhole' BY <1>1, <1>2 DEF RetentionWhole
<1>4. \A c \in RT!Chunk : ~ (rows'[c] < rows[c]) BY <1>1 DEF RetentionWhole
<1> QED BY <1>1, <1>2, <1>3, <1>4, NothingDropped

\* A run goes on with what it began with, or fails with its job.
LEMMA RunTakenAlong ==
  ASSUME RetentionWhole, capping' = RT!Running, UNCHANGED <<today, rows>>
  PROVE  /\ RunWhole(capping', RT!Held', today') /\ (capping' = capping \/ capping'.phase = "failed")
         /\ \A c \in RT!Chunk : ~ (rows'[c] < rows[c])
<1>1. RT!Held' = RT!Held /\ RunWhole(capping, RT!Held, today) /\ \A c \in RT!Chunk : ~ (rows'[c] < rows[c])
  BY DEF RetentionWhole, RT!Held
<1>2. CASE capping' = capping BY <1>1, <1>2
<1>3. CASE capping' = RT!Failed
  <2>1. RunWhole(capping', RT!Held', today') BY <1>3, NoRun
  <2>2. capping'.phase = "failed" BY <1>3 DEF RT!Failed, RT!Resting
  <2> QED BY <1>1, <2>1, <2>2
<1> QED BY <1>2, <1>3 DEF RT!Running

\* The services start.
LEMMA StartSteps ==
  ASSUME RetentionWhole, RT!Start
  PROVE  RetentionStep
<1>1. PICK s \in Settings : /\ settings' = s
                            /\ jobs' = [j \in RT!Jobs |-> RT!Reconciled(jobs[j], j, s)] BY DEF RT!Start
<1>2. /\ capping' = RT!Running /\ UNCHANGED <<today, rows>> /\ touches' = [touches EXCEPT !.starts = @ + 1]
  BY DEF RT!Start
<1>3. ASSUME NEW j \in RT!Jobs
      PROVE  /\ jobs'[j] \in Job /\ (jobs'[j].there <=> ~ (j = "cap" /\ s.cap = 0))
             /\ ~jobs'[j].there => jobs'[j].schedule = Default
             /\ jobs'[j].there => /\ jobs'[j].schedule = (IF jobs[j].there THEN jobs[j].schedule ELSE Default)
                                  /\ jobs'[j].scheduled
                                  /\ jobs'[j].limit = (IF j = "cap" THEN s.cap ELSE s.days)
  <2>1. jobs[j] \in Job /\ jobs'[j] = RT!Reconciled(jobs[j], j, s) /\ (~jobs[j].there => jobs[j].schedule = Default)
    BY <1>1 DEF RetentionWhole
  <2> QED BY <2>1, JobReconciled
<1>4. /\ RunWhole(capping', RT!Held', today') /\ (capping' = capping \/ capping'.phase = "failed")
      /\ \A c \in RT!Chunk : ~ (rows'[c] < rows[c]) BY <1>2, RunTakenAlong
<1>5. touches' = [starts |-> touches'.starts, edits |-> touches'.edits] BY <1>2 DEF RetentionWhole
<1>6. RetentionWhole'
  <2>1. DOMAIN jobs' = RT!Jobs BY <1>1
  <2> QED BY <1>2, <1>3, <1>4, <1>5, <2>1 DEF RetentionWhole
<1>7. RT!Ages /\ RT!Capped BY <1>4 DEF RT!Ages, RT!Capped
<1>8. RT!Reapplied BY <1>1, <1>3 DEF RT!Reapplied
<1> QED BY <1>6, <1>7, <1>8 DEF RetentionStep

\* An operator touches a job.
LEMMA OperateSteps ==
  ASSUME RetentionWhole, RT!Operate
  PROVE  RetentionStep
<1> DEFINE Sound(x) == x \in Job /\ (~x.there => x.schedule = Default)
<1>1. /\ capping' = RT!Running /\ UNCHANGED <<today, rows>> /\ touches' = [touches EXCEPT !.edits = @ + 1]
  BY DEF RT!Operate
<1>2. PICK j \in RT!Jobs : \E x : Sound(x) /\ jobs' = [jobs EXCEPT ![j] = x]
  <2>1. ASSUME NEW j \in RT!Jobs, jobs[j].there, NEW s \in Schedule, jobs' = [jobs EXCEPT ![j].schedule = s]
        PROVE  \E x : Sound(x) /\ jobs' = [jobs EXCEPT ![j] = x]
    <3> DEFINE x == [jobs[j] EXCEPT !.schedule = s]
    <3>1. Sound(x) BY <2>1 DEF RetentionWhole, Job
    <3>2. jobs' = [jobs EXCEPT ![j] = x] BY <2>1
    <3> QED BY <3>1, <3>2
  <2>2. ASSUME NEW j \in RT!Jobs, jobs' = [jobs EXCEPT ![j].scheduled = FALSE]
        PROVE  \E x : Sound(x) /\ jobs' = [jobs EXCEPT ![j] = x]
    <3> DEFINE x == [jobs[j] EXCEPT !.scheduled = FALSE]
    <3>1. Sound(x) BY DEF RetentionWhole, Job
    <3>2. jobs' = [jobs EXCEPT ![j] = x] BY <2>2
    <3> QED BY <3>1, <3>2
  <2>3. ASSUME NEW j \in RT!Jobs, NEW s \in Settings, jobs' = [jobs EXCEPT ![j].limit = RT!Wanted(j, s)]
        PROVE  \E x : Sound(x) /\ jobs' = [jobs EXCEPT ![j] = x]
    <3> DEFINE x == [jobs[j] EXCEPT !.limit = RT!Wanted(j, s)]
    <3>1. RT!Wanted(j, s) \in Nat BY AdministrationAssumption DEF RT!Wanted, RT!RetentionAssumption
    <3>2. Sound(x) BY <3>1 DEF RetentionWhole, Job
    <3>3. jobs' = [jobs EXCEPT ![j] = x] BY <2>3
    <3> QED BY <3>2, <3>3
  <2>4. Sound(RT!NoJob) BY DEF RT!NoJob, Job
  <2> HIDE DEF Sound
  <2> QED BY <2>1, <2>2, <2>3, <2>4 DEF RT!Operate
<1>3. DOMAIN jobs' = RT!Jobs /\ \A i \in RT!Jobs : jobs'[i] \in Job /\ (~jobs'[i].there => jobs'[i].schedule = Default)
  BY <1>2 DEF RetentionWhole
<1>4. /\ RunWhole(capping', RT!Held', today') /\ (capping' = capping \/ capping'.phase = "failed")
      /\ \A c \in RT!Chunk : ~ (rows'[c] < rows[c]) BY <1>1, RunTakenAlong
<1>5. touches' = [starts |-> touches'.starts, edits |-> touches'.edits] /\ touches'.starts = touches.starts
  BY <1>1 DEF RetentionWhole
<1>6. RetentionWhole' BY <1>1, <1>3, <1>4, <1>5 DEF RetentionWhole
<1> QED BY <1>4, <1>5, <1>6, NothingDropped

\* Every step keeps the invariant and what is promised of it.
LEMMA RetentionSteps ==
  ASSUME RetentionWhole, RT!Next
  PROVE  RetentionStep
BY ArriveSteps, MidnightSteps, RetainSteps, BeginSteps, ChooseSteps, DropSteps, FinishSteps, AbandonSteps,
   StartSteps, OperateSteps DEF RT!Next

\* When nothing happens, the invariant stays.
LEMMA RetentionStays ==
  ASSUME RetentionWhole, UNCHANGED RT!retentionVars
  PROVE  RetentionWhole'
<1>1. UNCHANGED <<today, rows, jobs, capping, touches>> BY DEF RT!retentionVars
<1> QED BY <1>1 DEF RetentionWhole, RT!Held

(* The library of designs.                                                 *)

\* A row of a design.
DesignRow == [version : Nat \ {0}, draft : Draft, archived : BOOLEAN]

\* What an author has loaded is the row there is, or an earlier version of it.
LoadedTruly(l) ==
  /\ {"row", "layout"} \subseteq DOMAIN l /\ l = [row |-> l.row, layout |-> l.layout]
  /\ l.row \in DesignRow /\ l.row.version <= row.version
  /\ l.row.version = row.version => l.row = row

\* What a transaction writes, over what its author saw.
WrittenOver(w, l) ==
  /\ w.kind \in {"none", "draft", "metadata", "publish", "layout"}
  /\ w.kind \in {"draft", "metadata", "publish"} =>
       w.draft \in Draft /\ w.archived \in BOOLEAN /\ l.row = row
  /\ w.kind = "publish" => w.draft \in Compiles
  /\ w.kind = "layout" => l.layout = layout

\* The pages of the revisions, down to where the reader is.
PagedDown ==
  /\ page = [open |-> page.open, newest |-> page.newest, before |-> page.before, seen |-> page.seen]
  /\ page.open \in BOOLEAN /\ page.newest \in Nat /\ page.before \in Nat /\ page.seen \in Seq(Int)
  /\ \A k \in 1 .. Len(page.seen) : page.seen[k] = page.newest - k + 1
  /\ page.open => IF page.before = 0 THEN Len(page.seen) = page.newest
                                     ELSE Len(page.seen) = page.newest - page.before + 1
  /\ ~page.open => page.seen = << >>

\* The inductive invariant of the library: one transaction at a time, over what its author saw; fewer
\* revisions than versions.
LibraryWhole ==
  /\ row \in DesignRow /\ revisions \in Seq(Compiles) /\ Len(revisions) < row.version
  /\ DOMAIN loaded = Author /\ DOMAIN write = Author
  /\ loaded = [a \in Author |-> loaded[a]] /\ write = [a \in Author |-> write[a]]
  /\ \A a \in Author : LoadedTruly(loaded[a]) /\ WrittenOver(write[a], loaded[a])
  /\ \A a, b \in Author : write[a].kind # "none" /\ write[b].kind # "none" => a = b
  /\ PagedDown

\* The bounds of the library.
LEMMA LibrarySizes == Compiles \subseteq Draft /\ Limit \in Nat \ {0} /\ MaxEdits \in Nat
BY AdministrationAssumption DEF PL!LibraryAssumption

\* It begins with a design that nobody edits.
LEMMA LibraryStarts ==
  ASSUME PL!Init
  PROVE  LibraryWhole
<1>1. row \in DesignRow /\ row.version = 1
  <2>1. row \in [version : {1}, draft : Draft, archived : {FALSE}] BY DEF PL!Init
  <2>2. row = [version |-> 1, draft |-> row.draft, archived |-> FALSE] /\ row.draft \in Draft BY <2>1
  <2>3. [version |-> 1, draft |-> row.draft, archived |-> FALSE] \in DesignRow BY <2>2 DEF DesignRow
  <2> QED BY <2>1, <2>2, <2>3
<1>2. revisions \in Seq(Compiles) /\ Len(revisions) = 0 BY DEF PL!Init
<1>3. \A a \in Author : LoadedTruly(loaded[a]) /\ WrittenOver(write[a], loaded[a])
  BY <1>1 DEF PL!Init, LoadedTruly, WrittenOver, PL!NoWrite
<1>4. PagedDown BY DEF PL!Init, PL!NoPage, PagedDown
<1> QED BY <1>1, <1>2, <1>3, <1>4 DEF PL!Init, LibraryWhole, PL!NoWrite

\* A page takes up where the one before it ended.
LEMMA NextPage ==
  ASSUME PagedDown, NEW r \in Nat, NEW before,
         page.open => page.before > 0,
         before = IF page.open THEN page.before ELSE r + 1,
         page' = [open |-> TRUE, before |-> PL!NextBefore(before), seen |-> page.seen \o PL!Before(before),
                  newest |-> IF page.open THEN page.newest ELSE r]
  PROVE  PagedDown'
<1> DEFINE b == PL!Before(before)
           top == IF page.open THEN page.newest ELSE r
           size == IF before - 1 <= Limit THEN before - 1 ELSE Limit
<1>1. page.seen \in Seq(Int) /\ Len(page.seen) \in Nat /\ page.newest \in Nat /\ page.before \in Nat /\ page.open \in BOOLEAN
  BY DEF PagedDown
<1>2. before \in Nat /\ before > 0 BY <1>1
<1>3. size \in Nat /\ size <= before - 1 BY <1>2, LibrarySizes
<1>4. b = [k \in 1 .. size |-> before - k] BY DEF PL!Before
<1>5. b \in Seq(Int) /\ Len(b) = size /\ \A k \in 1 .. size : b[k] = before - k
  <2> HIDE DEF size, b
  <2>1. \A k \in 1 .. size : before - k \in Int BY <1>2, <1>3
  <2> QED BY <1>3, <1>4, <2>1
<1>6. top \in Nat /\ Len(page.seen) = top - before + 1
      /\ \A k \in 1 .. Len(page.seen) : page.seen[k] = top - k + 1
  <2>1. CASE page.open BY <1>1, <2>1 DEF PagedDown
  <2>2. CASE ~page.open
    <3>1. page.seen = << >> /\ before = r + 1 /\ top = r BY <2>2 DEF PagedDown
    <3> QED BY <3>1
  <2> QED BY <1>1, <2>1, <2>2
<1> DEFINE s == page.seen \o b
<1>7. /\ page'.open = TRUE /\ page'.before = PL!NextBefore(before) /\ page'.seen = s /\ page'.newest = top
      /\ page' = [open |-> page'.open, newest |-> page'.newest, before |-> page'.before, seen |-> page'.seen]
  OBVIOUS
<1> HIDE DEF b, size, top
<1>8. s \in Seq(Int) /\ Len(s) = Len(page.seen) + size
      /\ \A k \in 1 .. Len(s) : s[k] = IF k <= Len(page.seen) THEN page.seen[k] ELSE b[k - Len(page.seen)]
  <2>1. /\ s \in Seq(Int) /\ Len(s) = Len(page.seen) + Len(b)
        /\ \A k \in 1 .. Len(page.seen) + Len(b) : s[k] = IF k <= Len(page.seen) THEN page.seen[k] ELSE b[k - Len(page.seen)]
    <3>1. page.seen \in Seq(Int) /\ b \in Seq(Int) BY <1>1, <1>5
    <3> QED BY <3>1, ConcatProperties
  <2> HIDE DEF s
  <2> QED BY <2>1, <1>5
<1> HIDE DEF s
<1>9. \A k \in 1 .. Len(s) : s[k] = top - k + 1
  <2> TAKE k \in 1 .. Len(s)
  <2>1. CASE k <= Len(page.seen)
    <3>1. k \in 1 .. Len(page.seen) /\ s[k] = page.seen[k] BY <2>1, <1>1, <1>3, <1>8
    <3> QED BY <3>1, <1>6
  <2>2. CASE k > Len(page.seen)
    <3>1. k - Len(page.seen) \in 1 .. size BY <2>2, <1>1, <1>3, <1>8
    <3>2. s[k] = before - (k - Len(page.seen)) BY <2>2, <3>1, <1>5, <1>8
    <3> QED BY <3>2, <1>1, <1>2, <1>6
  <2> QED BY <2>1, <2>2, <1>1, <1>8
<1>10. /\ PL!NextBefore(before) \in Nat
       /\ IF PL!NextBefore(before) = 0 THEN Len(s) = top ELSE Len(s) = top - PL!NextBefore(before) + 1
  <2>1. CASE before - 1 > Limit
    <3>1. PL!NextBefore(before) = before - Limit /\ size = Limit
      BY <2>1, <1>2, LibrarySizes DEF PL!NextBefore, size
    <3>2. before - Limit \in Nat /\ before - Limit # 0 BY <2>1, <1>2, LibrarySizes
    <3>3. Len(s) = (top - before + 1) + Limit BY <3>1, <1>6, <1>8
    <3>4. Len(s) = top - (before - Limit) + 1 BY <3>3, <1>2, <1>6, LibrarySizes
    <3> QED BY <3>1, <3>2, <3>4
  <2>2. CASE ~(before - 1 > Limit)
    <3>1. PL!NextBefore(before) = 0 /\ size = before - 1 BY <2>2, <1>2, LibrarySizes DEF PL!NextBefore, size
    <3> QED BY <3>1, <1>1, <1>2, <1>6, <1>8
  <2> QED BY <2>1, <2>2
<1>11. /\ page'.open \in BOOLEAN /\ page'.newest \in Nat /\ page'.before \in Nat /\ page'.seen \in Seq(Int)
       /\ \A k \in 1 .. Len(page'.seen) : page'.seen[k] = page'.newest - k + 1
       /\ IF page'.before = 0 THEN Len(page'.seen) = page'.newest
                             ELSE Len(page'.seen) = page'.newest - page'.before + 1
  <2>1. page'.open \in BOOLEAN /\ page'.newest \in Nat BY <1>6, <1>7
  <2>2. page'.before \in Nat /\ page'.seen \in Seq(Int) BY <1>7, <1>8, <1>10
  <2>3. \A k \in 1 .. Len(page'.seen) : page'.seen[k] = page'.newest - k + 1 BY <1>7, <1>9
  <2>4. IF page'.before = 0 THEN Len(page'.seen) = page'.newest
                            ELSE Len(page'.seen) = page'.newest - page'.before + 1 BY <1>7, <1>10
  <2> QED BY <2>1, <2>2, <2>3, <2>4
<1> QED BY <1>7, <1>11 DEF PagedDown

\* What an author loads.
LEMMA LoadKeeps ==
  ASSUME LibraryWhole, NEW a \in Author, PL!Load(a)
  PROVE  LibraryWhole'
<1>1. /\ write[a].kind = "none" /\ loaded' = [loaded EXCEPT ![a] = [row |-> row, layout |-> layout]]
      /\ UNCHANGED <<row, revisions, layout, write, edits, page>> BY DEF PL!Load
<1>2. /\ DOMAIN loaded' = Author /\ loaded' = [b \in Author |-> loaded'[b]]
      /\ loaded'[a] = [row |-> row, layout |-> layout] /\ \A b \in Author : b # a => loaded'[b] = loaded[b]
  BY <1>1 DEF LibraryWhole
<1>3. ASSUME NEW b \in Author PROVE LoadedTruly(loaded[b])' /\ WrittenOver(write[b], loaded[b])'
  <2>1. LoadedTruly(loaded[b]) /\ WrittenOver(write[b], loaded[b]) /\ row \in DesignRow BY DEF LibraryWhole
  <2>2. CASE b = a
    <3>1. loaded'[b].row = row /\ loaded'[b].layout = layout /\ loaded'[b] = [row |-> row, layout |-> layout]
      BY <1>2, <2>2
    <3>2. row.version <= row.version BY <2>1 DEF DesignRow
    <3> QED BY <1>1, <2>1, <2>2, <3>1, <3>2 DEF LoadedTruly, WrittenOver
  <2>3. CASE b # a
    <3>1. loaded'[b] = loaded[b] BY <1>2, <2>3
    <3> QED BY <1>1, <2>1, <3>1 DEF LoadedTruly, WrittenOver
  <2> QED BY <2>2, <2>3
<1>4. PagedDown' BY <1>1 DEF LibraryWhole, PagedDown
<1> QED BY <1>1, <1>2, <1>3, <1>4 DEF LibraryWhole

\* A transaction begins over what its author saw.
LEMMA LockedKeeps ==
  ASSUME LibraryWhole, NEW a \in Author, NEW kind, NEW draft, NEW archived, PL!Locked(a, kind, draft, archived),
         kind \in {"draft", "metadata", "publish", "layout"},
         kind # "layout" => PL!Expected(a) /\ draft \in Draft /\ archived \in BOOLEAN,
         kind = "publish" => draft \in Compiles,
         kind = "layout" => loaded[a].layout = layout
  PROVE  LibraryWhole'
<1>1. /\ PL!LockFree(a) /\ write' = [write EXCEPT ![a] = [kind |-> kind, draft |-> draft, archived |-> archived]]
      /\ UNCHANGED <<row, revisions, layout, loaded, edits, page>> BY DEF PL!Locked
<1>2. \A b \in Author : write[b].kind = "none" BY <1>1 DEF PL!LockFree
<1>3. /\ DOMAIN write' = Author /\ write' = [b \in Author |-> write'[b]]
      /\ write'[a] = [kind |-> kind, draft |-> draft, archived |-> archived]
      /\ \A b \in Author : b # a => write'[b] = write[b] BY <1>1 DEF LibraryWhole
<1>4. ASSUME NEW b \in Author PROVE LoadedTruly(loaded[b])' /\ WrittenOver(write[b], loaded[b])'
  <2>1. LoadedTruly(loaded[b]) /\ WrittenOver(write[b], loaded[b]) BY DEF LibraryWhole
  <2>2. LoadedTruly(loaded[b])' BY <1>1, <2>1 DEF LoadedTruly
  <2>3. CASE b = a
    <3>1. kind # "layout" => loaded[b].row = row BY <2>1, <2>3 DEF PL!Expected, LoadedTruly
    <3>2. write'[b].kind = kind /\ write'[b].draft = draft /\ write'[b].archived = archived BY <1>3, <2>3
    <3> QED BY <1>1, <2>2, <2>3, <3>1, <3>2 DEF WrittenOver
  <2>4. CASE b # a
    <3>1. write'[b] = write[b] BY <1>3, <2>4
    <3> QED BY <1>1, <2>1, <2>2, <3>1 DEF WrittenOver
  <2> QED BY <2>3, <2>4
<1>5. \A b, c \in Author : write'[b].kind # "none" /\ write'[c].kind # "none" => b = c BY <1>2, <1>3
<1>6. PagedDown' BY <1>1 DEF LibraryWhole, PagedDown
<1> QED BY <1>1, <1>3, <1>4, <1>5, <1>6 DEF LibraryWhole

\* The transactions that begin.
LEMMA WritesKeep ==
  ASSUME LibraryWhole, NEW a \in Author, PL!SaveDraft(a) \/ PL!Metadata(a) \/ PL!Publish(a) \/ PL!Arrange(a)
  PROVE  LibraryWhole'
<1>0. row.draft \in Draft /\ row.archived \in BOOLEAN BY DEF LibraryWhole, DesignRow
<1>1. CASE PL!SaveDraft(a)
  <2>1. PICK draft \in Draft : PL!Locked(a, "draft", draft, row.archived) BY <1>1 DEF PL!SaveDraft
  <2>2. PL!Expected(a) BY <1>1 DEF PL!SaveDraft
  <2> QED BY <1>0, <2>1, <2>2, LockedKeeps
<1>2. CASE PL!Metadata(a)
  <2>1. PICK archived \in BOOLEAN : PL!Locked(a, "metadata", row.draft, archived) BY <1>2 DEF PL!Metadata
  <2>2. PL!Expected(a) BY <1>2 DEF PL!Metadata
  <2> QED BY <1>0, <2>1, <2>2, LockedKeeps
<1>3. CASE PL!Publish(a)
  <2>1. PL!Locked(a, "publish", row.draft, FALSE) /\ PL!Expected(a) /\ row.draft \in Compiles
    BY <1>3 DEF PL!Publish
  <2> QED BY <1>0, <2>1, LockedKeeps
<1>4. CASE PL!Arrange(a)
  <2>1. PL!Locked(a, "layout", row.draft, row.archived) /\ loaded[a].layout = layout BY <1>4 DEF PL!Arrange
  <2> QED BY <2>1, LockedKeeps
<1> QED BY <1>1, <1>2, <1>3, <1>4

\* A transaction commits: every write of the design is a version of its own.
LEMMA CommitKeepsLibrary ==
  ASSUME LibraryWhole, NEW a \in Author, PL!Commit(a)
  PROVE  LibraryWhole'
<1> DEFINE w == write[a]
<1>1. /\ w.kind # "none"
      /\ row' = IF w.kind = "layout" THEN row
                ELSE [version |-> row.version + (IF PL!NewVersion(w.kind) THEN 1 ELSE 0),
                      draft |-> w.draft, archived |-> w.archived]
      /\ revisions' = IF w.kind = "publish" THEN Append(revisions, w.draft) ELSE revisions
      /\ write' = [write EXCEPT ![a] = PL!NoWrite]
      /\ loaded' = [loaded EXCEPT ![a] =
                      CASE w.kind = "layout"  -> [@ EXCEPT !.layout = layout']
                        [] w.kind = "publish" -> @
                        [] OTHER              -> [@ EXCEPT !.row = row']]
      /\ page' = page BY DEF PL!Commit
<1>2. WrittenOver(w, loaded[a]) /\ LoadedTruly(loaded[a]) /\ row \in DesignRow
      /\ revisions \in Seq(Compiles) /\ Len(revisions) \in Nat /\ Len(revisions) < row.version
  BY DEF LibraryWhole
<1>3. \A b \in Author : b # a => write[b].kind = "none" BY <1>1 DEF LibraryWhole
<1>4. /\ DOMAIN write' = Author /\ write' = [b \in Author |-> write'[b]] /\ write'[a] = PL!NoWrite
      /\ \A b \in Author : b # a => write'[b] = write[b] BY <1>1 DEF LibraryWhole
<1>5. \A b \in Author : write'[b].kind = "none" BY <1>3, <1>4 DEF PL!NoWrite
<1>6. /\ DOMAIN loaded' = Author /\ loaded' = [b \in Author |-> loaded'[b]]
      /\ \A b \in Author : b # a => loaded'[b] = loaded[b] BY <1>1 DEF LibraryWhole
<1>7. PagedDown' BY <1>1 DEF LibraryWhole, PagedDown
<1>8. CASE w.kind = "layout"
  <2>1. row' = row /\ revisions' = revisions BY <1>1, <1>8
  <2>2. loaded'[a] = [loaded[a] EXCEPT !.layout = layout'] BY <1>1, <1>8 DEF LibraryWhole
  <2>3. LoadedTruly(loaded[a])'
    <3> DEFINE l == loaded[a]
    <3>1. l = [row |-> l.row, layout |-> l.layout] BY <1>2 DEF LoadedTruly
    <3>2. loaded'[a] = [row |-> l.row, layout |-> layout'] BY <2>2, <3>1
    <3>3. loaded'[a].row = l.row /\ loaded'[a].layout = layout' BY <3>2
    <3> QED BY <1>2, <2>1, <3>2, <3>3 DEF LoadedTruly
  <2>4. ASSUME NEW b \in Author PROVE LoadedTruly(loaded[b])' /\ WrittenOver(write[b], loaded[b])'
    <3>1. LoadedTruly(loaded[b])'
      <4>1. CASE b = a BY <4>1, <2>3
      <4>2. CASE b # a
        <5>1. loaded'[b] = loaded[b] /\ LoadedTruly(loaded[b]) BY <1>6, <4>2 DEF LibraryWhole
        <5> QED BY <2>1, <5>1 DEF LoadedTruly
      <4> QED BY <4>1, <4>2
    <3> QED BY <3>1, <1>5 DEF WrittenOver
  <2> QED BY <1>2, <1>4, <1>5, <1>6, <1>7, <2>1, <2>4 DEF LibraryWhole
<1>9. CASE w.kind \in {"draft", "metadata", "publish"}
  <2>1. row' = [version |-> row.version + 1, draft |-> w.draft, archived |-> w.archived]
    BY <1>1, <1>9 DEF PL!NewVersion
  <2>2. w.draft \in Draft /\ w.archived \in BOOLEAN BY <1>2, <1>9 DEF WrittenOver
  <2>3. row' \in DesignRow /\ row'.version = row.version + 1 BY <1>2, <2>1, <2>2 DEF DesignRow
  <2>4. revisions' \in Seq(Compiles) /\ Len(revisions') < row'.version
    <3>1. CASE w.kind = "publish"
      <4>1. revisions' = Append(revisions, w.draft) /\ w.draft \in Compiles BY <1>1, <1>2, <3>1 DEF WrittenOver
      <4>2. revisions' \in Seq(Compiles) /\ Len(revisions') = Len(revisions) + 1 BY <1>2, <4>1
      <4> QED BY <1>2, <2>3, <4>2 DEF DesignRow
    <3>2. CASE w.kind # "publish"
      <4>1. revisions' = revisions BY <1>1, <3>2
      <4> QED BY <1>2, <2>3, <4>1 DEF DesignRow
    <3> QED BY <3>1, <3>2
  <2>5. LoadedTruly(loaded[a])'
    <3> DEFINE l == loaded[a]
    <3>0. l = [row |-> l.row, layout |-> l.layout] /\ l.row \in DesignRow /\ l.row.version <= row.version
      BY <1>2 DEF LoadedTruly
    <3>1. CASE w.kind = "publish"
      <4>1. loaded'[a] = l BY <1>1, <3>1 DEF LibraryWhole
      <4>2. l.row.version < row'.version BY <1>2, <2>3, <3>0 DEF DesignRow
      <4>3. l.row.version \in Nat /\ row'.version \in Nat BY <2>3, <3>0 DEF DesignRow
      <4> QED BY <1>2, <3>0, <4>1, <4>2, <4>3 DEF LoadedTruly
    <3>2. CASE w.kind \in {"draft", "metadata"}
      <4>1. loaded'[a] = [l EXCEPT !.row = row'] BY <1>1, <3>2 DEF LibraryWhole
      <4>2. loaded'[a] = [row |-> row', layout |-> l.layout] BY <3>0, <4>1
      <4>3. loaded'[a].row = row' /\ loaded'[a].layout = l.layout /\ row'.version <= row'.version
        BY <2>3, <4>2 DEF DesignRow
      <4> QED BY <2>3, <4>2, <4>3 DEF LoadedTruly
    <3> QED BY <1>9, <3>1, <3>2
  <2>6. ASSUME NEW b \in Author PROVE LoadedTruly(loaded[b])' /\ WrittenOver(write[b], loaded[b])'
    <3>1. LoadedTruly(loaded[b])'
      <4>1. CASE b = a BY <4>1, <2>5
      <4>2. CASE b # a
        <5>1. loaded'[b] = loaded[b] /\ LoadedTruly(loaded[b]) BY <1>6, <4>2 DEF LibraryWhole
        <5>2. loaded[b].row.version < row'.version /\ loaded[b].row.version \in Nat /\ row'.version \in Nat
          BY <1>2, <2>3, <5>1 DEF DesignRow, LoadedTruly
        <5> QED BY <5>1, <5>2 DEF LoadedTruly
      <4> QED BY <4>1, <4>2
    <3> QED BY <3>1, <1>5 DEF WrittenOver
  <2> QED BY <1>4, <1>5, <1>6, <1>7, <2>3, <2>4, <2>6 DEF LibraryWhole
<1> QED BY <1>1, <1>2, <1>8, <1>9 DEF WrittenOver

\* Every step of the library keeps it.
LEMMA LibrarySteps ==
  ASSUME LibraryWhole, PL!Next \/ UNCHANGED PL!libraryVars
  PROVE  LibraryWhole'
<1>1. CASE PL!ListRevisions
  <2>1. UNCHANGED <<row, revisions, layout, loaded, write, edits>> BY <1>1 DEF PL!ListRevisions
  <2>2. PICK before : before = IF page.open THEN page.before ELSE Len(revisions) + 1 OBVIOUS
  <2>3. PagedDown'
    <3>1. Len(revisions) \in Nat BY DEF LibraryWhole
    <3> QED BY <1>1, <2>2, <3>1, NextPage DEF PL!ListRevisions, LibraryWhole
  <2> QED BY <2>1, <2>3 DEF LibraryWhole, LoadedTruly, WrittenOver
<1>2. CASE UNCHANGED PL!libraryVars
  BY <1>2 DEF PL!libraryVars, LibraryWhole, LoadedTruly, WrittenOver, PagedDown
<1> QED BY <1>1, <1>2, LoadKeeps, WritesKeep, CommitKeepsLibrary DEF PL!Next

\* A library that keeps it loses nobody's change, and pages through all of its revisions.
LEMMA LibraryPromise ==
  ASSUME LibraryWhole
  PROVE  /\ PL!OverWhatWasSeen /\ PL!VersionsTrue /\ PL!PublishedOnce
         /\ page.open =>
              /\ \A k \in 1 .. Len(page.seen) : page.seen[k] = page.newest - k + 1
              /\ page.before = 0 => Len(page.seen) = page.newest
<1>1. PL!OverWhatWasSeen BY DEF LibraryWhole, WrittenOver, PL!OverWhatWasSeen
<1>2. PL!VersionsTrue BY DEF LibraryWhole, LoadedTruly, PL!VersionsTrue
<1>3. PL!PublishedOnce BY DEF LibraryWhole, PL!PublishedOnce
<1> QED BY <1>1, <1>2, <1>3 DEF LibraryWhole, PagedDown

(* Migrations.                                                             *)

\* The migrations that are known by number, and the releases.
LEMMA ReleaseSizes ==
  /\ Baseline \in Nat /\ Maintenance \in Nat /\ System \in Nat /\ Conversion \in Nat
  /\ 0 < Baseline /\ Baseline < Maintenance /\ Maintenance < System /\ System < Conversion
  /\ Reads \subseteq Nat /\ \A v \in Reads : v > Conversion
  /\ \A r \in Releases : Len(r) \in Nat /\ DOMAIN r = 1 .. Len(r) /\ Len(r) >= Conversion /\ MI!All(r) = 1 .. Len(r)
BY AdministrationAssumption DEF MI!MigrationAssumption, MI!All

\* Migrations of a set, in their order.
InSequence(s, S) ==
  /\ s \in Seq(Nat) /\ \A i \in 1 .. Len(s) : s[i] \in S
  /\ \A i, j \in 1 .. Len(s) : i < j => s[i] < s[j]

\* What an upgrade has done by now: it began with the database b, recorded each migration
\* up to the next, and ran in order what was pending.
Begun(t, b) ==
  /\ {"phase", "release", "db", "fresh", "pending", "next", "deferred", "ran"} \subseteq DOMAIN t
  /\ {"shape", "effects", "ledger", "ran"} \subseteq DOMAIN t.db
  /\ t.release \in Releases /\ MI!Supported(b, t.release) /\ t.fresh = MI!Fresh(b)
  /\ t.pending = MI!Pending(b, t.release) /\ t.next \in 1 .. Len(t.release) + 1
  /\ t.db.shape = "plain" /\ b.effects \subseteq t.db.effects
  /\ b.ledger \subseteq t.db.ledger
  /\ \A entry \in t.db.ledger : entry \in b.ledger \/ \E v \in 1 .. t.next - 1 : entry = <<v, t.release[v]>>
  /\ \A v \in 1 .. t.next - 1 : v \in MI!Known(t.db)
  /\ InSequence(t.ran, {v \in t.pending : v < t.next /\ ~MI!Deferred(t, v)})
  /\ InSequence(t.deferred, {v \in t.pending : v < t.next /\ MI!Deferred(t, v)})
  /\ t.fresh => t.ran = <<>> /\ t.db.effects = MI!All(t.release)

\* What was run: nothing twice, in order, and what reads the catalogue after its conversion.
RanRight(s) ==
  /\ \A j, k \in DOMAIN s : s[j] = s[k] => j = k
  /\ \A j, k \in DOMAIN s : j < k /\ s[j] > s[k] => s[k] \in Reads \cup {0}
  /\ was # {} => \A k \in DOMAIN s : s[k] \in Reads => \E j \in 1 .. k - 1 : s[j] = 0

\* The database: one without a ledger was never upgraded, one with a ledger holds a release.
DatabaseWhole ==
  /\ {"shape", "effects", "ledger", "ran"} \subseteq DOMAIN db /\ db.shape \in {"plain", "foreign", "altered"}
  /\ was \in {{}, 1 .. Baseline, 1 .. Maintenance, 1 .. System} /\ was \subseteq db.effects
  /\ db.shape \in {"foreign", "altered"} => db.ledger = {} /\ db.effects = was
  /\ db.ledger = {} => db.ran = <<>> /\ (was # {} => db.effects = was)
  /\ db.ledger # {} =>
       /\ \E r \in Releases : MI!LedgerFits(db, r) /\ db.effects = MI!All(r) /\ MI!Known(db) = MI!All(r)
       /\ was # {} => \E k \in DOMAIN db.ran : db.ran[k] = 0
  /\ db.ran \in Seq(Nat) /\ RanRight(db.ran)
  /\ \A k \in DOMAIN db.ran : /\ db.ran[k] # 0 => db.ran[k] \in MI!Known(db) \ was
                              /\ db.ran[k] = 0 => Conversion \in MI!Known(db)

\* The sync service: what it calls ready is there.
SyncWhole ==
  /\ {"phase", "attempt", "release", "ready"} \subseteq DOMAIN sync /\ sync.release \in Releases
  /\ sync.ready => sync.phase = "running" /\ MI!All(sync.release) \subseteq db.effects
  /\ sync.phase \in {"waiting", "initialize"} => ~sync.ready

\* The inductive invariant of the database: one upgrade at a time.
MigrationWhole ==
  /\ DatabaseWhole /\ SyncWhole
  /\ DOMAIN tx = MI!Upgrade /\ \A u \in MI!Upgrade : "phase" \in DOMAIN tx[u] /\ tx[u].phase \in {"none", "applying"}
  /\ \A u \in MI!Upgrade : tx[u].phase = "applying" =>
       Begun(tx[u], db) /\ \A o \in MI!Upgrade \ {u} : tx[o].phase = "none"

\* It holds at first.
LEMMA MigrationStarts == MI!Init => MigrationWhole
<1> SUFFICES ASSUME MI!Init PROVE MigrationWhole OBVIOUS
<1>1. /\ db \in MI!Found
      /\ was = db.effects /\ tx = [u \in MI!Upgrade |-> MI!NoTx] BY DEF MI!Init
<1>2. /\ {"shape", "effects", "ledger", "ran"} \subseteq DOMAIN db /\ db.shape \in {"plain", "foreign", "altered"}
      /\ db.effects \in {{}, 1 .. Baseline, 1 .. Maintenance, 1 .. System}
      /\ db.ledger = {} /\ db.ran = <<>> BY <1>1 DEF MI!Found
<1>3. DatabaseWhole BY <1>1, <1>2 DEF DatabaseWhole, RanRight
<1>4. SyncWhole BY DEF MI!Init, SyncWhole
<1> QED BY <1>1, <1>3, <1>4 DEF MigrationWhole, MI!NoTx

\* A chain of migrations goes on.
LEMMA TurnGoesOn ==
  ASSUME NEW s, NEW S, NEW T, NEW v \in T, InSequence(s, S), S \subseteq T, T \subseteq Nat, \A x \in S : x < v
  PROVE  InSequence(Append(s, v), T)
<1> DEFINE w == Append(s, v)
<1>1. s \in Seq(Nat) /\ v \in Nat /\ Len(s) \in Nat BY DEF InSequence
<1>2. w \in Seq(Nat) /\ Len(w) = Len(s) + 1 /\ w[Len(s) + 1] = v BY <1>1
<1>3. \A i \in 1 .. Len(s) : w[i] = s[i] /\ s[i] \in S /\ s[i] \in Nat /\ s[i] < v BY <1>1 DEF InSequence
<1>4. \A i \in 1 .. Len(w) : i \in 1 .. Len(s) \/ i = Len(s) + 1 BY <1>1, <1>2
<1> HIDE DEF w
<1>5. \A i \in 1 .. Len(w) : w[i] \in T BY <1>2, <1>3, <1>4
<1>6. ASSUME NEW i \in 1 .. Len(w), NEW j \in 1 .. Len(w), i < j PROVE w[i] < w[j]
  <2>1. i \in 1 .. Len(s) BY <1>1, <1>2, <1>6
  <2>2. CASE j \in 1 .. Len(s)
    <3>1. s[i] < s[j] BY <2>1, <2>2, <1>6 DEF InSequence
    <3> QED BY <3>1, <2>1, <2>2, <1>3
  <2>3. CASE j = Len(s) + 1 BY <2>1, <2>3, <1>2, <1>3
  <2> QED BY <2>2, <2>3, <1>4
<1> QED BY <1>2, <1>5, <1>6 DEF InSequence, w

\* What a chain is taken from may grow.
LEMMA TurnOfMore ==
  ASSUME NEW s, NEW S, NEW T, InSequence(s, S), S \subseteq T
  PROVE  InSequence(s, T)
BY DEF InSequence

\* What is pending is of the release, was not there before the ledger and is not in it; a database
\* that is not upgraded has all of the conversion before it.
LEMMA PendingIsNew ==
  ASSUME DatabaseWhole, NEW r \in Releases, MI!Supported(db, r)
  PROVE  /\ MI!Pending(db, r) \subseteq 1 .. Len(r)
         /\ MI!Pending(db, r) \cap MI!Known(db) = {}
         /\ ~MI!Fresh(db) => MI!Pending(db, r) \cap was = {}
         /\ ~MI!Fresh(db) /\ db.ledger = {} => Conversion \in MI!Pending(db, r)
         /\ db.ledger # {} => ~MI!Fresh(db) /\ \A v \in MI!Pending(db, r), x \in MI!Known(db) : x < v
<1>1. Len(r) \in Nat /\ MI!All(r) = 1 .. Len(r) /\ Len(r) >= Conversion BY ReleaseSizes
<1>2. MI!Pending(db, r) \subseteq 1 .. Len(r) BY <1>1 DEF MI!Pending
<1>3. CASE db.ledger # {}
  <2>1. PICK q \in Releases : MI!LedgerFits(db, q) /\ db.effects = MI!All(q) /\ MI!Known(db) = MI!All(q)
    BY <1>3 DEF DatabaseWhole
  <2>2. Len(q) \in Nat /\ MI!All(q) = 1 .. Len(q) /\ Len(q) >= Conversion BY ReleaseSizes
  <2>3. MI!Pending(db, r) = MI!All(r) \ MI!Known(db) BY <1>3 DEF MI!Pending
  <2>4. ~MI!Fresh(db)
    <3>1. 1 \in db.effects BY <2>1, <2>2, ReleaseSizes
    <3> QED BY <3>1 DEF MI!Fresh
  <2>5. was \subseteq MI!Known(db) BY <2>1 DEF DatabaseWhole
  <2>6. \A v \in MI!Pending(db, r), x \in MI!Known(db) : x < v BY <2>1, <2>2, <2>3, <1>1
  <2> QED BY <1>2, <1>3, <2>3, <2>4, <2>5, <2>6
<1>4. CASE db.ledger = {} /\ MI!Fresh(db) BY <1>2, <1>4 DEF MI!Known
<1>5. CASE db.ledger = {} /\ ~MI!Fresh(db)
  <2>1. MI!Pending(db, r) = MI!All(r) \ MI!Adopted(db) BY <1>5 DEF MI!Pending
  <2>2. MI!Adopted(db) \in {1 .. Baseline, 1 .. System, 1 .. Maintenance} BY DEF MI!Adopted
  <2>3. Conversion \notin MI!Adopted(db) BY <2>2, ReleaseSizes
  <2>4. Conversion \in MI!Pending(db, r) BY <2>1, <2>3, <1>1, ReleaseSizes
  <2>5. was \subseteq MI!Adopted(db)
    <3>1. was = {} \/ was = db.effects BY <1>5 DEF DatabaseWhole
    <3>2. CASE was = 1 .. Baseline /\ db.effects = was
      <4>1. db.effects \subseteq 1 .. Maintenance - 1 BY <3>2, ReleaseSizes
      <4> QED BY <3>2, <4>1 DEF MI!Adopted
    <3>3. CASE was = 1 .. Maintenance /\ db.effects = was
      <4>1. Maintenance \in db.effects /\ Maintenance \notin 1 .. Maintenance - 1 /\ System \notin db.effects
        BY <3>3, ReleaseSizes
      <4> QED BY <3>3, <4>1 DEF MI!Adopted
    <3>4. CASE was = 1 .. System /\ db.effects = was
      <4>1. Maintenance \in db.effects /\ Maintenance \notin 1 .. Maintenance - 1 /\ System \in db.effects
        BY <3>4, ReleaseSizes
      <4> QED BY <3>4, <4>1 DEF MI!Adopted
    <3> QED BY <3>1, <3>2, <3>3, <3>4 DEF DatabaseWhole
  <2> QED BY <1>2, <1>5, <2>1, <2>4, <2>5 DEF MI!Known
<1> QED BY <1>3, <1>4, <1>5

\* An upgrade that takes the next migration of its release.
Migrates(t, k, v) ==
  /\ {"phase", "release", "db", "fresh", "pending", "next", "deferred", "ran"} \subseteq DOMAIN k
  /\ {"shape", "effects", "ledger", "ran"} \subseteq DOMAIN k.db
  /\ k.phase = t.phase /\ k.release = t.release /\ k.fresh = t.fresh /\ k.pending = t.pending /\ k.next = v + 1
  /\ k.db.shape = t.db.shape /\ t.db.effects \subseteq k.db.effects
  /\ t.fresh => k.db.effects = t.db.effects
  /\ k.db.ledger = IF v \in MI!Known(t.db) THEN t.db.ledger ELSE t.db.ledger \cup {<<v, t.release[v]>>}
  /\ \/ k.ran = t.ran /\ k.deferred = t.deferred
     \/ /\ ~t.fresh /\ v \in t.pending /\ MI!Deferred(t, v)
        /\ k.ran = t.ran /\ k.deferred = Append(t.deferred, v)
     \/ /\ ~t.fresh /\ v \in t.pending /\ ~MI!Deferred(t, v)
        /\ k.ran = Append(t.ran, v) /\ k.deferred = t.deferred

\* What was begun goes on so.
LEMMA BegunGoesOn ==
  ASSUME DatabaseWhole, NEW t, NEW k, Begun(t, db), t.next \in 1 .. Len(t.release), Migrates(t, k, t.next)
  PROVE  Begun(k, db)
<1> DEFINE r == t.release
           v == t.next
           S == {x \in t.pending : x < v /\ ~MI!Deferred(t, x)}
           D == {x \in t.pending : x < v /\ MI!Deferred(t, x)}
<1>1. r \in Releases /\ Len(r) \in Nat /\ v \in Nat /\ v + 1 \in 1 .. Len(r) + 1 BY ReleaseSizes DEF Begun
<1>2. t.pending \subseteq Nat
  <2>1. MI!Pending(db, r) \subseteq 1 .. Len(r) BY PendingIsNew DEF Begun
  <2> QED BY <2>1, <1>1 DEF Begun
<1>3. /\ {"phase", "release", "db", "fresh", "pending", "next", "deferred", "ran"} \subseteq DOMAIN k
      /\ {"shape", "effects", "ledger", "ran"} \subseteq DOMAIN k.db
      /\ k.release \in Releases /\ MI!Supported(db, k.release) /\ k.fresh = MI!Fresh(db)
      /\ k.pending = MI!Pending(db, k.release) /\ k.next \in 1 .. Len(k.release) + 1
      /\ k.db.shape = "plain" /\ db.effects \subseteq k.db.effects BY <1>1 DEF Begun, Migrates
<1>4. \A x : MI!Deferred(k, x) <=> MI!Deferred(t, x) BY DEF Migrates, MI!Deferred, MI!Converting
<1> DEFINE S2 == {x \in k.pending : x < k.next /\ ~MI!Deferred(k, x)}
           D2 == {x \in k.pending : x < k.next /\ MI!Deferred(k, x)}
<1>5. k.next = v + 1 /\ k.pending = t.pending BY DEF Migrates
<1>6. S \subseteq S2 /\ D \subseteq D2 /\ S2 \subseteq Nat /\ D2 \subseteq Nat BY <1>1, <1>2, <1>4, <1>5
<1>7. (\A x \in S : x < v) /\ (\A x \in D : x < v) OBVIOUS
<1>8. InSequence(t.ran, S) /\ InSequence(t.deferred, D) BY DEF Begun
<1>9. /\ v \in t.pending /\ MI!Deferred(t, v) => v \in D2
      /\ v \in t.pending /\ ~MI!Deferred(t, v) => v \in S2 BY <1>1, <1>4, <1>5
<1> HIDE DEF S, D, S2, D2
<1>10. InSequence(k.ran, S2) /\ InSequence(k.deferred, D2)
  <2>1. InSequence(t.ran, S2) /\ InSequence(t.deferred, D2) BY <1>6, <1>8, TurnOfMore
  <2>2. CASE k.ran = t.ran /\ k.deferred = t.deferred BY <2>1, <2>2
  <2>3. CASE v \in t.pending /\ MI!Deferred(t, v) /\ k.ran = t.ran /\ k.deferred = Append(t.deferred, v)
    <3>1. v \in D2 BY <2>3, <1>9
    <3>2. InSequence(Append(t.deferred, v), D2) BY <3>1, <1>6, <1>7, <1>8, TurnGoesOn
    <3> QED BY <2>1, <2>3, <3>2
  <2>4. CASE v \in t.pending /\ ~MI!Deferred(t, v) /\ k.ran = Append(t.ran, v) /\ k.deferred = t.deferred
    <3>1. v \in S2 BY <2>4, <1>9
    <3>2. InSequence(Append(t.ran, v), S2) BY <3>1, <1>6, <1>7, <1>8, TurnGoesOn
    <3> QED BY <2>1, <2>4, <3>2
  <2> QED BY <2>2, <2>3, <2>4 DEF Migrates
<1>11. t.db.ledger \subseteq k.db.ledger /\ \A x \in k.db.ledger : x \in t.db.ledger \/ x = <<v, r[v]>>
  BY DEF Migrates
<1>12. db.ledger \subseteq k.db.ledger BY <1>11 DEF Begun
<1>13. \A entry \in k.db.ledger : entry \in db.ledger \/ \E x \in 1 .. k.next - 1 : entry = <<x, k.release[x]>>
  <2> SUFFICES ASSUME NEW entry \in k.db.ledger, entry \notin db.ledger
               PROVE  \E x \in 1 .. k.next - 1 : entry = <<x, k.release[x]>> OBVIOUS
  <2>1. k.next - 1 = v /\ k.release = r BY <1>1 DEF Migrates
  <2>2. CASE entry = <<v, r[v]>> BY <2>1, <2>2, <1>1
  <2>3. CASE entry \in t.db.ledger
    <3>1. PICK x \in 1 .. v - 1 : entry = <<x, r[x]>> BY <2>3 DEF Begun
    <3>2. x \in 1 .. v BY <1>1
    <3> QED BY <3>1, <3>2, <2>1
  <2> QED BY <2>2, <2>3, <1>11
<1>14. \A x \in 1 .. k.next - 1 : x \in MI!Known(k.db)
  <2> SUFFICES ASSUME NEW x \in 1 .. k.next - 1 PROVE x \in MI!Known(k.db) OBVIOUS
  <2>1. \A y : y \in MI!Known(t.db) => y \in MI!Known(k.db) BY <1>11 DEF MI!Known
  <2>2. CASE x = v
    <3>1. CASE v \in MI!Known(t.db) BY <2>1, <2>2, <3>1
    <3>2. CASE v \notin MI!Known(t.db)
      <4>1. <<v, r[v]>> \in k.db.ledger /\ <<v, r[v]>>[1] = v BY <3>2 DEF Migrates
      <4> QED BY <4>1, <2>2 DEF MI!Known
    <3> QED BY <3>1, <3>2
  <2>3. CASE x # v
    <3>1. x \in 1 .. v - 1 BY <2>3, <1>1, <1>5
    <3>2. x \in MI!Known(t.db) BY <3>1 DEF Begun
    <3> QED BY <3>2, <2>1
  <2> QED BY <2>2, <2>3
<1>15. k.fresh => k.ran = <<>> /\ k.db.effects = MI!All(k.release) BY DEF Migrates, Begun
<1> QED BY <1>3, <1>10, <1>12, <1>13, <1>14, <1>15 DEF Begun, S2, D2

\* An upgrade begins on a database that is known, while no other is under way.
LEMMA BeginKeepsDatabase ==
  ASSUME MigrationWhole, NEW u \in MI!Upgrade, MI!Begin(u)
  PROVE  MigrationWhole'
<1>1. PICK r \in Releases :
        /\ MI!Supported(db, r)
        /\ tx' = [tx EXCEPT ![u] =
             [phase |-> "applying", release |-> r, fresh |-> MI!Fresh(db), next |-> 1,
              pending |-> MI!Pending(db, r), deferred |-> << >>, ran |-> << >>,
              db |-> IF MI!Fresh(db) THEN [db EXCEPT !.effects = MI!All(r), !.shape = "plain"] ELSE db]]
  BY DEF MI!Begin
<1>2. UNCHANGED <<db, was, sync>> /\ \A o \in MI!Upgrade : tx[o].phase = "none" BY DEF MI!Begin, MI!LockFree
<1>3. PICK c : c = IF MI!Fresh(db) THEN [db EXCEPT !.effects = MI!All(r), !.shape = "plain"] ELSE db OBVIOUS
<1>4. {"shape", "effects", "ledger", "ran"} \subseteq DOMAIN db /\ Len(r) \in Nat
  BY ReleaseSizes DEF MigrationWhole, DatabaseWhole
<1>5. /\ {"shape", "effects", "ledger", "ran"} \subseteq DOMAIN c /\ c.ledger = db.ledger
      /\ db.effects \subseteq c.effects /\ (MI!Fresh(db) => c.effects = MI!All(r))
  <2>1. CASE MI!Fresh(db) BY <2>1, <1>3, <1>4 DEF MI!Fresh
  <2>2. CASE ~MI!Fresh(db) BY <2>2, <1>3, <1>4
  <2> QED BY <2>1, <2>2
<1>6. c.shape = "plain"
  <2>1. CASE MI!Fresh(db) BY <2>1, <1>3, <1>4
  <2>2. CASE ~MI!Fresh(db) /\ db.ledger = {} BY <2>2, <1>1, <1>3 DEF MI!Supported
  <2>3. CASE ~MI!Fresh(db) /\ db.ledger # {} BY <2>3, <1>3 DEF MigrationWhole, DatabaseWhole
  <2> QED BY <2>1, <2>2, <2>3
<1>7. PICK t : t = [phase |-> "applying", release |-> r, fresh |-> MI!Fresh(db), next |-> 1,
              pending |-> MI!Pending(db, r), deferred |-> << >>, ran |-> << >>, db |-> c] OBVIOUS
<1>8. \A S : InSequence(<<>>, S) BY DEF InSequence
<1>9. Begun(t, db) /\ t.phase = "applying" /\ "phase" \in DOMAIN t
  BY <1>1, <1>4, <1>5, <1>6, <1>7, <1>8 DEF Begun
<1>10. tx' = [tx EXCEPT ![u] = t] BY <1>1, <1>3, <1>7
<1>11. DOMAIN tx' = MI!Upgrade /\ tx'[u] = t /\ \A o \in MI!Upgrade \ {u} : tx'[o] = tx[o]
  BY <1>10 DEF MigrationWhole
<1>12. DatabaseWhole' /\ SyncWhole'
  BY <1>2 DEF MigrationWhole, DatabaseWhole, SyncWhole, RanRight, MI!LedgerFits, MI!Known
<1> QED BY <1>2, <1>9, <1>11, <1>12 DEF MigrationWhole

\* An upgrade that goes on leaves the database and the other as they are.
LEMMA ApplyKeeps ==
  ASSUME MigrationWhole, NEW u \in MI!Upgrade, MI!Apply(u)
  PROVE  MigrationWhole'
<1>1. PICK t : t = tx[u] OBVIOUS
<1>2. Begun(t, db) /\ DatabaseWhole BY <1>1 DEF MigrationWhole, MI!Apply
<1>3. PICK v : v = t.next OBVIOUS
<1>4. PICK done : done = IF t.fresh \/ v \notin t.pending THEN t
                         ELSE IF MI!Deferred(t, v) THEN [t EXCEPT !.deferred = Append(@, v)]
                         ELSE MI!Ran(t, v) OBVIOUS
<1>5. PICK k : k = [done EXCEPT !.next = v + 1,
                      !.db.ledger = IF v \in MI!Known(t.db) THEN @ ELSE @ \cup {<<v, t.release[v]>>}] OBVIOUS
<1>6. tx' = [tx EXCEPT ![u] = k] /\ v \in DOMAIN t.release /\ UNCHANGED <<db, was, runs, sync>>
  BY <1>1, <1>3, <1>4, <1>5 DEF MI!Apply
<1>7. v \in 1 .. Len(t.release) /\ t.phase = "applying"
  BY <1>1, <1>2, <1>3, <1>6, ReleaseSizes DEF Begun, MI!Apply
<1>8. /\ {"phase", "release", "db", "fresh", "pending", "next", "deferred", "ran"} \subseteq DOMAIN t
      /\ {"shape", "effects", "ledger", "ran"} \subseteq DOMAIN t.db BY <1>2 DEF Begun
<1>9. /\ {"phase", "release", "db", "fresh", "pending", "next", "deferred", "ran"} \subseteq DOMAIN done
      /\ {"shape", "effects", "ledger", "ran"} \subseteq DOMAIN done.db
      /\ done.phase = t.phase /\ done.release = t.release /\ done.fresh = t.fresh /\ done.pending = t.pending
      /\ done.db.shape = t.db.shape /\ t.db.effects \subseteq done.db.effects
      /\ t.fresh => done.db.effects = t.db.effects
      /\ done.db.ledger = t.db.ledger
  <2>1. CASE t.fresh \/ v \notin t.pending BY <2>1, <1>4, <1>8
  <2>2. CASE ~(t.fresh \/ v \notin t.pending) /\ MI!Deferred(t, v)
    <3>1. done = [t EXCEPT !.deferred = Append(@, v)] BY <2>2, <1>4
    <3> QED BY <3>1, <1>8
  <2>3. CASE ~(t.fresh \/ v \notin t.pending) /\ ~MI!Deferred(t, v)
    <3>1. done = [t EXCEPT !.db.effects = @ \cup {v}, !.ran = Append(@, v)] BY <2>3, <1>4 DEF MI!Ran
    <3> QED BY <2>3, <3>1, <1>8
  <2> QED BY <2>1, <2>2, <2>3
<1>10. \/ done.ran = t.ran /\ done.deferred = t.deferred
       \/ /\ ~t.fresh /\ v \in t.pending /\ MI!Deferred(t, v)
          /\ done.ran = t.ran /\ done.deferred = Append(t.deferred, v)
       \/ /\ ~t.fresh /\ v \in t.pending /\ ~MI!Deferred(t, v)
          /\ done.ran = Append(t.ran, v) /\ done.deferred = t.deferred
  <2>1. CASE t.fresh \/ v \notin t.pending BY <2>1, <1>4
  <2>2. CASE ~(t.fresh \/ v \notin t.pending) /\ MI!Deferred(t, v)
    <3>1. done = [t EXCEPT !.deferred = Append(@, v)] BY <2>2, <1>4
    <3> QED BY <2>2, <3>1, <1>8
  <2>3. CASE ~(t.fresh \/ v \notin t.pending) /\ ~MI!Deferred(t, v)
    <3>1. done = [t EXCEPT !.db.effects = @ \cup {v}, !.ran = Append(@, v)] BY <2>3, <1>4 DEF MI!Ran
    <3> QED BY <2>3, <3>1, <1>8
  <2> QED BY <2>1, <2>2, <2>3
<1>11. Migrates(t, k, v)
  <2>1. PICK l : l = IF v \in MI!Known(t.db) THEN done.db.ledger ELSE done.db.ledger \cup {<<v, t.release[v]>>}
    OBVIOUS
  <2>2. k = [done EXCEPT !.next = v + 1, !.db.ledger = l] BY <1>5, <2>1
  <2>3. /\ {"phase", "release", "db", "fresh", "pending", "next", "deferred", "ran"} \subseteq DOMAIN k
        /\ {"shape", "effects", "ledger", "ran"} \subseteq DOMAIN k.db
        /\ k.phase = done.phase /\ k.release = done.release /\ k.fresh = done.fresh /\ k.pending = done.pending
        /\ k.next = v + 1 /\ k.db.shape = done.db.shape /\ k.db.effects = done.db.effects
        /\ k.db.ledger = l /\ k.ran = done.ran /\ k.deferred = done.deferred BY <2>2, <1>9
  <2> QED BY <2>1, <2>3, <1>9, <1>10 DEF Migrates
<1>12. Begun(k, db) BY <1>2, <1>3, <1>7, <1>11, BegunGoesOn
<1>13. DOMAIN tx' = MI!Upgrade /\ tx'[u] = k /\ \A o \in MI!Upgrade \ {u} : tx'[o] = tx[o]
  BY <1>6 DEF MigrationWhole
<1>14. DatabaseWhole' /\ SyncWhole'
  BY <1>6 DEF MigrationWhole, DatabaseWhole, SyncWhole, RanRight, MI!LedgerFits, MI!Known
<1>15. "phase" \in DOMAIN k /\ k.phase = "applying" BY <1>7, <1>11 DEF Migrates
<1>16. \A o \in MI!Upgrade \ {u} : tx[o].phase = "none" BY <1>1, <1>7 DEF MigrationWhole
<1> QED BY <1>6, <1>12, <1>13, <1>14, <1>15, <1>16 DEF MigrationWhole

\* A sequence after another.
LEMMA Joined ==
  ASSUME NEW b \in Seq(Nat), NEW e \in Seq(Nat)
  PROVE  /\ b \o e \in Seq(Nat) /\ Len(b) \in Nat /\ Len(e) \in Nat /\ Len(b \o e) = Len(b) + Len(e)
         /\ \A k \in 1 .. Len(b) : (b \o e)[k] = b[k]
         /\ \A k \in Len(b) + 1 .. Len(b) + Len(e) : k - Len(b) \in 1 .. Len(e) /\ (b \o e)[k] = e[k - Len(b)]
OBVIOUS

\* What an upgrade ran when it is done.
Ended(t) == IF MI!Converting(t) THEN Append(t.ran, 0) \o t.deferred ELSE t.ran

\* What an upgrade ran in the end: what was pending, nothing twice, what reads the catalogue after its
\* conversion.
LEMMA RanInTheEnd ==
  ASSUME DatabaseWhole, NEW t, Begun(t, db), NEW s, s = Ended(t)
  PROVE  /\ s \in Seq(Nat) /\ \A j, k \in DOMAIN s : s[j] = s[k] => j = k
         /\ \A k \in DOMAIN s : s[k] \in t.pending \/ (s[k] = 0 /\ MI!Converting(t))
         /\ \A j, k \in DOMAIN s : j < k /\ s[j] > s[k] => s[k] \in Reads \cup {0}
         /\ MI!Converting(t) => /\ \E k \in DOMAIN s : s[k] = 0
                                /\ \A k \in DOMAIN s : s[k] \in Reads => \E j \in 1 .. k - 1 : s[j] = 0
<1> DEFINE S == {x \in t.pending : x < t.next /\ ~MI!Deferred(t, x)}
           D == {x \in t.pending : x < t.next /\ MI!Deferred(t, x)}
<1>1. t.pending \subseteq Nat /\ 0 \notin t.pending
  <2>1. MI!Pending(db, t.release) \subseteq 1 .. Len(t.release) BY PendingIsNew DEF Begun
  <2> QED BY <2>1, ReleaseSizes DEF Begun
<1>2. InSequence(t.ran, S) /\ InSequence(t.deferred, D) BY DEF Begun
<1>3. S \subseteq t.pending /\ D \subseteq t.pending /\ S \cap D = {} OBVIOUS
<1>4. MI!Converting(t) => D \subseteq Reads /\ S \cap Reads = {} BY DEF MI!Deferred
<1> HIDE DEF S, D
<1>5. CASE ~MI!Converting(t)
  <2>1. s = t.ran /\ s \in Seq(Nat) BY <1>2, <1>5 DEF InSequence, Ended
  <2>2. DOMAIN s = 1 .. Len(s) /\ Len(s) \in Nat BY <2>1
  <2>3. \A k \in DOMAIN s : s[k] \in S /\ s[k] \in Nat BY <1>1, <1>2, <1>3, <2>1, <2>2 DEF InSequence
  <2>4. \A j, k \in DOMAIN s : j < k => s[j] < s[k] BY <1>2, <2>1, <2>2 DEF InSequence
  <2>5. \A j, k \in DOMAIN s : j < k \/ k < j \/ j = k BY <2>2
  <2>6. \A j, k \in DOMAIN s : s[j] = s[k] => j = k BY <2>3, <2>4, <2>5
  <2>7. \A j, k \in DOMAIN s : j < k => ~(s[j] > s[k]) BY <2>3, <2>4
  <2> QED BY <1>3, <1>5, <2>1, <2>3, <2>6, <2>7
<1>6. CASE MI!Converting(t)
  <2> DEFINE a == t.ran
             b == Append(a, 0)
             e == t.deferred
  <2>1. a \in Seq(Nat) /\ e \in Seq(Nat) /\ s = b \o e BY <1>2, <1>6 DEF InSequence, Ended
  <2>2. b \in Seq(Nat) BY <2>1
  <2>3. PICK n \in Nat : n = Len(a) BY <2>1
  <2>4. PICK m \in Nat : m = Len(e) BY <2>1
  <2>5. Len(b) = n + 1 /\ (\A i \in 1 .. n : b[i] = a[i]) /\ b[n + 1] = 0 BY <2>1, <2>3
  <2>6. \A i \in 1 .. n : a[i] \in S /\ a[i] \in Nat /\ a[i] \in t.pending /\ a[i] \notin Reads
    BY <1>1, <1>2, <1>3, <1>4, <1>6, <2>3 DEF InSequence
  <2>7. \A i \in 1 .. m : e[i] \in D /\ e[i] \in Nat /\ e[i] \in t.pending /\ e[i] \in Reads
    BY <1>1, <1>2, <1>3, <1>4, <1>6, <2>4 DEF InSequence
  <2>8. /\ \A i, j \in 1 .. n : i < j => a[i] < a[j]
        /\ \A i, j \in 1 .. m : i < j => e[i] < e[j] BY <1>2, <2>3, <2>4 DEF InSequence
  <2> HIDE DEF a, b, e
  <2>9. /\ s \in Seq(Nat) /\ Len(s) = n + 1 + m
        /\ \A k \in 1 .. n + 1 : s[k] = b[k]
        /\ \A k \in n + 2 .. n + 1 + m : k - (n + 1) \in 1 .. m /\ s[k] = e[k - (n + 1)]
    <3>1. PICK z \in Nat : z = n + 1 OBVIOUS
    <3>2. Len(b) = z /\ Len(e) = m BY <2>4, <2>5, <3>1
    <3>3. /\ b \o e \in Seq(Nat) /\ Len(b \o e) = z + m
          /\ \A k \in 1 .. z : (b \o e)[k] = b[k]
          /\ \A k \in z + 1 .. z + m : k - z \in 1 .. m /\ (b \o e)[k] = e[k - z]
      <4>1. b \in Seq(Nat) /\ e \in Seq(Nat) BY <2>1, <2>2
      <4>2. /\ b \o e \in Seq(Nat) /\ Len(b \o e) = Len(b) + Len(e)
            /\ \A k \in 1 .. Len(b) : (b \o e)[k] = b[k]
            /\ \A k \in Len(b) + 1 .. Len(b) + Len(e) : k - Len(b) \in 1 .. Len(e) /\ (b \o e)[k] = e[k - Len(b)]
        BY <4>1, Joined
      <4> QED BY <4>2, <3>2
    <3>4. z + 1 = n + 2 /\ z + m = n + 1 + m BY <3>1
    <3> QED BY <2>1, <3>1, <3>3, <3>4
  <2>10. DOMAIN s = 1 .. n + 1 + m BY <2>9
  <2>11. /\ \A k \in 1 .. n : s[k] = a[k]
         /\ s[n + 1] = 0 BY <2>5, <2>9
  <2>12. \A k \in DOMAIN s : k \in 1 .. n \/ k = n + 1 \/ k \in n + 2 .. n + 1 + m BY <2>10
  <2>13. \A k \in DOMAIN s : s[k] \in t.pending \/ s[k] = 0 BY <2>6, <2>7, <2>9, <2>11, <2>12
  <2>14. ASSUME NEW j \in DOMAIN s, NEW k \in DOMAIN s, j < k
         PROVE  s[j] # s[k] /\ (s[j] > s[k] => s[k] \in Reads \cup {0})
    <3>1. j \in 1 .. n + 1 + m /\ k \in 1 .. n + 1 + m BY <2>10
    <3>2. CASE k \in 1 .. n
      <4>1. j \in 1 .. n BY <3>1, <3>2, <2>14
      <4>2. a[j] < a[k] /\ a[j] \in Nat /\ a[k] \in Nat BY <4>1, <3>2, <2>6, <2>8, <2>14
      <4> QED BY <4>1, <4>2, <3>2, <2>11
    <3>3. CASE k = n + 1
      <4>1. j \in 1 .. n BY <3>1, <3>3, <2>14
      <4>2. s[j] \in t.pending /\ s[k] = 0 BY <4>1, <3>3, <2>6, <2>11
      <4> QED BY <4>2, <1>1
    <3>4. CASE k \in n + 2 .. n + 1 + m
      <4>1. s[k] \in D /\ s[k] \in Reads /\ s[k] \in t.pending BY <3>4, <2>7, <2>9
      <4>2. CASE j \in 1 .. n
        <5>1. s[j] \in S BY <4>2, <2>6, <2>11
        <5> QED BY <5>1, <4>1, <1>3
      <4>3. CASE j = n + 1 BY <4>1, <4>3, <2>11, <1>1
      <4>4. CASE j \in n + 2 .. n + 1 + m
        <5>1. j - (n + 1) \in 1 .. m /\ k - (n + 1) \in 1 .. m /\ j - (n + 1) < k - (n + 1)
          BY <3>4, <4>4, <2>14
        <5>2. e[j - (n + 1)] < e[k - (n + 1)] /\ e[j - (n + 1)] \in Nat /\ e[k - (n + 1)] \in Nat
          BY <5>1, <2>7, <2>8
        <5>3. s[j] = e[j - (n + 1)] /\ s[k] = e[k - (n + 1)] BY <3>4, <4>4, <2>9
        <5>4. s[j] < s[k] /\ s[j] \in Nat /\ s[k] \in Nat BY <5>2, <5>3
        <5> QED BY <5>4
      <4> QED BY <4>2, <4>3, <4>4, <2>12
    <3> QED BY <3>2, <3>3, <3>4, <2>12
  <2>15. \A j, k \in DOMAIN s : j < k \/ k < j \/ j = k BY <2>10
  <2>16. \A j, k \in DOMAIN s : s[j] = s[k] => j = k BY <2>14, <2>15
  <2>17. ASSUME NEW k \in DOMAIN s, s[k] \in Reads PROVE \E j \in 1 .. k - 1 : s[j] = 0
    <3>1. k \notin 1 .. n BY <2>6, <2>11, <2>17
    <3>2. 0 \notin Reads BY ReleaseSizes
    <3>3. k # n + 1 BY <3>2, <2>11, <2>17
    <3>4. k \in n + 2 .. n + 1 + m BY <3>1, <3>3, <2>12
    <3>5. n + 1 \in 1 .. k - 1 BY <3>4
    <3> QED BY <3>5, <2>11
  <2>18. n + 1 \in DOMAIN s BY <2>10
  <2> QED BY <1>6, <2>9, <2>11, <2>13, <2>14, <2>16, <2>17, <2>18
<1> QED BY <1>5, <1>6

\* Two runs in a entry.
LEMMA RunsJoin ==
  ASSUME NEW s \in Seq(Nat), NEW p \in Seq(Nat), RanRight(s),
         \A j, k \in DOMAIN p : p[j] = p[k] => j = k,
         \A j, k \in DOMAIN p : j < k /\ p[j] > p[k] => p[k] \in Reads \cup {0},
         \A j \in DOMAIN s, k \in DOMAIN p : s[j] # p[k] /\ (s[j] > p[k] => p[k] \in Reads \cup {0}),
         was # {} => \A k \in DOMAIN p : p[k] \in Reads =>
                       (\E j \in 1 .. k - 1 : p[j] = 0) \/ (\E j \in DOMAIN s : s[j] = 0)
  PROVE  /\ s \o p \in Seq(Nat) /\ RanRight(s \o p)
         /\ \A k \in DOMAIN (s \o p) : \/ \E j \in DOMAIN s : (s \o p)[k] = s[j]
                                       \/ \E j \in DOMAIN p : (s \o p)[k] = p[j]
         /\ \A j \in DOMAIN s : \E k \in DOMAIN (s \o p) : (s \o p)[k] = s[j]
         /\ \A j \in DOMAIN p : \E k \in DOMAIN (s \o p) : (s \o p)[k] = p[j]
<1>1. PICK n \in Nat : n = Len(s) OBVIOUS
<1>2. PICK m \in Nat : m = Len(p) OBVIOUS
<1>3. DOMAIN s = 1 .. n /\ DOMAIN p = 1 .. m BY <1>1, <1>2
<1> DEFINE w == s \o p
<1>4. /\ w \in Seq(Nat) /\ DOMAIN w = 1 .. n + m
      /\ \A k \in 1 .. n : w[k] = s[k]
      /\ \A k \in n + 1 .. n + m : k - n \in 1 .. m /\ w[k] = p[k - n] BY <1>1, <1>2, Joined
<1>5. \A k \in 1 .. m : k + n \in n + 1 .. n + m /\ w[k + n] = p[k]
  <2> SUFFICES ASSUME NEW k \in 1 .. m PROVE k + n \in n + 1 .. n + m /\ w[k + n] = p[k] OBVIOUS
  <2>1. k + n \in n + 1 .. n + m /\ (k + n) - n = k OBVIOUS
  <2> QED BY <2>1, <1>4
<1> HIDE DEF w
<1>6. \A k \in DOMAIN w : k \in 1 .. n \/ k \in n + 1 .. n + m BY <1>4
<1>7. \A k \in DOMAIN w : w[k] \in Nat BY <1>4
<1>8. ASSUME NEW j \in DOMAIN w, NEW k \in DOMAIN w, j < k
      PROVE  w[j] # w[k] /\ (w[j] > w[k] => w[k] \in Reads \cup {0})
  <2>1. CASE k \in 1 .. n
    <3>1. j \in 1 .. n BY <2>1, <1>4, <1>8
    <3>2. w[j] = s[j] /\ w[k] = s[k] /\ j \in DOMAIN s /\ k \in DOMAIN s BY <3>1, <2>1, <1>3, <1>4
    <3>3. s[j] # s[k] /\ (s[j] > s[k] => s[k] \in Reads \cup {0}) BY <3>2, <1>8 DEF RanRight
    <3> QED BY <3>2, <3>3
  <2>2. CASE k \in n + 1 .. n + m
    <3>1. w[k] = p[k - n] /\ k - n \in DOMAIN p BY <2>2, <1>3, <1>4
    <3>2. CASE j \in 1 .. n
      <4>1. w[j] = s[j] /\ j \in DOMAIN s BY <3>2, <1>3, <1>4
      <4> QED BY <3>1, <4>1
    <3>3. CASE j \in n + 1 .. n + m
      <4>1. w[j] = p[j - n] /\ j - n \in DOMAIN p /\ j - n < k - n BY <2>2, <3>3, <1>3, <1>4, <1>8
      <4>2. p[j - n] # p[k - n] BY <3>1, <4>1
      <4>3. p[j - n] > p[k - n] => p[k - n] \in Reads \cup {0} BY <3>1, <4>1
      <4> QED BY <3>1, <4>1, <4>2, <4>3
    <3> QED BY <3>2, <3>3, <1>6
  <2> QED BY <2>1, <2>2, <1>6
<1>9. \A j, k \in DOMAIN w : j < k \/ k < j \/ j = k BY <1>4
<1>10. \A j, k \in DOMAIN w : w[j] = w[k] => j = k BY <1>8, <1>9
<1>11. ASSUME was # {}, NEW k \in DOMAIN w, w[k] \in Reads PROVE \E j \in 1 .. k - 1 : w[j] = 0
  <2>1. CASE k \in 1 .. n
    <3>1. w[k] = s[k] /\ k \in DOMAIN s BY <2>1, <1>3, <1>4
    <3>2. PICK j \in 1 .. k - 1 : s[j] = 0 BY <3>1, <1>11 DEF RanRight
    <3>3. j \in 1 .. n BY <2>1, <3>2
    <3> QED BY <3>2, <3>3, <1>4
  <2>2. CASE k \in n + 1 .. n + m
    <3>1. w[k] = p[k - n] /\ k - n \in DOMAIN p BY <2>2, <1>3, <1>4
    <3>2. CASE \E j \in 1 .. (k - n) - 1 : p[j] = 0
      <4>1. PICK j \in 1 .. (k - n) - 1 : p[j] = 0 BY <3>2
      <4>2. j \in 1 .. m /\ j + n \in 1 .. k - 1 BY <2>2, <4>1
      <4> QED BY <4>1, <4>2, <1>5
    <3>3. CASE \E j \in DOMAIN s : s[j] = 0
      <4>1. PICK j \in DOMAIN s : s[j] = 0 BY <3>3
      <4>2. j \in 1 .. n /\ j \in 1 .. k - 1 BY <4>1, <2>2, <1>3
      <4> QED BY <4>1, <4>2, <1>4
    <3> QED BY <3>1, <3>2, <3>3, <1>11
  <2> QED BY <2>1, <2>2, <1>6
<1>12. RanRight(w) BY <1>8, <1>10, <1>11 DEF RanRight
<1>13. \A k \in DOMAIN w : (\E j \in DOMAIN s : w[k] = s[j]) \/ (\E j \in DOMAIN p : w[k] = p[j])
  BY <1>3, <1>4, <1>6
<1>14. \A j \in DOMAIN s : \E k \in DOMAIN w : w[k] = s[j] BY <1>3, <1>4
<1>15. \A j \in DOMAIN p : \E k \in DOMAIN w : w[k] = p[j]
  <2> SUFFICES ASSUME NEW j \in DOMAIN p PROVE \E k \in DOMAIN w : w[k] = p[j] OBVIOUS
  <2>1. j + n \in DOMAIN w /\ w[j + n] = p[j] BY <1>3, <1>4, <1>5
  <2> QED BY <2>1
<1> QED BY <1>4, <1>12, <1>13, <1>14, <1>15 DEF w

\* A database that holds all of a release.
HoldsAll(c, r) ==
  /\ {"shape", "effects", "ledger", "ran"} \subseteq DOMAIN c
  /\ c.shape = "plain" /\ c.ledger # {} /\ MI!LedgerFits(c, r) /\ c.effects = MI!All(r) /\ MI!Known(c) = MI!All(r)

\* An upgrade that has taken every migration leaves the ledger of all of its release.
LEMMA AllIsRecorded ==
  ASSUME DatabaseWhole, NEW t, Begun(t, db), t.next \notin 1 .. Len(t.release), NEW c,
         {"shape", "effects", "ledger", "ran"} \subseteq DOMAIN c, c.shape = "plain", c.ledger = t.db.ledger,
         c.effects = MI!All(t.release)
  PROVE  HoldsAll(c, t.release)
<1> DEFINE r == t.release
<1>1. r \in Releases /\ Len(r) \in Nat /\ MI!All(r) = 1 .. Len(r) /\ Len(r) > 0 BY ReleaseSizes DEF Begun
<1>2. t.next = Len(r) + 1 BY <1>1 DEF Begun
<1>3. \A entry \in c.ledger : entry[1] \in 1 .. Len(r) /\ r[entry[1]] = entry[2]
  <2> SUFFICES ASSUME NEW entry \in c.ledger PROVE entry[1] \in 1 .. Len(r) /\ r[entry[1]] = entry[2]
    OBVIOUS
  <2>1. CASE entry \in db.ledger
    <3>1. MI!LedgerFits(db, r) BY <2>1 DEF Begun, MI!Supported
    <3> QED BY <3>1, <2>1, <1>1 DEF MI!LedgerFits
  <2>2. CASE \E v \in 1 .. t.next - 1 : entry = <<v, r[v]>> BY <2>2, <1>1, <1>2
  <2> QED BY <2>1, <2>2 DEF Begun
<1>4. 1 .. Len(r) \subseteq MI!Known(c)
  <2>1. \A v \in 1 .. t.next - 1 : v \in MI!Known(t.db) BY DEF Begun
  <2>2. t.next - 1 = Len(r) BY <1>1, <1>2
  <2> QED BY <2>1, <2>2 DEF MI!Known
<1>5. MI!Known(c) = 1 .. Len(r)
  <2>1. MI!Known(c) \subseteq 1 .. Len(r) BY <1>3 DEF MI!Known
  <2> QED BY <2>1, <1>4
<1>6. c.ledger # {}
  <2>1. 1 \in MI!Known(c) BY <1>1, <1>5
  <2> QED BY <2>1 DEF MI!Known
<1>7. MI!Cardinality(1 .. Len(r)) = Len(r)
  <2>1. Cardinality(1 .. Len(r)) = Len(r) BY <1>1, FS_Interval
  <2> QED BY <2>1 DEF MI!Cardinality, Cardinality
<1>8. MI!LedgerFits(c, r) BY <1>1, <1>3, <1>5, <1>7 DEF MI!LedgerFits
<1> QED BY <1>1, <1>5, <1>6, <1>8 DEF HoldsAll

\* What was run before and what this upgrade ran.
LEMMA AllIsRunRight ==
  ASSUME DatabaseWhole, NEW t, Begun(t, db), NEW s, s = Ended(t), t.next \notin 1 .. Len(t.release)
  PROVE  /\ db.ran \o s \in Seq(Nat) /\ RanRight(db.ran \o s)
         /\ \A k \in DOMAIN (db.ran \o s) :
              /\ (db.ran \o s)[k] # 0 => (db.ran \o s)[k] \in MI!All(t.release) \ was
              /\ (db.ran \o s)[k] = 0 => Conversion \in MI!All(t.release)
         /\ was # {} => \E k \in DOMAIN (db.ran \o s) : (db.ran \o s)[k] = 0
<1> DEFINE r == t.release
<1>1. r \in Releases /\ Len(r) \in Nat /\ MI!All(r) = 1 .. Len(r) /\ Conversion \in 1 .. Len(r)
  BY ReleaseSizes DEF Begun
<1>2. MI!Supported(db, r) /\ t.pending = MI!Pending(db, r) /\ t.fresh = MI!Fresh(db) BY DEF Begun
<1>3. /\ t.pending \subseteq 1 .. Len(r) /\ t.pending \cap MI!Known(db) = {}
      /\ ~MI!Fresh(db) => t.pending \cap was = {}
      /\ ~MI!Fresh(db) /\ db.ledger = {} => Conversion \in t.pending
      /\ db.ledger # {} => ~MI!Fresh(db) /\ \A v \in t.pending, x \in MI!Known(db) : x < v
  BY <1>1, <1>2, PendingIsNew
<1>4. /\ s \in Seq(Nat) /\ \A j, k \in DOMAIN s : s[j] = s[k] => j = k
      /\ \A k \in DOMAIN s : s[k] \in t.pending \/ (s[k] = 0 /\ MI!Converting(t))
      /\ \A j, k \in DOMAIN s : j < k /\ s[j] > s[k] => s[k] \in Reads \cup {0}
      /\ MI!Converting(t) => /\ \E k \in DOMAIN s : s[k] = 0
                             /\ \A k \in DOMAIN s : s[k] \in Reads => \E j \in 1 .. k - 1 : s[j] = 0
  BY RanInTheEnd
<1>5. MI!Converting(t) <=> ~MI!Fresh(db) /\ Conversion \in t.pending BY <1>2 DEF MI!Converting
<1>6. MI!Fresh(db) => was = {} BY DEF DatabaseWhole, MI!Fresh
<1>7. db.ran \in Seq(Nat) /\ RanRight(db.ran) BY DEF DatabaseWhole
<1>8. \A k \in DOMAIN db.ran : /\ db.ran[k] # 0 => db.ran[k] \in MI!Known(db) \ was
                               /\ db.ran[k] = 0 => Conversion \in MI!Known(db) BY DEF DatabaseWhole
<1>9. db.ledger = {} => db.ran = <<>> BY DEF DatabaseWhole
<1>10. db.ledger # {} /\ was # {} => \E k \in DOMAIN db.ran : db.ran[k] = 0 BY DEF DatabaseWhole
<1>11. \A v \in t.pending : v \in Nat /\ v # 0 BY <1>1, <1>3
<1>12. ASSUME NEW j \in DOMAIN db.ran, NEW k \in DOMAIN s
       PROVE  db.ran[j] # s[k] /\ (db.ran[j] > s[k] => s[k] \in Reads \cup {0})
  <2>1. db.ledger # {} BY <1>9
  <2>2. CASE s[k] = 0 /\ MI!Converting(t)
    <3>1. Conversion \notin MI!Known(db) BY <2>2, <1>3, <1>5
    <3> QED BY <3>1, <2>2, <1>8
  <2>3. CASE s[k] \in t.pending
    <3>1. CASE db.ran[j] = 0
      <4>1. s[k] \in Nat /\ s[k] # 0 BY <2>3, <1>11
      <4> QED BY <3>1, <4>1
    <3>2. CASE db.ran[j] # 0
      <4>1. db.ran[j] \in MI!Known(db) BY <3>2, <1>8
      <4>2. db.ran[j] < s[k] /\ db.ran[j] \in Nat /\ s[k] \in Nat BY <4>1, <2>1, <2>3, <1>3, <1>7, <1>11
      <4> QED BY <4>2
    <3> QED BY <3>1, <3>2
  <2> QED BY <2>2, <2>3, <1>4
<1>13. ASSUME was # {}, NEW k \in DOMAIN s, s[k] \in Reads
       PROVE  (\E j \in 1 .. k - 1 : s[j] = 0) \/ (\E j \in DOMAIN db.ran : db.ran[j] = 0)
  <2>1. CASE db.ledger # {} BY <2>1, <1>10, <1>13
  <2>2. CASE db.ledger = {}
    <3>1. MI!Converting(t) BY <2>2, <1>3, <1>5, <1>6, <1>13
    <3> QED BY <3>1, <1>4, <1>13
  <2> QED BY <2>1, <2>2
<1> DEFINE w == db.ran \o s
<1>14. /\ w \in Seq(Nat) /\ RanRight(w)
       /\ \A k \in DOMAIN w : (\E j \in DOMAIN db.ran : w[k] = db.ran[j]) \/ (\E j \in DOMAIN s : w[k] = s[j])
       /\ \A j \in DOMAIN db.ran : \E k \in DOMAIN w : w[k] = db.ran[j]
       /\ \A j \in DOMAIN s : \E k \in DOMAIN w : w[k] = s[j]
  <2>1. s \in Seq(Nat) /\ db.ran \in Seq(Nat) /\ RanRight(db.ran) BY <1>4, <1>7
  <2>2. \A j, k \in DOMAIN s : s[j] = s[k] => j = k BY <1>4
  <2>3. \A j, k \in DOMAIN s : j < k /\ s[j] > s[k] => s[k] \in Reads \cup {0} BY <1>4
  <2>4. \A j \in DOMAIN db.ran, k \in DOMAIN s :
          db.ran[j] # s[k] /\ (db.ran[j] > s[k] => s[k] \in Reads \cup {0}) BY <1>12
  <2>5. was # {} => \A k \in DOMAIN s : s[k] \in Reads =>
                      (\E j \in 1 .. k - 1 : s[j] = 0) \/ (\E j \in DOMAIN db.ran : db.ran[j] = 0) BY <1>13
  <2> QED BY <2>1, <2>2, <2>3, <2>4, <2>5, RunsJoin
<1> HIDE DEF w
<1>15. \A v \in MI!Known(db) : v \in MI!All(r)
  <2>1. CASE db.ledger = {} BY <2>1 DEF MI!Known
  <2>2. CASE db.ledger # {}
    <3>1. MI!LedgerFits(db, r) BY <2>2, <1>2 DEF MI!Supported
    <3> QED BY <3>1 DEF MI!LedgerFits, MI!Known
  <2> QED BY <2>1, <2>2
<1>16. ASSUME NEW k \in DOMAIN w
       PROVE  (w[k] # 0 => w[k] \in MI!All(r) \ was) /\ (w[k] = 0 => Conversion \in MI!All(r))
  <2>1. CASE \E j \in DOMAIN db.ran : w[k] = db.ran[j] BY <2>1, <1>8, <1>15
  <2>2. CASE \E j \in DOMAIN s : w[k] = s[j]
    <3>1. PICK j \in DOMAIN s : w[k] = s[j] BY <2>2
    <3>2. CASE s[j] = 0 BY <3>1, <3>2, <1>1
    <3>3. CASE s[j] \in t.pending BY <3>1, <3>3, <1>1, <1>3, <1>6, <1>11
    <3> QED BY <3>2, <3>3, <1>4
  <2> QED BY <2>1, <2>2, <1>14
<1>17. ASSUME was # {} PROVE \E k \in DOMAIN w : w[k] = 0
  <2>1. CASE db.ledger # {}
    <3>1. PICK j \in DOMAIN db.ran : db.ran[j] = 0 BY <2>1, <1>10, <1>17
    <3> QED BY <3>1, <1>14
  <2>2. CASE db.ledger = {}
    <3>1. MI!Converting(t) BY <2>2, <1>3, <1>5, <1>6, <1>17
    <3>2. PICK j \in DOMAIN s : s[j] = 0 BY <3>1, <1>4
    <3> QED BY <3>2, <1>14
  <2> QED BY <2>1, <2>2
<1> QED BY <1>14, <1>16, <1>17 DEF w

\* The database that an upgrade commits.
LEMMA CommittedIsWhole ==
  ASSUME DatabaseWhole, NEW t, Begun(t, db), t.next \notin 1 .. Len(t.release), NEW d,
         HoldsAll(d, t.release), d.ran = db.ran \o Ended(t), was' = was, db' = d
  PROVE  DatabaseWhole'
<1> DEFINE r == t.release
<1>1. PICK w : w = db.ran \o Ended(t) OBVIOUS
<1>2. /\ w \in Seq(Nat) /\ RanRight(w)
      /\ \A k \in DOMAIN w : /\ w[k] # 0 => w[k] \in MI!All(r) \ was
                             /\ w[k] = 0 => Conversion \in MI!All(r)
      /\ was # {} => \E k \in DOMAIN w : w[k] = 0
  <2>1. PICK s : s = Ended(t) OBVIOUS
  <2> QED BY <2>1, <1>1, AllIsRunRight
<1>3. r \in Releases /\ MI!All(r) = 1 .. Len(r) /\ Len(r) \in Nat /\ Len(r) >= Conversion
  BY ReleaseSizes DEF Begun
<1>4. was \subseteq MI!All(r)
  <2>1. was \in {{}, 1 .. Baseline, 1 .. Maintenance, 1 .. System} BY DEF DatabaseWhole
  <2> QED BY <2>1, <1>3, ReleaseSizes
<1>5. /\ {"shape", "effects", "ledger", "ran"} \subseteq DOMAIN d
      /\ d.shape = "plain" /\ d.ledger # {} /\ MI!LedgerFits(d, r) /\ d.effects = MI!All(r) /\ MI!Known(d) = MI!All(r)
      /\ d.ran = w BY <1>1 DEF HoldsAll
<1>6. RanRight(db.ran)' BY <1>2, <1>5 DEF RanRight
<1>7. MI!LedgerFits(db, r)' /\ MI!Known(db)' = MI!All(r) BY <1>5 DEF MI!LedgerFits, MI!Known, MI!All
<1>8. was \in {{}, 1 .. Baseline, 1 .. Maintenance, 1 .. System} BY DEF DatabaseWhole
<1>9. /\ {"shape", "effects", "ledger", "ran"} \subseteq DOMAIN db' /\ db'.shape = "plain" /\ db'.ledger # {}
      /\ db'.effects = MI!All(r) /\ db'.ran = w BY <1>5
<1>10. \E q \in Releases : (MI!LedgerFits(db, q) /\ db.effects = MI!All(q) /\ MI!Known(db) = MI!All(q))'
  <2>1. (MI!LedgerFits(db, r))' /\ db'.effects = MI!All(r) /\ MI!Known(db)' = MI!All(r) BY <1>7, <1>9
  <2> QED BY <2>1, <1>3 DEF MI!All, MI!LedgerFits, MI!Known
<1>11. \A k \in DOMAIN w : /\ w[k] # 0 => w[k] \in MI!Known(db)' \ was'
                           /\ w[k] = 0 => Conversion \in MI!Known(db)' BY <1>2, <1>7
<1>12. was' \subseteq db'.effects /\ was' \in {{}, 1 .. Baseline, 1 .. Maintenance, 1 .. System}
  BY <1>4, <1>8, <1>9
<1>13. was' # {} => \E k \in DOMAIN w : w[k] = 0 BY <1>2
<1> QED BY <1>2, <1>6, <1>9, <1>10, <1>11, <1>12, <1>13 DEF DatabaseWhole

\* An upgrade that is done commits its database and its ledger, or nothing.
LEMMA FinishKeeps ==
  ASSUME MigrationWhole, NEW u \in MI!Upgrade, MI!Finish(u)
  PROVE  MigrationWhole'
<1>1. PICK t : t = tx[u] OBVIOUS
<1>2. PICK e : e = t.db.effects \cup MI!Range(t.deferred) OBVIOUS
<1>3. PICK c : c = IF MI!Converting(t)
                   THEN [t EXCEPT !.ran = Append(@, 0) \o t.deferred,
                                  !.db.effects = @ \cup MI!Range(t.deferred)]
                   ELSE t OBVIOUS
<1>4. /\ t.phase = "applying" /\ t.next \notin DOMAIN t.release
      /\ db' = IF MI!Bootstraps(c.db, t.release) THEN [c.db EXCEPT !.ran = db.ran \o c.ran] ELSE db
      /\ tx' = [tx EXCEPT ![u] = MI!NoTx] /\ UNCHANGED <<was, runs, sync>>
  BY <1>1, <1>3 DEF MI!Finish, MI!Converted
<1>5. Begun(t, db) /\ DatabaseWhole BY <1>1, <1>4 DEF MigrationWhole
<1>6. t.release \in Releases /\ Len(t.release) \in Nat /\ MI!All(t.release) = 1 .. Len(t.release)
      /\ t.next \notin 1 .. Len(t.release) BY <1>4, <1>5, ReleaseSizes DEF Begun
<1>7. /\ {"phase", "release", "db", "fresh", "pending", "next", "deferred", "ran"} \subseteq DOMAIN t
      /\ {"shape", "effects", "ledger", "ran"} \subseteq DOMAIN t.db /\ t.db.shape = "plain"
  BY <1>5 DEF Begun
<1>8. /\ {"shape", "effects", "ledger", "ran"} \subseteq DOMAIN c.db
      /\ c.db.shape = "plain" /\ c.db.ledger = t.db.ledger /\ c.ran = Ended(t)
      /\ t.db.effects \subseteq c.db.effects
  <2>1. CASE ~MI!Converting(t) BY <2>1, <1>3, <1>7 DEF Ended
  <2>2. CASE MI!Converting(t)
    <3>1. PICK l : l = Append(t.ran, 0) \o t.deferred OBVIOUS
    <3>2. c = [t EXCEPT !.ran = l, !.db.effects = e] BY <2>2, <3>1, <1>2, <1>3
    <3>3. c.ran = l /\ c.db = [t.db EXCEPT !.effects = e] BY <3>2, <1>7
    <3>4. l = Ended(t) BY <2>2, <3>1 DEF Ended
    <3> QED BY <3>3, <3>4, <1>2, <1>7
  <2> QED BY <2>1, <2>2
<1>9. db.effects \subseteq db'.effects /\ DatabaseWhole'
  <2>1. CASE ~MI!Bootstraps(c.db, t.release)
    <3>1. db' = db /\ was' = was BY <2>1, <1>4
    <3> QED BY <3>1, <1>5 DEF DatabaseWhole, RanRight, MI!LedgerFits, MI!Known
  <2>2. CASE MI!Bootstraps(c.db, t.release)
    <3>1. PICK w : w = db.ran \o c.ran OBVIOUS
    <3>2. db' = [c.db EXCEPT !.ran = w] BY <2>2, <3>1, <1>4
    <3>3. PICK d : d = db' OBVIOUS
    <3>4. /\ {"shape", "effects", "ledger", "ran"} \subseteq DOMAIN d /\ d.shape = "plain"
          /\ d.ledger = t.db.ledger /\ d.effects = c.db.effects /\ d.ran = db.ran \o Ended(t)
      BY <3>1, <3>2, <3>3, <1>8
    <3>5. db.effects \subseteq d.effects BY <3>4, <1>5, <1>8 DEF Begun
    <3>6. d.effects = MI!All(t.release)
      <4>1. d.effects \in {{}, MI!All(t.release)} BY <2>2, <3>4 DEF MI!Bootstraps
      <4>2. CASE t.fresh
        <5>1. t.db.effects = MI!All(t.release) BY <4>2, <1>5 DEF Begun
        <5>2. 1 \in MI!All(t.release) BY <1>6, ReleaseSizes
        <5> QED BY <4>1, <5>1, <5>2, <3>4, <1>8
      <4>3. CASE ~t.fresh
        <5>1. db.effects # {} BY <4>3, <1>5 DEF Begun, MI!Fresh
        <5> QED BY <4>1, <5>1, <3>5
      <4> QED BY <4>2, <4>3
    <3>7. HoldsAll(d, t.release) BY <3>4, <3>6, <1>5, <1>6, AllIsRecorded
    <3>8. DatabaseWhole' BY <3>3, <3>4, <3>7, <1>4, <1>5, <1>6, CommittedIsWhole
    <3> QED BY <3>3, <3>5, <3>8
  <2> QED BY <2>1, <2>2
<1>10. SyncWhole' BY <1>4, <1>9 DEF MigrationWhole, SyncWhole, MI!All
<1>11. DOMAIN tx' = MI!Upgrade /\ tx'[u] = MI!NoTx /\ \A o \in MI!Upgrade \ {u} : tx'[o] = tx[o] /\ tx[o].phase = "none"
  BY <1>1, <1>4 DEF MigrationWhole
<1>12. \A o \in MI!Upgrade : "phase" \in DOMAIN tx'[o] /\ tx'[o].phase = "none"
  BY <1>11 DEF MigrationWhole, MI!NoTx
<1> QED BY <1>9, <1>10, <1>11, <1>12 DEF MigrationWhole

\* An upgrade that fails leaves nothing.
LEMMA AbortKeeps ==
  ASSUME MigrationWhole, NEW u \in MI!Upgrade, MI!Abort(u)
  PROVE  MigrationWhole'
<1>1. tx[u].phase = "applying" /\ tx' = [tx EXCEPT ![u] = MI!NoTx] /\ UNCHANGED <<db, was, runs, sync>>
  BY DEF MI!Abort, MigrationWhole
<1>2. DOMAIN tx' = MI!Upgrade /\ tx'[u] = MI!NoTx /\ \A o \in MI!Upgrade \ {u} : tx'[o] = tx[o] /\ tx[o].phase = "none"
  BY <1>1 DEF MigrationWhole
<1>3. \A o \in MI!Upgrade : "phase" \in DOMAIN tx'[o] /\ tx'[o].phase = "none"
  BY <1>2 DEF MigrationWhole, MI!NoTx
<1>4. DatabaseWhole' /\ SyncWhole'
  BY <1>1 DEF MigrationWhole, DatabaseWhole, SyncWhole, RanRight, MI!LedgerFits, MI!Known
<1> QED BY <1>2, <1>3, <1>4 DEF MigrationWhole

\* The sync service waits for the database, and stops.
LEMMA SyncAloneKeeps ==
  ASSUME MigrationWhole, MI!WaitForDatabase \/ MI!StopSync
  PROVE  MigrationWhole'
<1>1. UNCHANGED <<db, was, tx, runs>> BY DEF MI!WaitForDatabase, MI!StopSync
<1>2. DatabaseWhole' BY <1>1 DEF MigrationWhole, DatabaseWhole, RanRight, MI!LedgerFits, MI!Known
<1>3. {"phase", "attempt", "release", "ready"} \subseteq DOMAIN sync /\ sync.release \in Releases BY DEF MigrationWhole, SyncWhole
<1>4. SyncWhole'
  <2>1. CASE MI!StopSync
    <3>1. sync' = [sync EXCEPT !.phase = "stopped", !.ready = FALSE] BY <2>1 DEF MI!StopSync
    <3>2. /\ {"phase", "attempt", "release", "ready"} \subseteq DOMAIN sync'
          /\ sync'.release = sync.release /\ sync'.phase = "stopped" /\ ~sync'.ready BY <3>1, <1>3
    <3> QED BY <3>2, <1>3 DEF SyncWhole
  <2>2. CASE MI!WaitForDatabase
    <3>1. ~sync.ready BY <2>2 DEF MigrationWhole, SyncWhole, MI!WaitForDatabase
    <3>2. \/ sync' = [sync EXCEPT !.phase = "initialize"]
          \/ sync' = [sync EXCEPT !.attempt = @ + 1]
          \/ sync' = [sync EXCEPT !.phase = "stopped"] BY <2>2 DEF MI!WaitForDatabase
    <3>3. /\ {"phase", "attempt", "release", "ready"} \subseteq DOMAIN sync'
          /\ sync'.release = sync.release /\ ~sync'.ready BY <3>1, <3>2, <1>3
    <3> QED BY <3>3, <1>3 DEF SyncWhole
  <2> QED BY <2>1, <2>2
<1> QED BY <1>1, <1>2, <1>4 DEF MigrationWhole

\* The sync service creates what is missing, in a database that lacks everything or nothing.
LEMMA InitializeKeeps ==
  ASSUME MigrationWhole, MI!InitializeDatabase
  PROVE  MigrationWhole'
<1>1. DatabaseWhole /\ SyncWhole /\ DOMAIN tx = MI!Upgrade /\ \A u \in MI!Upgrade : "phase" \in DOMAIN tx[u] /\ tx[u].phase = "none"
  BY DEF MigrationWhole, MI!InitializeDatabase
<1>2. {"phase", "attempt", "release", "ready"} \subseteq DOMAIN sync /\ sync.release \in Releases /\ ~sync.ready
      /\ UNCHANGED <<was, tx, runs>> BY <1>1 DEF SyncWhole, MI!InitializeDatabase
<1>3. PICK r \in Releases : r = sync.release BY <1>2
<1>4. CASE ~MI!Bootstraps(db, r)
  <2>1. sync' = [sync EXCEPT !.phase = "stopped"] /\ UNCHANGED db BY <1>3, <1>4 DEF MI!InitializeDatabase
  <2>2. DatabaseWhole' BY <2>1, <1>1, <1>2 DEF DatabaseWhole, RanRight, MI!LedgerFits, MI!Known
  <2>3. SyncWhole' BY <2>1, <1>2 DEF SyncWhole
  <2> QED BY <2>2, <2>3, <1>1, <1>2 DEF MigrationWhole
<1>5. CASE MI!Bootstraps(db, r)
  <2>1. /\ db' = [db EXCEPT !.effects = MI!All(r), !.shape = "plain"]
        /\ sync' = [sync EXCEPT !.phase = "running", !.ready = TRUE] BY <1>3, <1>5 DEF MI!InitializeDatabase
  <2>2. {"shape", "effects", "ledger", "ran"} \subseteq DOMAIN db BY <1>1 DEF DatabaseWhole
  <2>3. /\ {"shape", "effects", "ledger", "ran"} \subseteq DOMAIN db'
        /\ db'.effects = MI!All(r) /\ db'.shape = "plain" /\ db'.ledger = db.ledger /\ db'.ran = db.ran
    BY <2>1, <2>2
  <2>4. db.effects \in {{}, MI!All(r)} BY <1>5 DEF MI!Bootstraps
  <2>5. MI!All(r) = 1 .. Len(r) /\ Len(r) \in Nat /\ Len(r) >= Conversion BY ReleaseSizes
  <2>6. MI!Known(db)' = MI!Known(db) BY <2>3 DEF MI!Known
  <2>7. was = {} \/ db.effects = MI!All(r) BY <2>4, <1>1 DEF DatabaseWhole
  <2>8. was # {} => db.ledger # {}
    <3> SUFFICES ASSUME was # {}, db.ledger = {} PROVE FALSE OBVIOUS
    <3>1. was = MI!All(r) BY <2>7, <1>1 DEF DatabaseWhole
    <3>2. Conversion \in was BY <3>1, <2>5, ReleaseSizes
    <3> QED BY <3>2, <1>1, ReleaseSizes DEF DatabaseWhole
  <2>9. db.ledger # {} => db.effects = MI!All(r)
    <3> SUFFICES ASSUME db.ledger # {} PROVE db.effects # {} BY <2>4
    <3>1. PICK q \in Releases : db.effects = MI!All(q) BY <1>1 DEF DatabaseWhole
    <3>2. 1 \in MI!All(q) BY ReleaseSizes
    <3> QED BY <3>1, <3>2
  <2>10. DatabaseWhole'
    <3>1. was' \in {{}, 1 .. Baseline, 1 .. Maintenance, 1 .. System} /\ was' \subseteq db'.effects
      BY <2>3, <2>7, <1>1, <1>2 DEF DatabaseWhole
    <3>2. db'.ledger = {} => db'.ran = <<>> /\ was' = {} BY <2>3, <2>8, <1>1, <1>2 DEF DatabaseWhole
    <3>3. RanRight(db.ran)' /\ db'.ran \in Seq(Nat) BY <2>3, <1>1, <1>2 DEF DatabaseWhole, RanRight
    <3>4. \A k \in DOMAIN db'.ran : /\ db'.ran[k] # 0 => db'.ran[k] \in MI!Known(db)' \ was'
                                    /\ db'.ran[k] = 0 => Conversion \in MI!Known(db)'
      BY <2>3, <2>6, <1>1, <1>2 DEF DatabaseWhole
    <3>5. ASSUME db'.ledger # {}
          PROVE  /\ \E q \in Releases : (MI!LedgerFits(db, q) /\ db.effects = MI!All(q) /\ MI!Known(db) = MI!All(q))'
                 /\ was' # {} => \E k \in DOMAIN db'.ran : db'.ran[k] = 0
      <4>1. db.ledger # {} BY <3>5, <2>3
      <4>2. PICK q \in Releases : MI!LedgerFits(db, q) /\ db.effects = MI!All(q) /\ MI!Known(db) = MI!All(q)
        BY <4>1, <1>1 DEF DatabaseWhole
      <4>3. db'.effects = MI!All(q) BY <4>1, <4>2, <2>3, <2>9
      <4>4. MI!LedgerFits(db, q)' BY <4>2, <2>3, <2>6 DEF MI!LedgerFits, MI!All
      <4>5. was # {} => \E k \in DOMAIN db.ran : db.ran[k] = 0 BY <4>1, <1>1 DEF DatabaseWhole
      <4>6. \E x \in Releases : (MI!LedgerFits(db, x) /\ db.effects = MI!All(x) /\ MI!Known(db) = MI!All(x))'
        BY <4>2, <4>3, <4>4, <2>6 DEF MI!All
      <4> QED BY <4>5, <4>6, <2>3, <1>2
    <3> QED BY <2>3, <3>1, <3>2, <3>3, <3>4, <3>5 DEF DatabaseWhole
  <2>11. SyncWhole'
    <3>1. sync'.release = r /\ sync'.phase = "running" /\ {"phase", "attempt", "release", "ready"} \subseteq DOMAIN sync'
      BY <2>1, <1>2, <1>3
    <3>2. (MI!All(sync.release) \subseteq db.effects)' BY <2>3, <3>1 DEF MI!All
    <3> QED BY <3>1, <3>2 DEF SyncWhole
  <2> QED BY <2>10, <2>11, <1>1, <1>2 DEF MigrationWhole
<1> QED BY <1>3, <1>4, <1>5

\* Every step keeps it.
LEMMA MigrationSteps ==
  ASSUME MigrationWhole, MI!Next \/ UNCHANGED MI!migrationVars
  PROVE  MigrationWhole'
<1>1. CASE UNCHANGED MI!migrationVars
  <2>1. UNCHANGED <<db, was, tx, runs, sync>> BY <1>1 DEF MI!migrationVars
  <2>2. DatabaseWhole' /\ SyncWhole'
    BY <2>1 DEF MigrationWhole, DatabaseWhole, SyncWhole, RanRight, MI!LedgerFits, MI!Known
  <2> QED BY <2>1, <2>2 DEF MigrationWhole
<1>2. CASE MI!Next
  <2>1. ASSUME NEW u \in MI!Upgrade, MI!Begin(u) PROVE MigrationWhole' BY <2>1, BeginKeepsDatabase
  <2>2. ASSUME NEW u \in MI!Upgrade, MI!Apply(u) PROVE MigrationWhole' BY <2>2, ApplyKeeps
  <2>3. ASSUME NEW u \in MI!Upgrade, MI!Finish(u) PROVE MigrationWhole' BY <2>3, FinishKeeps
  <2>4. ASSUME NEW u \in MI!Upgrade, MI!Abort(u) PROVE MigrationWhole' BY <2>4, AbortKeeps
  <2>5. CASE MI!WaitForDatabase \/ MI!StopSync BY <2>5, SyncAloneKeeps
  <2>6. CASE MI!InitializeDatabase BY <2>6, InitializeKeeps
  <2> QED BY <1>2, <2>1, <2>2, <2>3, <2>4, <2>5, <2>6 DEF MI!Next
<1> QED BY <1>1, <1>2

\* What it promises: the ledger is true, every migration ran once and in order, and the schema that is
\* called ready is there.
LEMMA MigrationPromise ==
  ASSUME MigrationWhole
  PROVE  MI!LedgerTrue /\ MI!RunOnceInOrder /\ MI!ReadyIsCurrent
<1>1. DatabaseWhole /\ SyncWhole BY DEF MigrationWhole
<1>2. MI!ReadyIsCurrent BY <1>1 DEF SyncWhole, MI!ReadyIsCurrent
<1>3. MI!LedgerTrue
  <2>1. CASE db.ledger = {}
    <3>1. MI!Known(db) = {} BY <2>1 DEF MI!Known
    <3>2. MI!Cardinality({}) = 0
      <4>1. Cardinality({}) = 0 BY FS_EmptySet
      <4> QED BY <4>1 DEF MI!Cardinality, Cardinality
    <3>3. 1 .. 0 = {} OBVIOUS
    <3>4. db.ran = <<>> /\ (db.shape \in {"foreign", "altered"} => db.effects = was) BY <2>1, <1>1 DEF DatabaseWhole
    <3> QED BY <2>1, <3>1, <3>2, <3>3, <3>4 DEF MI!LedgerTrue
  <2>2. CASE db.ledger # {}
    <3>1. PICK r \in Releases : MI!LedgerFits(db, r) /\ db.effects = MI!All(r) /\ MI!Known(db) = MI!All(r)
      BY <2>2, <1>1 DEF DatabaseWhole
    <3>2. db.shape \notin {"foreign", "altered"} BY <2>2, <1>1 DEF DatabaseWhole
    <3> QED BY <3>1, <3>2 DEF MI!LedgerTrue, MI!LedgerFits
  <2> QED BY <2>1, <2>2
<1>4. MI!RunOnceInOrder
  <2>1. RanRight(db.ran) /\ db.ran \in Seq(Nat) BY <1>1 DEF DatabaseWhole
  <2>2. MI!IsInjective(db.ran) BY <2>1 DEF RanRight, MI!IsInjective
  <2>3. \A k \in DOMAIN db.ran : db.ran[k] \notin was
    <3>1. 0 \notin was BY <1>1, ReleaseSizes DEF DatabaseWhole
    <3> QED BY <3>1, <1>1 DEF DatabaseWhole
  <2> QED BY <2>1, <2>2, <2>3 DEF RanRight, MI!RunOnceInOrder, MI!Converted
<1> QED BY <1>2, <1>3, <1>4

(* Topics.                                                                 *)

\* A filter that is in use: of valid levels, of which only the last may stand for several.
FilterFits(f) ==
  /\ f \in Seq(Level \cup TC!Wildcard) /\ Len(f) \in 1 .. MaxLevels /\ TC!ValidFilter(f)
  /\ \A i \in 1 .. Len(f) : f[i] = "#" => i = Len(f)

\* Two levels go together, neither of which stands for all that follows.
Together(f, g, i) ==
  f[i] # "#" /\ g[i] # "#" /\ (f[i] = "+" \/ g[i] = "+" \/ f[i] = g[i])

\* What is assumed of levels.
LEMMA Levels ==
  /\ Level # {} /\ "+" \notin Level /\ "#" \notin Level /\ Level \cap Malformed = {}
  /\ MaxLevels \in Nat /\ AcceptedTopic \subseteq TC!Topic
  /\ Requested \subseteq TC!FilterLists /\ Earlier \subseteq TC!FilterLists
  /\ \A list \in Earlier : \A i \in DOMAIN list : TC!ValidFilter(list[i])
BY AdministrationAssumption DEF TC!TopicsAssumption, TC!Wildcard

\* A topic is a sequence of levels.
LEMMA TopicIs ==
  ASSUME NEW t
  PROVE  t \in TC!Topic <=> t \in Seq(Level) /\ Len(t) \in 1 .. MaxLevels
<1>1. ASSUME t \in TC!Topic PROVE t \in Seq(Level) /\ Len(t) \in 1 .. MaxLevels
  <2>1. PICK n \in 1 .. MaxLevels : t \in [1 .. n -> Level] BY <1>1 DEF TC!Topic
  <2>2. n \in Nat /\ n = Len(t) /\ t \in Seq(Level) BY <2>1, Levels
  <2> QED BY <2>1, <2>2
<1>2. ASSUME t \in Seq(Level), Len(t) \in 1 .. MaxLevels PROVE t \in TC!Topic
  <2>1. t \in [1 .. Len(t) -> Level] BY <1>2
  <2> QED BY <1>2, <2>1 DEF TC!Topic
<1> QED BY <1>1, <1>2

\* A topic is a filter for itself alone.
LEMMA TopicFits ==
  ASSUME NEW t \in TC!Topic
  PROVE  /\ FilterFits(t) /\ TC!Matches(t, t)
         /\ \A u \in TC!Topic : TC!Matches(t, u) => u = t
<1>1. t \in Seq(Level) /\ Len(t) \in 1 .. MaxLevels /\ \A i \in 1 .. Len(t) : t[i] \in Level BY TopicIs
<1>2. \A i \in 1 .. Len(t) : t[i] \notin TC!Wildcard /\ t[i] \notin Malformed /\ t[i] # "#"
  BY <1>1, Levels DEF TC!Wildcard
<1>3. FilterFits(t)
  <2>1. t # << >> /\ DOMAIN t = 1 .. Len(t) BY <1>1
  <2>2. t \in Seq(Level \cup TC!Wildcard) BY <1>1
  <2> QED BY <1>1, <1>2, <2>1, <2>2 DEF FilterFits, TC!ValidFilter
<1>4. TC!Matches(t, t) BY DEF TC!Matches
<1>5. ASSUME NEW u \in TC!Topic, TC!Matches(t, u) PROVE u = t
  <2>1. u \in Seq(Level) BY TopicIs
  <2>2. t[Len(t)] # "#" BY <1>1, <1>2
  <2>3. Len(u) = Len(t) /\ \A i \in 1 .. Len(t) : u[i] = t[i] BY <1>1, <1>2, <1>5, <2>2 DEF TC!Matches
  <2> QED BY <1>1, <2>1, <2>3
<1> QED BY <1>3, <1>4, <1>5

\* A filter has some levels, of which only the last may stand for all that follows.
LEMMA FilterIs ==
  ASSUME NEW f, FilterFits(f)
  PROVE  \E n \in Nat : /\ n = Len(f) /\ n >= 1 /\ n <= MaxLevels /\ DOMAIN f = 1 .. n
                        /\ \A i \in 1 .. n : f[i] \in Level \cup TC!Wildcard /\ (f[i] = "#" => i = n)
<1>1. f \in Seq(Level \cup TC!Wildcard) /\ Len(f) \in 1 .. MaxLevels BY DEF FilterFits
<1>2. DOMAIN f = 1 .. Len(f) /\ Len(f) \in Nat /\ Len(f) >= 1 /\ Len(f) <= MaxLevels BY <1>1, Levels
<1>3. \A i \in 1 .. Len(f) : f[i] \in Level \cup TC!Wildcard BY <1>1
<1>4. \A i \in 1 .. Len(f) : f[i] = "#" => i = Len(f) BY DEF FilterFits
<1> QED BY <1>2, <1>3, <1>4

\* The first level that decides is one at which all that follows is meant; without one, the ends decide.
LEMMA OverlapIs ==
  ASSUME NEW f, NEW g, FilterFits(f), FilterFits(g)
  PROVE  TC!Overlap(f, g) <=>
           \/ \E i \in 1 .. Len(f) : /\ i <= Len(g) /\ (f[i] = "#" \/ g[i] = "#")
                                     /\ \A j \in 1 .. i - 1 : Together(f, g, j)
           \/ /\ \A i \in 1 .. Len(f) : i <= Len(g) => Together(f, g, i)
              /\ \/ Len(f) = Len(g)
                 \/ Len(f) = Len(g) + 1 /\ f[Len(f)] = "#"
                 \/ Len(g) = Len(f) + 1 /\ g[Len(g)] = "#"
<1> DEFINE both == DOMAIN f \cap DOMAIN g
           Decides(i) == "#" \in {f[i], g[i]} \/ ("+" \notin {f[i], g[i]} /\ f[i] # g[i])
           First(i) == Decides(i) /\ \A j \in 1 .. i - 1 : ~Decides(j)
           longer == IF Len(f) > Len(g) THEN f ELSE g
<1>1. TC!Overlap(f, g) <=>
        IF \E i \in both : Decides(i)
        THEN \E i \in both : First(i) /\ "#" \in {f[i], g[i]}
        ELSE \/ Len(f) = Len(g)
             \/ Len(longer) = Cardinality(both) + 1 /\ longer[Len(longer)] = "#"
  <2>1. TC!Cardinality(both) = Cardinality(both) BY DEF TC!Cardinality, Cardinality
  <2> QED BY <2>1 DEF TC!Overlap
<1>2. PICK m \in Nat : m = Len(f) /\ DOMAIN f = 1 .. m BY FilterIs
<1>3. PICK n \in Nat : n = Len(g) /\ DOMAIN g = 1 .. n BY FilterIs
<1> DEFINE All(i) == i <= n /\ (f[i] = "#" \/ g[i] = "#") /\ \A j \in 1 .. i - 1 : Together(f, g, j)
           Ends == m = n \/ (m = n + 1 /\ f[m] = "#") \/ (n = m + 1 /\ g[n] = "#")
<1>4. \A i : i \in both <=> i \in 1 .. m /\ i <= n BY <1>2, <1>3
<1>5. \A i : ~Decides(i) <=> Together(f, g, i) BY DEF Together
<1>6. both = 1 .. (IF m <= n THEN m ELSE n)
  <2>1. CASE m <= n BY <1>2, <1>3, <2>1
  <2>2. CASE ~(m <= n) BY <1>2, <1>3, <2>2
  <2> QED BY <2>1, <2>2
<1>7. Cardinality(both) = IF m <= n THEN m ELSE n
  <2> HIDE DEF both
  <2>1. \A k \in Nat : Cardinality(1 .. k) = k BY FS_Interval
  <2>2. PICK k \in Nat : k = IF m <= n THEN m ELSE n OBVIOUS
  <2> QED BY <1>6, <2>1, <2>2
<1>8. (Len(longer) = Cardinality(both) + 1 /\ longer[Len(longer)] = "#") <=>
        (m = n + 1 /\ f[m] = "#") \/ (n = m + 1 /\ g[n] = "#")
  <2>1. CASE m > n
    <3>1. longer = f /\ Cardinality(both) = n BY <1>2, <1>3, <1>7, <2>1
    <3> QED BY <1>2, <2>1, <3>1
  <2>2. CASE ~(m > n)
    <3>1. longer = g /\ Cardinality(both) = m BY <1>2, <1>3, <1>7, <2>2
    <3> QED BY <1>3, <2>2, <3>1
  <2> QED BY <2>1, <2>2
<1>9. Len(f) = Len(g) <=> m = n BY <1>2, <1>3
<1>10. TC!Overlap(f, g) <=>
         IF \E i \in both : Decides(i) THEN \E i \in both : First(i) /\ "#" \in {f[i], g[i]} ELSE Ends
  <2> HIDE DEF both, First, Decides, longer
  <2> QED BY <1>1, <1>8, <1>9
<1>11. TC!Overlap(f, g) <=> (\E i \in 1 .. m : All(i)) \/ ((\A i \in 1 .. m : i <= n => Together(f, g, i)) /\ Ends)
  <2> HIDE DEF both, Ends
  <2>1. CASE \E i \in both : Decides(i)
    <3>1. PICK k \in both : Decides(k) BY <2>1
    <3>2. ~(\A i \in 1 .. m : i <= n => Together(f, g, i)) BY <1>4, <1>5, <3>1
    <3>3. \A i \in both : First(i) /\ "#" \in {f[i], g[i]} => i \in 1 .. m /\ All(i) BY <1>4, <1>5
    <3>4. \A i \in 1 .. m : All(i) => i \in both /\ First(i) /\ "#" \in {f[i], g[i]} BY <1>4, <1>5
    <3> HIDE DEF First, All
    <3> QED BY <1>10, <2>1, <3>2, <3>3, <3>4
  <2>2. CASE ~(\E i \in both : Decides(i))
    <3>1. \A i \in 1 .. m : i <= n => Together(f, g, i) BY <1>4, <1>5, <2>2
    <3>2. \A i \in 1 .. m : ~All(i)
      <4> SUFFICES ASSUME NEW i \in 1 .. m, All(i) PROVE FALSE OBVIOUS
      <4>1. Together(f, g, i) BY <3>1
      <4> QED BY <4>1 DEF Together
    <3> HIDE DEF All
    <3> QED BY <1>10, <2>2, <3>1, <3>2
  <2> QED BY <2>1, <2>2
<1> QED BY <1>2, <1>3, <1>11

\* What it is for a filter to take a message.
LEMMA MatchIs ==
  ASSUME NEW f, FilterFits(f), NEW t \in TC!Topic, NEW n \in Nat, n = Len(f), NEW k \in Nat, k = Len(t)
  PROVE  TC!Matches(f, t) <=>
           \/ n = k /\ \A i \in 1 .. n : f[i] = t[i] \/ f[i] \in TC!Wildcard
           \/ f[n] = "#" /\ k >= n - 1 /\ \A i \in 1 .. n - 1 : f[i] = t[i] \/ f[i] = "+"
<1>1. DOMAIN f = 1 .. n BY FilterIs
<1> QED BY <1>1 DEF TC!Matches

\* Two filters that take the same message overlap.
LEMMA SharedOverlaps ==
  ASSUME NEW f, NEW g, FilterFits(f), FilterFits(g), NEW t \in TC!Topic, TC!Matches(f, t), TC!Matches(g, t)
  PROVE  TC!Overlap(f, g)
<1>1. PICK m \in Nat : /\ m = Len(f) /\ m >= 1
                       /\ \A i \in 1 .. m : f[i] \in Level \cup TC!Wildcard /\ (f[i] = "#" => i = m)
  BY FilterIs
<1>2. PICK n \in Nat : /\ n = Len(g) /\ n >= 1
                       /\ \A i \in 1 .. n : g[i] \in Level \cup TC!Wildcard /\ (g[i] = "#" => i = n)
  BY FilterIs
<1>3. PICK k \in Nat : k = Len(t) BY TopicIs
<1>4. \/ m = k /\ \A i \in 1 .. m : f[i] = t[i] \/ f[i] \in TC!Wildcard
      \/ f[m] = "#" /\ k >= m - 1 /\ \A i \in 1 .. m - 1 : f[i] = t[i] \/ f[i] = "+" BY <1>1, <1>3, MatchIs
<1>5. \/ n = k /\ \A i \in 1 .. n : g[i] = t[i] \/ g[i] \in TC!Wildcard
      \/ g[n] = "#" /\ k >= n - 1 /\ \A i \in 1 .. n - 1 : g[i] = t[i] \/ g[i] = "+" BY <1>2, <1>3, MatchIs
<1>6. /\ \A i \in 1 .. m : f[i] # "#" => f[i] = "+" \/ f[i] = t[i]
      /\ f[m] # "#" => k = m
      /\ k >= m - 1 BY <1>1, <1>4 DEF TC!Wildcard
<1>7. /\ \A i \in 1 .. n : g[i] # "#" => g[i] = "+" \/ g[i] = t[i]
      /\ g[n] # "#" => k = n
      /\ k >= n - 1 BY <1>2, <1>5 DEF TC!Wildcard
<1>8. \A i \in 1 .. m : i <= n /\ f[i] # "#" /\ g[i] # "#" => Together(f, g, i) BY <1>6, <1>7 DEF Together
<1>9. CASE \E i \in 1 .. m : i <= n /\ (f[i] = "#" \/ g[i] = "#")
  <2>1. PICK i \in 1 .. m : i <= n /\ (f[i] = "#" \/ g[i] = "#") BY <1>9
  <2>2. ASSUME NEW j \in 1 .. i - 1 PROVE Together(f, g, j)
    <3>1. j \in 1 .. m /\ j \in 1 .. n /\ j # m /\ j # n /\ j <= n BY <2>1
    <3>2. f[j] # "#" /\ g[j] # "#" BY <1>1, <1>2, <3>1
    <3> QED BY <1>8, <3>1, <3>2
  <2> QED BY <1>1, <1>2, <2>1, <2>2, OverlapIs
<1>10. CASE ~\E i \in 1 .. m : i <= n /\ (f[i] = "#" \/ g[i] = "#")
  <2>1. \A i \in 1 .. m : i <= n => Together(f, g, i) BY <1>8, <1>10
  <2>2. m = n \/ (m = n + 1 /\ f[m] = "#") \/ (n = m + 1 /\ g[n] = "#")
    <3>1. n <= m => g[n] # "#"
      <4> HAVE n <= m
      <4>1. n \in 1 .. m /\ n <= n BY <1>2
      <4> QED BY <1>10, <4>1
    <3>2. m <= n => f[m] # "#"
      <4> HAVE m <= n
      <4>1. m \in 1 .. m BY <1>1
      <4> QED BY <1>10, <4>1
    <3>3. /\ (g[n] # "#" => k = n) /\ k >= n - 1
          /\ (f[m] # "#" => k = m) /\ k >= m - 1 BY <1>6, <1>7
    <3>4. CASE m > n
      <4>1. k = n BY <3>1, <3>3, <3>4
      <4>2. m = n + 1 /\ k # m BY <3>3, <3>4, <4>1
      <4> QED BY <3>3, <4>2
    <3>5. CASE m < n
      <4>1. k = m BY <3>2, <3>3, <3>5
      <4>2. n = m + 1 /\ k # n BY <3>3, <3>5, <4>1
      <4> QED BY <3>3, <4>2
    <3> QED BY <3>4, <3>5
  <2> QED BY <1>1, <1>2, <2>1, <2>2, OverlapIs
<1> QED BY <1>9, <1>10

\* A message for one filter, that the other takes because it ends where the other does or stands
\* for all that follows.
LEMMA MergedMatches ==
  ASSUME NEW f, NEW g, FilterFits(f), FilterFits(g),
         \/ \E i \in 1 .. Len(f) : i <= Len(g) /\ f[i] = "#" /\ \A j \in 1 .. i - 1 : Together(f, g, j)
         \/ /\ \A i \in 1 .. Len(f) : i <= Len(g) => Together(f, g, i)
            /\ Len(f) = Len(g) \/ (Len(f) = Len(g) + 1 /\ f[Len(f)] = "#")
  PROVE  \E t \in TC!Topic : TC!Matches(f, t) /\ TC!Matches(g, t)
<1>1. PICK m \in Nat : /\ m = Len(f) /\ m >= 1
                       /\ \A i \in 1 .. m : f[i] \in Level \cup TC!Wildcard /\ (f[i] = "#" => i = m)
  BY FilterIs
<1>2. PICK n \in Nat : /\ n = Len(g) /\ n >= 1 /\ n <= MaxLevels
                       /\ \A i \in 1 .. n : g[i] \in Level \cup TC!Wildcard BY FilterIs
<1>3. \/ \E i \in 1 .. m : i <= n /\ f[i] = "#" /\ \A j \in 1 .. i - 1 : Together(f, g, j)
      \/ /\ \A i \in 1 .. m : i <= n => Together(f, g, i)
         /\ m = n \/ (m = n + 1 /\ f[m] = "#") BY <1>1, <1>2
<1>4. PICK any : any \in Level BY Levels
<1> DEFINE Merged(i) == IF g[i] \notin TC!Wildcard THEN g[i]
                        ELSE IF i <= m /\ f[i] \notin TC!Wildcard THEN f[i] ELSE any
           u == [i \in 1 .. n |-> Merged(i)]
<1>5. \A i \in 1 .. n : Merged(i) \in Level
  <2> SUFFICES ASSUME NEW i \in 1 .. n PROVE Merged(i) \in Level OBVIOUS
  <2>1. g[i] \in Level \cup TC!Wildcard BY <1>2
  <2>2. i <= m => f[i] \in Level \cup TC!Wildcard BY <1>1
  <2> QED BY <1>4, <2>1, <2>2
<1>6. PICK t : /\ t \in [1 .. n -> Level]
               /\ \A i \in 1 .. n : /\ g[i] \notin TC!Wildcard => t[i] = g[i]
                                    /\ g[i] \in TC!Wildcard /\ i <= m /\ f[i] \notin TC!Wildcard => t[i] = f[i]
  <2>1. \A i \in 1 .. n : /\ g[i] \notin TC!Wildcard => Merged(i) = g[i]
                          /\ g[i] \in TC!Wildcard /\ i <= m /\ f[i] \notin TC!Wildcard => Merged(i) = f[i]
    OBVIOUS
  <2> HIDE DEF Merged
  <2>2. u \in [1 .. n -> Level] /\ \A i \in 1 .. n : u[i] = Merged(i) BY <1>5
  <2> HIDE DEF u
  <2> QED BY <2>1, <2>2
<1>7. t \in TC!Topic /\ Len(t) = n
  <2>1. n \in 1 .. MaxLevels BY <1>2, Levels
  <2> QED BY <1>6, <2>1 DEF TC!Topic
<1>8. TC!Matches(g, t)
  <2>1. \A i \in 1 .. n : g[i] = t[i] \/ g[i] \in TC!Wildcard BY <1>6
  <2> QED BY <1>2, <1>7, <2>1, MatchIs
<1>9. ASSUME NEW j \in 1 .. m, j <= n, Together(f, g, j) PROVE f[j] = t[j] \/ f[j] = "+"
  <2>1. j \in 1 .. n BY <1>9
  <2>2. CASE f[j] # "+"
    <3>1. f[j] \notin TC!Wildcard BY <1>9, <2>2 DEF Together, TC!Wildcard
    <3>2. CASE g[j] \in TC!Wildcard BY <1>6, <1>9, <2>1, <3>1, <3>2
    <3>3. CASE g[j] \notin TC!Wildcard
      <4>1. f[j] = g[j] BY <1>9, <2>2, <3>3 DEF Together, TC!Wildcard
      <4> QED BY <1>6, <2>1, <3>3, <4>1
    <3> QED BY <3>2, <3>3
  <2> QED BY <2>2
<1>10. \/ n = m /\ \A i \in 1 .. m : f[i] = t[i] \/ f[i] \in TC!Wildcard
       \/ f[m] = "#" /\ n >= m - 1 /\ \A i \in 1 .. m - 1 : f[i] = t[i] \/ f[i] = "+"
  <2>1. CASE \E i \in 1 .. m : i <= n /\ f[i] = "#" /\ \A j \in 1 .. i - 1 : Together(f, g, j)
    <3>1. PICK i \in 1 .. m : i <= n /\ f[i] = "#" /\ \A j \in 1 .. i - 1 : Together(f, g, j) BY <2>1
    <3>2. i = m /\ n >= m - 1 BY <1>1, <3>1
    <3>3. \A j \in 1 .. m - 1 : j \in 1 .. m /\ j <= n /\ Together(f, g, j) BY <3>1, <3>2
    <3> QED BY <1>9, <3>1, <3>2, <3>3
  <2>2. CASE m = n /\ \A i \in 1 .. m : i <= n => Together(f, g, i)
    <3>1. \A i \in 1 .. m : f[i] = t[i] \/ f[i] = "+" BY <1>9, <2>2
    <3> QED BY <2>2, <3>1 DEF TC!Wildcard
  <2>3. CASE m = n + 1 /\ f[m] = "#" /\ \A i \in 1 .. m : i <= n => Together(f, g, i)
    <3>1. \A i \in 1 .. m - 1 : i \in 1 .. m /\ i <= n BY <2>3
    <3>2. \A i \in 1 .. m - 1 : f[i] = t[i] \/ f[i] = "+" BY <1>9, <2>3, <3>1
    <3> QED BY <2>3, <3>2
  <2> QED BY <1>3, <2>1, <2>2, <2>3
<1>11. TC!Matches(f, t) BY <1>1, <1>7, <1>10, MatchIs
<1> QED BY <1>7, <1>8, <1>11

\* Two filters that overlap take the same message.
LEMMA OverlapShares ==
  ASSUME NEW f, NEW g, FilterFits(f), FilterFits(g), TC!Overlap(f, g)
  PROVE  \E t \in TC!Topic : TC!Matches(f, t) /\ TC!Matches(g, t)
<1>1. \A i : Together(f, g, i) <=> Together(g, f, i) BY DEF Together
<1>2. Len(f) \in Nat /\ Len(g) \in Nat BY DEF FilterFits
<1>3. CASE \E i \in 1 .. Len(f) : /\ i <= Len(g) /\ (f[i] = "#" \/ g[i] = "#")
                                  /\ \A j \in 1 .. i - 1 : Together(f, g, j)
  <2>1. PICK i \in 1 .. Len(f) : /\ i <= Len(g) /\ (f[i] = "#" \/ g[i] = "#")
                                 /\ \A j \in 1 .. i - 1 : Together(f, g, j) BY <1>3
  <2>2. CASE f[i] = "#" BY <2>1, <2>2, MergedMatches
  <2>3. CASE g[i] = "#"
    <3>1. i \in 1 .. Len(g) /\ i <= Len(f) /\ \A j \in 1 .. i - 1 : Together(g, f, j) BY <1>1, <1>2, <2>1
    <3>2. \E t \in TC!Topic : TC!Matches(g, t) /\ TC!Matches(f, t) BY <2>3, <3>1, MergedMatches
    <3> QED BY <3>2
  <2> QED BY <2>1, <2>2, <2>3
<1>4. CASE /\ \A i \in 1 .. Len(f) : i <= Len(g) => Together(f, g, i)
           /\ \/ Len(f) = Len(g)
              \/ Len(f) = Len(g) + 1 /\ f[Len(f)] = "#"
              \/ Len(g) = Len(f) + 1 /\ g[Len(g)] = "#"
  <2>1. CASE Len(f) = Len(g) \/ (Len(f) = Len(g) + 1 /\ f[Len(f)] = "#") BY <1>4, <2>1, MergedMatches
  <2>2. CASE Len(g) = Len(f) + 1 /\ g[Len(g)] = "#"
    <3>1. \A i \in 1 .. Len(g) : i <= Len(f) => Together(g, f, i) BY <1>1, <1>2, <1>4
    <3>2. \E t \in TC!Topic : TC!Matches(g, t) /\ TC!Matches(f, t) BY <2>2, <3>1, MergedMatches
    <3> QED BY <3>2
  <2> QED BY <1>4, <2>1, <2>2
<1> QED BY <1>3, <1>4, OverlapIs

\* What overlaps a topic takes it.
LEMMA OverlapTakes ==
  ASSUME NEW f, FilterFits(f), NEW t \in TC!Topic
  PROVE  TC!Overlap(f, t) <=> TC!Matches(f, t)
<1>1. FilterFits(t) /\ TC!Matches(t, t) /\ \A u \in TC!Topic : TC!Matches(t, u) => u = t BY TopicFits
<1>2. TC!Matches(f, t) => TC!Overlap(f, t) BY <1>1, SharedOverlaps
<1>3. TC!Overlap(f, t) => TC!Matches(f, t)
  <2> SUFFICES ASSUME TC!Overlap(f, t) PROVE TC!Matches(f, t) OBVIOUS
  <2>1. PICK u \in TC!Topic : TC!Matches(f, u) /\ TC!Matches(t, u) BY <1>1, OverlapShares
  <2> QED BY <1>1, <2>1
<1> QED BY <1>2, <1>3

\* Overlapping is mutual.
LEMMA OverlapMutual ==
  ASSUME NEW f, NEW g, FilterFits(f), FilterFits(g), TC!Overlap(f, g)
  PROVE  TC!Overlap(g, f)
<1>1. PICK t \in TC!Topic : TC!Matches(f, t) /\ TC!Matches(g, t) BY OverlapShares
<1> QED BY <1>1, SharedOverlaps

(* Two filters are said to overlap exactly when some topic matches both:   *)
(* the comparison level by level, up to the first that decides, neither    *)
(* misses a common topic nor invents one (mqtt_topic_filters_overlap).     *)
THEOREM OverlapIsExact ==
  ASSUME NEW f, NEW g, FilterFits(f), FilterFits(g)
  PROVE  TC!Overlap(f, g) <=> \E t \in TC!Topic : TC!Matches(f, t) /\ TC!Matches(g, t)
BY OverlapShares, SharedOverlaps

\* A list of filters that are in use.
Held(topics) ==
  \E n \in Nat : /\ topics \in [1 .. n -> Seq(Level \cup TC!Wildcard)]
                 /\ DOMAIN topics = 1 .. n /\ \A i \in 1 .. n : FilterFits(topics[i])

\* What holds of a claim.
ClaimIs(c) ==
  /\ Held(c.topics)
  /\ c.strategy # "earlier" => /\ c.strategy \in TC!Strategy
                               /\ TC!Static(c.topics) /\ TC!KeysApart(c.topics, c.strategy)

\* What is kept of the claims: each is of filters that are in use, no two of which overlap, and what a
\* request was refused for overlaps it.
ClaimsWhole ==
  /\ \A m \in DOMAIN claims : ClaimIs(claims[m])
  /\ \A m, o \in DOMAIN claims : m # o => ~TC!Overlapping(claims[m].topics, claims[o].topics)
  /\ refused # TC!NotRefused => /\ Held(refused.topics) /\ Held(refused.for)
                                /\ TC!Overlapping(refused.topics, refused.for)

\* A valid filter of those that may be asked for fits.
LEMMA ValidFits ==
  ASSUME NEW f \in Seq(Level \cup TC!Wildcard \cup Malformed), Len(f) <= MaxLevels, TC!ValidFilter(f)
  PROVE  FilterFits(f)
<1>1. /\ Len(f) \in Nat /\ DOMAIN f = 1 .. Len(f)
      /\ \A i \in 1 .. Len(f) : f[i] \in Level \cup TC!Wildcard \cup Malformed OBVIOUS
<1>2. f # << >> /\ \A i \in 1 .. Len(f) : f[i] \notin Malformed /\ (f[i] = "#" => i = Len(f))
  BY <1>1 DEF TC!ValidFilter
<1>3. \A i \in 1 .. Len(f) : f[i] \in Level \cup TC!Wildcard BY <1>1, <1>2
<1>4. f \in Seq(Level \cup TC!Wildcard) BY <1>1, <1>3
<1>5. Len(f) # 0
  <2>1. Len(f) = 0 => f = << >> OBVIOUS
  <2> QED BY <1>2, <2>1
<1>6. Len(f) \in 1 .. MaxLevels BY <1>1, <1>5, Levels
<1> QED BY <1>2, <1>4, <1>6 DEF FilterFits

\* What overlaps a list, the list overlaps.
LEMMA OverlappingMutual ==
  ASSUME NEW p, NEW q, Held(p), Held(q), TC!Overlapping(p, q)
  PROVE  TC!Overlapping(q, p)
<1>1. PICK i \in DOMAIN p, j \in DOMAIN q : TC!Overlap(p[i], q[j]) BY DEF TC!Overlapping
<1>2. FilterFits(p[i]) /\ FilterFits(q[j]) BY DEF Held
<1>3. TC!Overlap(q[j], p[i]) BY <1>1, <1>2, OverlapMutual
<1> QED BY <1>3 DEF TC!Overlapping

\* The filters that are asked for.
LEMMA AskedFor ==
  ASSUME NEW list \in TC!FilterLists, NEW topics \in TC!Distinct(list)
  PROVE  \E n \in Nat : /\ DOMAIN topics = 1 .. n /\ topics = [i \in 1 .. n |-> topics[i]]
                        /\ \A i \in 1 .. n : /\ topics[i] \in Seq(Level \cup TC!Wildcard \cup Malformed)
                                             /\ Len(topics[i]) <= MaxLevels
<1> DEFINE Raw == {f \in Seq(Level \cup TC!Wildcard \cup Malformed) : Len(f) <= MaxLevels}
<1>1. list \in Seq(Raw) BY DEF TC!FilterLists
<1>2. PICK n \in 0 .. Len(list) : topics \in [1 .. n -> TC!Range(list)] BY DEF TC!Distinct
<1>3. TC!Range(list) \subseteq Raw
  <2> HIDE DEF Raw
  <2> QED BY <1>1 DEF TC!Range
<1>4. n \in Nat BY <1>1, <1>2
<1>5. \A i \in 1 .. n : topics[i] \in Raw BY <1>2, <1>3
<1> QED BY <1>2, <1>4, <1>5

\* The topics of a monitor that is created are in use.
LEMMA StaticHeld ==
  ASSUME NEW list \in TC!FilterLists, NEW topics \in TC!Distinct(list), TC!Static(topics)
  PROVE  Held(topics)
<1>1. PICK n \in Nat : /\ DOMAIN topics = 1 .. n /\ topics = [i \in 1 .. n |-> topics[i]]
                       /\ \A i \in 1 .. n : /\ topics[i] \in Seq(Level \cup TC!Wildcard \cup Malformed)
                                            /\ Len(topics[i]) <= MaxLevels BY AskedFor
<1>2. \A i \in 1 .. n : TC!ValidFilter(topics[i]) BY <1>1 DEF TC!Static, TC!TelemetryFilter
<1>3. \A i \in 1 .. n : FilterFits(topics[i]) BY <1>1, <1>2, ValidFits
<1>4. topics \in [1 .. n -> Seq(Level \cup TC!Wildcard)]
  <2>1. \A i \in 1 .. n : topics[i] \in Seq(Level \cup TC!Wildcard) BY <1>3 DEF FilterFits
  <2> QED BY <1>1, <2>1
<1> QED BY <1>1, <1>3, <1>4 DEF Held

\* What earlier versions left holds.
LEMMA TopicsStart ==
  ASSUME TC!Init
  PROVE  ClaimsWhole
<1>1. /\ refused = TC!NotRefused
      /\ \A m, o \in DOMAIN claims : m # o => ~TC!Overlapping(claims[m].topics, claims[o].topics)
  BY DEF TC!Init
<1>2. ASSUME NEW m \in DOMAIN claims PROVE ClaimIs(claims[m])
  <2>1. PICK held \in SUBSET Owner : claims \in [held -> {TC!Claim(list, "earlier") : list \in Earlier}]
    BY DEF TC!Init
  <2>2. PICK list \in Earlier : claims[m] = TC!Claim(list, "earlier") BY <1>2, <2>1
  <2>3. claims[m].topics = list /\ claims[m].strategy = "earlier" BY <2>2 DEF TC!Claim
  <2> DEFINE Raw == {f \in Seq(Level \cup TC!Wildcard \cup Malformed) : Len(f) <= MaxLevels}
  <2>4. list \in Seq(Raw) /\ \A i \in DOMAIN list : TC!ValidFilter(list[i]) BY Levels DEF TC!FilterLists
  <2>5. DOMAIN list = 1 .. Len(list) /\ Len(list) \in Nat /\ \A i \in 1 .. Len(list) : list[i] \in Raw
    <3> HIDE DEF Raw
    <3> QED BY <2>4
  <2>6. \A i \in 1 .. Len(list) : FilterFits(list[i]) BY <2>4, <2>5, ValidFits
  <2>7. \A i \in 1 .. Len(list) : list[i] \in Seq(Level \cup TC!Wildcard) BY <2>6 DEF FilterFits
  <2>8. list \in [1 .. Len(list) -> Seq(Level \cup TC!Wildcard)]
    <3> HIDE DEF Raw
    <3> QED BY <2>4, <2>7
  <2>9. Held(list) BY <2>5, <2>6, <2>8 DEF Held
  <2> QED BY <2>3, <2>9 DEF ClaimIs
<1> QED BY <1>1, <1>2 DEF ClaimsWhole

\* A monitor that is created keeps the claims apart, and one that is refused overlaps what it is refused for.
LEMMA CreateKeeps ==
  ASSUME ClaimsWhole, NEW m \in Owner, TC!Create(m)
  PROVE  ClaimsWhole'
<1> DEFINE Made(topics, strategy) ==
        LET rivals == {o \in DOMAIN claims : TC!Overlapping(topics, claims[o].topics)}
        IN  IF /\ TC!Static(topics) /\ TC!KeysApart(topics, strategy)
               /\ TC!Cardinality(DOMAIN claims) < MaxActive /\ rivals = {}
            THEN /\ claims' = [o \in DOMAIN claims \cup {m} |->
                                 IF o = m THEN TC!Claim(topics, strategy) ELSE claims[o]]
                 /\ refused' = TC!NotRefused
            ELSE /\ UNCHANGED claims
                 /\ \/ ~(TC!Static(topics) /\ TC!KeysApart(topics, strategy)) /\ refused' = TC!NotRefused
                    \/ TC!Static(topics) /\ rivals = {} /\ refused' = TC!NotRefused
                    \/ /\ TC!Static(topics)
                       /\ \E o \in rivals : refused' = [topics |-> topics, for |-> claims[o].topics]
<1>0. PICK list \in Requested, strategy \in TC!Strategy :
        \E topics \in TC!Distinct(list) : Made(topics, strategy) BY DEF TC!Create
<1>1. PICK topics \in TC!Distinct(list) : Made(topics, strategy) BY <1>0
<1>2. list \in TC!FilterLists BY Levels
<1> DEFINE rivals == {o \in DOMAIN claims : TC!Overlapping(topics, claims[o].topics)}
<1>3. \/ /\ TC!Static(topics) /\ TC!KeysApart(topics, strategy) /\ rivals = {}
         /\ claims' = [o \in DOMAIN claims \cup {m} |->
                         IF o = m THEN TC!Claim(topics, strategy) ELSE claims[o]]
         /\ refused' = TC!NotRefused
      \/ UNCHANGED claims /\ refused' = TC!NotRefused
      \/ /\ UNCHANGED claims /\ TC!Static(topics)
         /\ \E o \in rivals : refused' = [topics |-> topics, for |-> claims[o].topics] BY <1>1
<1>4. CASE UNCHANGED claims /\ refused' = TC!NotRefused BY <1>4 DEF ClaimsWhole
<1>5. CASE UNCHANGED claims /\ TC!Static(topics) /\ \E o \in rivals : refused' = [topics |-> topics, for |-> claims[o].topics]
  <2>1. PICK o \in DOMAIN claims : /\ TC!Overlapping(topics, claims[o].topics)
                                   /\ refused' = [topics |-> topics, for |-> claims[o].topics] BY <1>5
  <2>2. Held(topics) /\ Held(claims[o].topics) BY <1>2, <1>5, StaticHeld DEF ClaimsWhole, ClaimIs
  <2>3. refused'.topics = topics /\ refused'.for = claims[o].topics BY <2>1
  <2>4. Held(refused'.topics) /\ Held(refused'.for) /\ TC!Overlapping(refused'.topics, refused'.for)
    BY <2>1, <2>2, <2>3
  <2> QED BY <1>5, <2>4 DEF ClaimsWhole
<1>6. CASE /\ TC!Static(topics) /\ TC!KeysApart(topics, strategy) /\ rivals = {}
           /\ claims' = [o \in DOMAIN claims \cup {m} |->
                           IF o = m THEN TC!Claim(topics, strategy) ELSE claims[o]]
           /\ refused' = TC!NotRefused
  <2>1. m \notin DOMAIN claims BY DEF TC!Create
  <2>2. Held(topics) BY <1>2, <1>6, StaticHeld
  <2>3. /\ DOMAIN claims' = DOMAIN claims \cup {m} /\ claims'[m] = TC!Claim(topics, strategy)
        /\ \A o \in DOMAIN claims : claims'[o] = claims[o] BY <1>6, <2>1
  <2>4. claims'[m].topics = topics /\ claims'[m].strategy = strategy BY <2>3 DEF TC!Claim
  <2>5. ClaimIs(claims'[m]) BY <1>6, <2>2, <2>4 DEF ClaimIs
  <2>6. \A o \in DOMAIN claims : ~TC!Overlapping(topics, claims[o].topics) /\ Held(claims[o].topics)
    BY <1>6 DEF ClaimsWhole, ClaimIs
  <2>7. \A o \in DOMAIN claims : ~TC!Overlapping(claims[o].topics, topics) BY <2>2, <2>6, OverlappingMutual
  <2>8. \A o \in DOMAIN claims' : ClaimIs(claims'[o]) BY <2>3, <2>5 DEF ClaimsWhole
  <2>9. \A n, o \in DOMAIN claims' : n # o => ~TC!Overlapping(claims'[n].topics, claims'[o].topics)
    BY <2>3, <2>4, <2>6, <2>7 DEF ClaimsWhole
  <2> QED BY <1>6, <2>8, <2>9 DEF ClaimsWhole
<1> QED BY <1>3, <1>4, <1>5, <1>6

\* A monitor that stops leaves the others' claims.
LEMMA HaltKeeps ==
  ASSUME ClaimsWhole, NEW m \in Owner, TC!Stop(m)
  PROVE  ClaimsWhole'
<1>1. /\ DOMAIN claims' = DOMAIN claims \ {m} /\ refused' = TC!NotRefused
      /\ \A o \in DOMAIN claims \ {m} : claims'[o] = claims[o] BY DEF TC!Stop
<1> QED BY <1>1 DEF ClaimsWhole

\* Each step keeps them.
LEMMA TopicsStep ==
  ASSUME ClaimsWhole, TC!Next \/ UNCHANGED TC!topicVars
  PROVE  ClaimsWhole'
<1>1. CASE TC!Next BY <1>1, CreateKeeps, HaltKeeps DEF TC!Next
<1>2. CASE UNCHANGED TC!topicVars BY <1>2 DEF TC!topicVars, ClaimsWhole
<1> QED BY <1>1, <1>2

\* No message reaches two monitors, and a refused request would have shared one.
LEMMA ApartPromise ==
  ASSUME ClaimsWhole
  PROVE  TC!TopicsApart
<1>1. ASSUME NEW m \in DOMAIN claims, NEW o \in DOMAIN claims, m # o, NEW t \in TC!Topic,
             TC!Reaches(t, claims[m].topics), TC!Reaches(t, claims[o].topics)
      PROVE  FALSE
  <2>1. PICK i \in DOMAIN claims[m].topics : TC!Matches(claims[m].topics[i], t) BY <1>1 DEF TC!Reaches
  <2>2. PICK j \in DOMAIN claims[o].topics : TC!Matches(claims[o].topics[j], t) BY <1>1 DEF TC!Reaches
  <2>3. Held(claims[m].topics) /\ Held(claims[o].topics) BY DEF ClaimsWhole, ClaimIs
  <2>4. FilterFits(claims[m].topics[i]) /\ FilterFits(claims[o].topics[j]) BY <2>3 DEF Held
  <2>5. TC!Overlap(claims[m].topics[i], claims[o].topics[j]) BY <2>1, <2>2, <2>4, SharedOverlaps
  <2>6. TC!Overlapping(claims[m].topics, claims[o].topics) BY <2>5 DEF TC!Overlapping
  <2> QED BY <1>1, <2>6 DEF ClaimsWhole
<1>2. ASSUME refused # TC!NotRefused
      PROVE  \E t \in TC!Topic : TC!Reaches(t, refused.topics) /\ TC!Reaches(t, refused.for)
  <2>1. Held(refused.topics) /\ Held(refused.for) /\ TC!Overlapping(refused.topics, refused.for)
    BY <1>2 DEF ClaimsWhole
  <2>2. PICK i \in DOMAIN refused.topics, j \in DOMAIN refused.for : TC!Overlap(refused.topics[i], refused.for[j])
    BY <2>1 DEF TC!Overlapping
  <2>3. FilterFits(refused.topics[i]) /\ FilterFits(refused.for[j]) BY <2>1 DEF Held
  <2>4. PICK t \in TC!Topic : TC!Matches(refused.topics[i], t) /\ TC!Matches(refused.for[j], t)
    BY <2>2, <2>3, OverlapShares
  <2>5. TC!ValidFilter(refused.topics[i]) /\ TC!ValidFilter(refused.for[j]) BY <2>3 DEF FilterFits
  <2> QED BY <2>4, <2>5 DEF TC!Reaches
<1> QED BY <1>1, <1>2 DEF TC!TopicsApart

\* What a monitor reads of concrete topics is these topics.
LEMMA StaticReads ==
  ASSUME NEW topics, Held(topics), TC!Static(topics)
  PROVE  {t \in TC!Topic : TC!Reaches(t, topics)} = {topics[i] : i \in DOMAIN topics}
<1>1. ASSUME NEW i \in DOMAIN topics PROVE topics[i] \in TC!Topic
  <2>1. FilterFits(topics[i]) /\ TC!Extracts(topics[i]) BY <1>1 DEF Held, TC!Static
  <2>2. PICK n \in Nat : /\ n = Len(topics[i]) /\ n >= 1 /\ n <= MaxLevels /\ DOMAIN topics[i] = 1 .. n
                         /\ \A k \in 1 .. n : topics[i][k] \in Level \cup TC!Wildcard BY <2>1, FilterIs
  <2>3. topics[i][1] = "telemetry" /\ \A k \in 2 .. n : topics[i][k] \notin TC!Wildcard
    BY <2>1, <2>2 DEF TC!Extracts
  <2>4. \A k \in 1 .. n : topics[i][k] \in Level
    <3> SUFFICES ASSUME NEW k \in 1 .. n PROVE topics[i][k] \in Level OBVIOUS
    <3>1. CASE k = 1 BY <2>2, <2>3, <3>1 DEF TC!Wildcard
    <3>2. CASE k # 1
      <4>1. k \in 2 .. n BY <3>2
      <4> QED BY <2>2, <2>3, <4>1
    <3> QED BY <3>1, <3>2
  <2>5. topics[i] \in Seq(Level \cup TC!Wildcard) BY <2>1 DEF FilterFits
  <2>6. topics[i] \in [1 .. n -> Level] BY <2>2, <2>4, <2>5
  <2>7. n \in 1 .. MaxLevels BY <2>2, Levels
  <2> QED BY <2>6, <2>7 DEF TC!Topic
<1>2. ASSUME NEW i \in DOMAIN topics PROVE TC!Reaches(topics[i], topics)
  <2>1. TC!Matches(topics[i], topics[i]) BY <1>1, TopicFits
  <2>2. TC!ValidFilter(topics[i]) BY DEF Held, FilterFits
  <2> QED BY <2>1, <2>2 DEF TC!Reaches
<1>3. ASSUME NEW t \in TC!Topic, TC!Reaches(t, topics) PROVE \E i \in DOMAIN topics : t = topics[i]
  <2>1. PICK i \in DOMAIN topics : TC!Matches(topics[i], t) BY <1>3 DEF TC!Reaches
  <2>2. t = topics[i] BY <1>1, <2>1, TopicFits
  <2> QED BY <2>2
<1> QED BY <1>1, <1>2, <1>3

\* The concrete topics of a monitor are all waited for.
LEMMA StaticRequired ==
  ASSUME NEW topics, Held(topics), TC!Static(topics), NEW strategy
  PROVE  TC!RequiredSensors(topics, strategy) = {TC!SensorKey(topics[i], strategy) : i \in DOMAIN topics}
<1> DEFINE Concrete(f) == TC!TelemetryFilter(f) /\ Len(f) >= 3 /\ TC!Range(TC!Path(f)) \cap TC!Wildcard = {}
<1>1. ASSUME NEW i \in DOMAIN topics PROVE Concrete(topics[i])
  <2>1. FilterFits(topics[i]) /\ TC!TelemetryFilter(topics[i]) /\ TC!Extracts(topics[i])
    BY <1>1 DEF Held, TC!Static
  <2>2. PICK n \in Nat : n = Len(topics[i]) BY <2>1, FilterIs
  <2>3. n >= 3 /\ \A k \in 2 .. n : topics[i][k] \notin TC!Wildcard BY <2>1, <2>2 DEF TC!Extracts
  <2>4. TC!Path(topics[i]) = [k \in 1 .. n - 2 |-> topics[i][k + 2]]
    <3>1. TC!Path(topics[i]) = SubSeq(topics[i], 3, n) BY <2>2 DEF TC!Path
    <3>2. SubSeq(topics[i], 3, n) = [k \in 1 .. (1 + n - 3) |-> topics[i][k + 3 - 1]]
      BY <2>1, <2>2, <2>3 DEF FilterFits
    <3> QED BY <2>3, <3>1, <3>2
  <2>5. \A k \in 1 .. n - 2 : topics[i][k + 2] \notin TC!Wildcard
    <3> TAKE k \in 1 .. n - 2
    <3>1. k + 2 \in 2 .. n BY <2>3
    <3> QED BY <2>3, <3>1
  <2>6. TC!Range(TC!Path(topics[i])) \cap TC!Wildcard = {} BY <2>4, <2>5 DEF TC!Range
  <2> QED BY <2>1, <2>2, <2>3, <2>6
<1>2. TC!RequiredSensors(topics, strategy)
        = {TC!SensorKey(f, strategy) : f \in {f \in TC!Range(topics) : Concrete(f)}}
  BY DEF TC!RequiredSensors
<1> HIDE DEF Concrete
<1>3. {f \in TC!Range(topics) : Concrete(f)} = {topics[i] : i \in DOMAIN topics} BY <1>1 DEF TC!Range
<1> QED BY <1>2, <1>3

\* A message finds one reading of its monitor, and the catalogue shows what reaches it.
LEMMA FoundPromise ==
  ASSUME ClaimsWhole
  PROVE  TC!ReadingsFound
<1> SUFFICES ASSUME NEW m \in DOMAIN claims
             PROVE  LET topics == claims[m].topics
                        strategy == claims[m].strategy
                        got == {t \in TC!Topic : TC!Reaches(t, topics)}
                    IN  /\ TC!WatchedBy(topics) = got \cap AcceptedTopic
                        /\ strategy # "earlier" =>
                             /\ \A t \in got : TC!Extracts(t) /\ TC!Entity(t) = TC!Entity(topics[1])
                             /\ \A t, u \in got : TC!SensorKey(t, strategy) = TC!SensorKey(u, strategy) => t = u
                             /\ {TC!SensorKey(t, strategy) : t \in got} = TC!Range(TC!SensorKeys(topics, strategy))
                             /\ TC!RequiredSensors(topics, strategy) = TC!Range(TC!SensorKeys(topics, strategy))
  BY DEF TC!ReadingsFound
<1> DEFINE topics == claims[m].topics
           strategy == claims[m].strategy
           got == {t \in TC!Topic : TC!Reaches(t, topics)}
<1>1. Held(topics) BY DEF ClaimsWhole, ClaimIs
<1>2. strategy # "earlier" => /\ strategy \in TC!Strategy
                              /\ TC!Static(topics) /\ TC!KeysApart(topics, strategy)
  BY DEF ClaimsWhole, ClaimIs
<1> HIDE DEF topics, strategy
<1>3. TC!WatchedBy(topics) = got \cap AcceptedTopic
  <2>1. \A i \in DOMAIN topics : FilterFits(topics[i]) BY <1>1 DEF Held
  <2>2. \A t \in AcceptedTopic : t \in TC!Topic BY Levels
  <2>3. \A t \in AcceptedTopic, i \in DOMAIN topics : TC!Overlap(topics[i], t) <=> TC!Matches(topics[i], t)
    BY <2>1, <2>2, OverlapTakes
  <2> QED BY <2>2, <2>3 DEF TC!WatchedBy, TC!Reaches
<1>4. ASSUME strategy # "earlier"
      PROVE  /\ \A t \in got : TC!Extracts(t) /\ TC!Entity(t) = TC!Entity(topics[1])
             /\ \A t, u \in got : TC!SensorKey(t, strategy) = TC!SensorKey(u, strategy) => t = u
             /\ {TC!SensorKey(t, strategy) : t \in got} = TC!Range(TC!SensorKeys(topics, strategy))
             /\ TC!RequiredSensors(topics, strategy) = TC!Range(TC!SensorKeys(topics, strategy))
  <2>1. TC!Static(topics) /\ TC!KeysApart(topics, strategy) BY <1>2, <1>4
  <2>2. got = {topics[i] : i \in DOMAIN topics} BY <1>1, <2>1, StaticReads
  <2> HIDE DEF got
  <2>3. TC!Range(TC!SensorKeys(topics, strategy)) = {TC!SensorKey(topics[i], strategy) : i \in DOMAIN topics}
    BY DEF TC!Range, TC!SensorKeys
  <2>4. 1 \in DOMAIN topics
    <3>1. PICK n \in Nat : DOMAIN topics = 1 .. n BY <1>1 DEF Held
    <3>2. \E i \in DOMAIN topics : TRUE
      <4>1. topics # << >> BY <2>1 DEF TC!Static
      <4> QED BY <3>1, <4>1
    <3> QED BY <3>1, <3>2
  <2>5. \A t \in got : TC!Extracts(t) /\ TC!Entity(t) = TC!Entity(topics[1])
    <3> TAKE t \in got
    <3>1. PICK i \in DOMAIN topics : t = topics[i] BY <2>2
    <3>2. TC!Extracts(topics[i]) BY <2>1 DEF TC!Static
    <3>3. TC!Entity(topics[i]) = TC!Entity(topics[1]) BY <2>1, <2>4 DEF TC!Static
    <3> QED BY <3>1, <3>2, <3>3
  <2>6. \A t, u \in got : TC!SensorKey(t, strategy) = TC!SensorKey(u, strategy) => t = u
    BY <2>1, <2>2 DEF TC!KeysApart
  <2>7. {TC!SensorKey(t, strategy) : t \in got} = TC!Range(TC!SensorKeys(topics, strategy)) BY <2>2, <2>3
  <2>8. TC!RequiredSensors(topics, strategy) = TC!Range(TC!SensorKeys(topics, strategy))
    BY <1>1, <2>1, <2>3, StaticRequired
  <2> QED BY <2>5, <2>6, <2>7, <2>8
<1> QED BY <1>3, <1>4 DEF topics, strategy

(* The health of collection.                                               *)

CounterSamples == [at : Nat, received : Nat, invalid : Nat]
Statuses == {"none", "starting", "applying", "prepared", "applied", "error", "connecting"}
Collectors == [alive : BOOLEAN, status : Statuses, revision : Nat, selected : BOOLEAN, linked : BOOLEAN,
               ahead : 0 .. ReportSkew]
StoredReports == [revision : Nat, status : Statuses, at : Int, selected : BOOLEAN, connected : BOOLEAN,
                  received : Int, invalid : Int, elapsed : Int]
StoredRoutes == [revision : Nat, status : Statuses, at : Int, brokers : BOOLEAN]

\* Types of what the verdict is formed from.
HealthTyped ==
  /\ time \in Nat
  /\ lately \in [received : Int, inForce : Int, routed : Int, began : Int] /\ lately.received <= time
  /\ collector \in Collectors
  /\ controller \in [alive : BOOLEAN, routes : Nat, brokers : BOOLEAN]
  /\ collection \in [revision : Nat, selected : BOOLEAN, collector : StoredReports, ingress : StoredRoutes]
  /\ traffic \in [received : Nat, invalid : Nat, samples : Seq(CounterSamples)]

\* CounterSamples of counters: none from the future; what came since a sample came no earlier than it.
EachSample(s, n, now, received, invalid, seen) ==
  \A i \in 1 .. n :
    /\ s[i] \in CounterSamples /\ s[i].at <= now /\ s[i].received <= received /\ s[i].invalid <= invalid
    /\ s[i].received < received \/ s[i].invalid < invalid => seen >= s[i].at
    /\ s[i].received = received => seen <= s[i].at

\* They are apart in time.
SamplesOrdered(s, n) ==
  \A i, j \in 1 .. n : i <= j => s[j].at - s[i].at >= j - i

\* The first was taken when the worker began, or before the time that rates measure.
FirstSample(s, n, now, began) ==
  n > 0 => s[1].at = began \/ s[1].at <= now - RateWindow

SamplesWhole ==
  \E n \in Nat :
    /\ n = Len(traffic.samples) /\ n <= RateWindow + 1
    /\ EachSample(traffic.samples, n, time, traffic.received, traffic.invalid, lately.received)
    /\ SamplesOrdered(traffic.samples, n) /\ FirstSample(traffic.samples, n, time, lately.began)

\* What a report says of the messages.
ReportMeasured(r, reported, seen, began) ==
  /\ r.received >= 0 /\ r.elapsed >= 0
  /\ r.received > 0 \/ r.invalid > 0 => seen >= reported - r.elapsed
  /\ r.received = 0 /\ r.elapsed > 0 /\ began <= reported =>
       \/ seen >= reported
       \/ seen <= reported - (IF reported - began < RateWindow THEN reported - began ELSE RateWindow)

\* What a report says of the revisions.
ReportInForce(r, revision, reported, inForce) ==
  /\ r.revision <= revision
  /\ r.status = "applied" /\ r.connected /\ r.revision = revision => inForce >= reported

ReportWhole ==
  collection.collector.at # CH!Never =>
    /\ collection.collector.at - collector.ahead >= 0 /\ collection.collector.at - collector.ahead <= time
    /\ ReportMeasured(collection.collector, collection.collector.at - collector.ahead,
                      lately.received, lately.began)
    /\ ReportInForce(collection.collector, collection.revision, collection.collector.at - collector.ahead,
                     lately.inForce)

RoutesWhole ==
  collection.ingress.at # CH!Never =>
    /\ collection.ingress.at >= 0 /\ collection.ingress.at <= time
    /\ collection.ingress.revision <= collection.revision
    /\ (/\ collection.ingress.status = "applied" /\ collection.ingress.brokers
        /\ collection.ingress.revision = collection.revision) => lately.routed >= collection.ingress.at

HealthWhole == HealthTyped /\ SamplesWhole /\ ReportWhole /\ RoutesWhole

\* The bounds are numbers.
LEMMA HealthNumbers ==
  /\ ReportAge \in Nat /\ ReportSkew \in Nat /\ RateWindow \in Nat /\ RateWindow >= 1
  /\ RateSamples \in Nat /\ RateSamples >= RateWindow + 2
BY AdministrationAssumption DEF CH!HealthAssumption

\* What stays of the samples is those from the first that has to stay.
LEMMA PrunedIs ==
  ASSUME time \in Nat, NEW p \in Seq(CounterSamples), NEW n \in Nat, n = Len(p), n >= 1
  PROVE  \E from \in 1 .. n :
           /\ CH!Pruned(p) = SubSeq(p, from, n)
           /\ n - from < 2 \/ p[from + 1].at > time - RateWindow
           /\ from = 1 \/ p[from].at <= time - RateWindow
<1> DEFINE Stays(k) == Len(p) - k < 2 \/ p[k + 1].at > time - RateWindow
           Is(k) == Stays(k) /\ \A j \in 1 .. k - 1 : ~Stays(j)
           from == CHOOSE k \in DOMAIN p : Is(k)
           T == {k \in DOMAIN p : Stays(k)}
<1>1. DOMAIN p = 1 .. n /\ \A i \in 1 .. n : p[i].at \in Nat
  <2>1. DOMAIN p = 1 .. n /\ \A i \in 1 .. n : p[i] \in CounterSamples OBVIOUS
  <2> QED BY <2>1 DEF CounterSamples
<1>2. CH!Pruned(p) = SubSeq(p, from, n) BY DEF CH!Pruned
<1>3. n \in T BY <1>1
<1>4. T \subseteq Nat BY <1>1
<1> HIDE DEF Stays
<1>5. PICK x \in T : \A y \in T : x <= y BY <1>3, <1>4, LeastOf
<1>6. x \in 1 .. n /\ Is(x)
  <2>1. x \in 1 .. n /\ Stays(x) BY <1>1
  <2>2. ASSUME NEW j \in 1 .. x - 1 PROVE ~Stays(j)
    <3>1. j \in DOMAIN p /\ j < x BY <1>1, <2>1
    <3>2. j \in T => x <= j BY <1>5
    <3> QED BY <2>1, <3>1, <3>2
  <2> QED BY <2>1, <2>2
<1> HIDE DEF Is, T
<1>7. from \in 1 .. n /\ Is(from) BY <1>1, <1>6
<1> HIDE DEF from
<1>8. Stays(from) /\ \A j \in 1 .. from - 1 : ~Stays(j) BY <1>7 DEF Is
<1>9. n - from < 2 \/ p[from + 1].at > time - RateWindow BY <1>8 DEF Stays
<1>10. from = 1 \/ p[from].at <= time - RateWindow
  <2> SUFFICES ASSUME from # 1 PROVE p[from].at <= time - RateWindow OBVIOUS
  <2>1. PICK j \in Nat : j = from - 1 /\ j >= 1 BY <1>7
  <2>2. ~Stays(j) BY <1>8, <2>1
  <2>3. ~(p[j + 1].at > time - RateWindow) BY <2>2 DEF Stays
  <2>4. j + 1 = from /\ p[from].at \in Nat BY <1>1, <1>7, <2>1
  <2> QED BY <2>3, <2>4, HealthNumbers
<1> QED BY <1>2, <1>7, <1>9, <1>10

\* The samples once one more is taken, before any goes.
LEMMA SampleTaken ==
  ASSUME HealthTyped, SamplesWhole
  PROVE  \E p \in Seq(CounterSamples), n \in Nat :
           /\ CH!Sampled = CH!Pruned(p) /\ n = Len(p) /\ n >= 1
           /\ EachSample(p, n, time, traffic.received, traffic.invalid, lately.received)
           /\ SamplesOrdered(p, n)
           /\ FirstSample(p, n, time, IF traffic.samples = << >> THEN time ELSE lately.began)
<1>1. PICK n \in Nat : /\ n = Len(traffic.samples) /\ n <= RateWindow + 1
                       /\ EachSample(traffic.samples, n, time, traffic.received, traffic.invalid, lately.received)
                       /\ SamplesOrdered(traffic.samples, n) /\ FirstSample(traffic.samples, n, time, lately.began)
  BY DEF SamplesWhole
<1>2. PICK s : s = traffic.samples OBVIOUS
<1>3. /\ time \in Nat /\ s \in Seq(CounterSamples) /\ traffic.received \in Nat /\ traffic.invalid \in Nat
      /\ lately.received \in Int /\ lately.began \in Int /\ lately.received <= time BY <1>2 DEF HealthTyped
<1>4. CASE s = << >> \/ s[Len(s)].at < time
  <2>1. CH!Sampled = CH!Pruned(CH!Kept(Append(s, CH!Sample))) BY <1>2, <1>4 DEF CH!Sampled
  <2>2. PICK x : x = CH!Sample OBVIOUS
  <2>3. x \in CounterSamples /\ x.at = time /\ x.received = traffic.received /\ x.invalid = traffic.invalid
    BY <1>3, <2>2 DEF CH!Sample, CounterSamples
  <2>4. PICK p : p = Append(s, x) OBVIOUS
  <2>5. p \in Seq(CounterSamples) /\ Len(p) = n + 1 /\ p[n + 1] = x /\ \A i \in 1 .. n : p[i] = s[i]
    BY <1>1, <1>2, <1>3, <2>3, <2>4
  <2>6. CH!Kept(p) = p
    <3>1. ~(Len(p) > RateSamples) BY <1>1, <2>5, HealthNumbers
    <3> QED BY <3>1 DEF CH!Kept
  <2>7. EachSample(p, n + 1, time, traffic.received, traffic.invalid, lately.received)
    <3> SUFFICES ASSUME NEW i \in 1 .. n + 1
                 PROVE  /\ p[i] \in CounterSamples /\ p[i].at <= time /\ p[i].received <= traffic.received
                        /\ p[i].invalid <= traffic.invalid
                        /\ (p[i].received < traffic.received \/ p[i].invalid < traffic.invalid
                              => lately.received >= p[i].at)
                        /\ (p[i].received = traffic.received => lately.received <= p[i].at) BY DEF EachSample
    <3>1. CASE i = n + 1
      <4>1. p[i] = x BY <2>5, <3>1
      <4> QED BY <1>3, <2>3, <4>1
    <3>2. CASE i # n + 1
      <4>1. i \in 1 .. n /\ p[i] = s[i] BY <2>5, <3>2
      <4> QED BY <1>1, <1>2, <4>1 DEF EachSample
    <3> QED BY <3>1, <3>2
  <2>8. \A i \in 1 .. n : s[i].at \in Nat /\ s[i].at < time
    <3>1. \A i \in 1 .. n : s[i].at \in Nat BY <1>1, <1>2 DEF EachSample, CounterSamples
    <3>2. CASE n = 0 BY <3>2
    <3>3. CASE n > 0
      <4>1. s[n].at < time
        <5>1. s # << >> BY <1>1, <1>2, <3>3
        <5> QED BY <1>1, <1>2, <1>4, <5>1
      <4>2. \A i \in 1 .. n : s[n].at - s[i].at >= n - i BY <1>1, <1>2 DEF SamplesOrdered
      <4> QED BY <1>3, <3>1, <3>3, <4>1, <4>2
    <3> QED BY <3>2, <3>3
  <2>9. SamplesOrdered(p, n + 1)
    <3> SUFFICES ASSUME NEW i \in 1 .. n + 1, NEW j \in 1 .. n + 1, i <= j
                 PROVE  p[j].at - p[i].at >= j - i BY DEF SamplesOrdered
    <3>1. CASE j # n + 1
      <4>1. i \in 1 .. n /\ j \in 1 .. n BY <3>1
      <4>2. s[j].at - s[i].at >= j - i BY <1>1, <1>2, <4>1 DEF SamplesOrdered
      <4> QED BY <2>5, <4>1, <4>2
    <3>2. CASE j = n + 1 /\ i = n + 1
      <4>1. p[j].at = time /\ p[i].at = time BY <2>3, <2>5, <3>2
      <4> QED BY <1>3, <3>2, <4>1
    <3>3. CASE j = n + 1 /\ i # n + 1
      <4>1. i \in 1 .. n /\ n \in 1 .. n /\ i <= n BY <3>3
      <4>2. s[n].at - s[i].at >= n - i BY <1>1, <1>2, <4>1 DEF SamplesOrdered
      <4>3. p[j].at = time /\ p[i].at = s[i].at BY <2>3, <2>5, <3>3, <4>1
      <4>4. s[n].at \in Nat /\ s[i].at \in Nat /\ s[n].at < time BY <2>8, <4>1
      <4> QED BY <1>3, <3>3, <4>2, <4>3, <4>4
    <3> QED BY <3>1, <3>2, <3>3
  <2>10. FirstSample(p, n + 1, time, IF traffic.samples = << >> THEN time ELSE lately.began)
    <3>1. CASE s = << >>
      <4>1. n = 0 /\ p[1].at = time BY <1>1, <1>2, <2>3, <2>5, <3>1
      <4> QED BY <1>2, <3>1, <4>1 DEF FirstSample
    <3>2. CASE s # << >>
      <4>1. n > 0 /\ 1 \in 1 .. n
        <5>1. n # 0 BY <1>1, <1>2, <1>3, <3>2
        <5> QED BY <5>1
      <4>2. p[1] = s[1] BY <2>5, <4>1
      <4> QED BY <1>1, <1>2, <3>2, <4>1, <4>2 DEF FirstSample
    <3> QED BY <3>1, <3>2
  <2>11. CH!Sampled = CH!Pruned(p) BY <2>1, <2>2, <2>4, <2>6
  <2>12. n + 1 \in Nat /\ n + 1 >= 1 OBVIOUS
  <2> QED BY <2>5, <2>7, <2>9, <2>10, <2>11, <2>12
<1>5. CASE ~(s = << >> \/ s[Len(s)].at < time)
  <2>1. CH!Sampled = CH!Pruned(s) BY <1>2, <1>5 DEF CH!Sampled
  <2>2. n >= 1
    <3>1. n # 0 BY <1>1, <1>2, <1>3, <1>5
    <3> QED BY <3>1
  <2>3. FirstSample(s, n, time, IF traffic.samples = << >> THEN time ELSE lately.began) BY <1>1, <1>2, <1>5
  <2> QED BY <1>1, <1>2, <1>3, <2>1, <2>2, <2>3
<1> QED BY <1>4, <1>5

\* A later part of the samples is like them.
LEMMA SamplesFrom ==
  ASSUME NEW p \in Seq(CounterSamples), NEW n \in Nat, n = Len(p), NEW from \in 1 .. n
  PROVE  /\ SubSeq(p, from, n) \in Seq(CounterSamples) /\ Len(SubSeq(p, from, n)) = n - from + 1
         /\ \A i \in 1 .. n - from + 1 : SubSeq(p, from, n)[i] = p[i + (from - 1)] /\ i + (from - 1) \in from .. n
<1>1. SubSeq(p, from, n) = [i \in 1 .. n - from + 1 |-> p[i + from - 1]] OBVIOUS
<1>2. \A i \in 1 .. n - from + 1 : i + (from - 1) \in from .. n /\ i + from - 1 = i + (from - 1) OBVIOUS
<1>3. n - from + 1 \in Nat OBVIOUS
<1>4. SubSeq(p, from, n) \in Seq(CounterSamples) OBVIOUS
<1> QED BY <1>1, <1>2, <1>3, <1>4

\* The samples once one is taken: few, in order, and the first is of the time that rates measure.
LEMMA SampledIs ==
  ASSUME HealthTyped, SamplesWhole
  PROVE  \E s \in Seq(CounterSamples), n \in Nat :
           /\ CH!Sampled = s /\ n = Len(s) /\ n >= 1 /\ n <= RateWindow + 1
           /\ EachSample(s, n, time, traffic.received, traffic.invalid, lately.received)
           /\ SamplesOrdered(s, n)
           /\ FirstSample(s, n, time, IF traffic.samples = << >> THEN time ELSE lately.began)
<1>1. PICK p \in Seq(CounterSamples), m \in Nat :
           /\ CH!Sampled = CH!Pruned(p) /\ m = Len(p) /\ m >= 1
           /\ EachSample(p, m, time, traffic.received, traffic.invalid, lately.received)
           /\ SamplesOrdered(p, m)
           /\ FirstSample(p, m, time, IF traffic.samples = << >> THEN time ELSE lately.began) BY SampleTaken
<1>2. time \in Nat BY DEF HealthTyped
<1>3. PICK from \in 1 .. m : /\ CH!Pruned(p) = SubSeq(p, from, m)
                             /\ m - from < 2 \/ p[from + 1].at > time - RateWindow
                             /\ from = 1 \/ p[from].at <= time - RateWindow BY <1>1, <1>2, PrunedIs
<1>4. PICK s : s = SubSeq(p, from, m) OBVIOUS
<1>5. PICK n \in Nat : n = m - from + 1 OBVIOUS
<1>6. /\ s \in Seq(CounterSamples) /\ Len(s) = n
      /\ \A i \in 1 .. n : s[i] = p[i + (from - 1)] /\ i + (from - 1) \in from .. m
  BY <1>1, <1>4, <1>5, SamplesFrom
<1>7. \A i \in 1 .. m : p[i].at \in Nat /\ p[i].at <= time BY <1>1 DEF EachSample, CounterSamples
<1>8. n >= 1 /\ n <= RateWindow + 1
  <2>1. n >= 1 BY <1>5
  <2>2. CASE m - from < 2 BY <1>5, <2>2, HealthNumbers
  <2>3. CASE ~(m - from < 2)
    <3>1. from + 1 \in 1 .. m /\ m \in 1 .. m /\ from + 1 <= m BY <2>3
    <3>2. p[m].at - p[from + 1].at >= m - (from + 1) BY <1>1, <3>1 DEF SamplesOrdered
    <3>3. p[from + 1].at > time - RateWindow BY <1>3, <2>3
    <3>4. p[m].at \in Nat /\ p[from + 1].at \in Nat /\ p[m].at <= time BY <1>7, <3>1
    <3> QED BY <1>2, <1>5, <3>2, <3>3, <3>4, HealthNumbers
  <2> QED BY <2>1, <2>2, <2>3
<1>9. EachSample(s, n, time, traffic.received, traffic.invalid, lately.received)
  <2>1. \A i \in 1 .. n : \E j \in 1 .. m : s[i] = p[j]
    <3> TAKE i \in 1 .. n
    <3>1. i + (from - 1) \in 1 .. m BY <1>6
    <3> QED BY <1>6, <3>1
  <2> QED BY <1>1, <2>1 DEF EachSample
<1>10. SamplesOrdered(s, n)
  <2> SUFFICES ASSUME NEW i \in 1 .. n, NEW j \in 1 .. n, i <= j
               PROVE  s[j].at - s[i].at >= j - i BY DEF SamplesOrdered
  <2>1. PICK k \in 1 .. m : k = i + (from - 1) /\ s[i] = p[k] BY <1>6
  <2>2. PICK l \in 1 .. m : l = j + (from - 1) /\ s[j] = p[l] BY <1>6
  <2>3. k <= l /\ l - k = j - i BY <2>1, <2>2
  <2>4. p[l].at - p[k].at >= l - k BY <1>1, <2>3 DEF SamplesOrdered
  <2> QED BY <2>1, <2>2, <2>3, <2>4
<1>11. FirstSample(s, n, time, IF traffic.samples = << >> THEN time ELSE lately.began)
  <2>1. s[1] = p[from]
    <3>1. s[1] = p[1 + (from - 1)] BY <1>6, <1>8
    <3>2. 1 + (from - 1) = from OBVIOUS
    <3> QED BY <3>1, <3>2
  <2>2. CASE from = 1 BY <1>1, <2>1, <2>2 DEF FirstSample
  <2>3. CASE from # 1 BY <1>3, <2>1, <2>3 DEF FirstSample
  <2> QED BY <2>2, <2>3
<1> QED BY <1>1, <1>3, <1>4, <1>6, <1>8, <1>9, <1>10, <1>11

\* A report that the collector stores is true of it, and the samples are kept.
LEMMA ReportsKeep ==
  ASSUME HealthWhole, NEW c, NEW revision, CH!Reports(c, revision),
         c \in Collectors, c.ahead = collector.ahead, c.alive,
         collection.revision = revision => c.revision <= collection.revision
  PROVE  HealthWhole'
<1>1. /\ collector' = c /\ traffic' = [traffic EXCEPT !.samples = CH!Sampled]
      /\ collection' = IF collection.revision = revision
                       THEN [collection EXCEPT !.collector = CH!Report(c)] ELSE collection
      /\ lately' = [CH!Since(c, controller, collection) EXCEPT
                      !.began = IF traffic.samples = << >> THEN time ELSE @]
      /\ time' = time /\ controller' = controller BY DEF CH!Reports
<1>2. PICK s \in Seq(CounterSamples), n \in Nat :
           /\ CH!Sampled = s /\ n = Len(s) /\ n >= 1 /\ n <= RateWindow + 1
           /\ EachSample(s, n, time, traffic.received, traffic.invalid, lately.received)
           /\ SamplesOrdered(s, n)
           /\ FirstSample(s, n, time, IF traffic.samples = << >> THEN time ELSE lately.began)
  BY SampledIs DEF HealthWhole
<1>3. HealthTyped BY DEF HealthWhole
<1>4. /\ traffic'.received = traffic.received /\ traffic'.invalid = traffic.invalid /\ traffic'.samples = s
      /\ traffic' \in [received : Nat, invalid : Nat, samples : Seq(CounterSamples)]
  BY <1>1, <1>2, <1>3 DEF HealthTyped
<1>5. PICK began : began = IF traffic.samples = << >> THEN time ELSE lately.began OBVIOUS
<1>6. /\ lately' \in [received : Int, inForce : Int, routed : Int, began : Int]
      /\ lately'.received = lately.received /\ lately'.began = began
      /\ lately'.inForce = IF CH!InForce(c, collection) THEN time ELSE lately.inForce
      /\ lately'.routed = IF CH!Routed(controller, collection) THEN time ELSE lately.routed
  <2>1. PICK since : since = CH!Since(c, controller, collection) OBVIOUS
  <2>2. /\ since \in [received : Int, inForce : Int, routed : Int, began : Int]
        /\ since.received = lately.received /\ since.began = lately.began
        /\ since.inForce = IF CH!InForce(c, collection) THEN time ELSE lately.inForce
        /\ since.routed = IF CH!Routed(controller, collection) THEN time ELSE lately.routed
    <3>1. lately \in [received : Int, inForce : Int, routed : Int, began : Int] /\ time \in Int
      BY <1>3 DEF HealthTyped
    <3>2. PICK p, q : /\ p = (IF CH!InForce(c, collection) THEN time ELSE lately.inForce)
                      /\ q = (IF CH!Routed(controller, collection) THEN time ELSE lately.routed) OBVIOUS
    <3>3. p \in Int /\ q \in Int BY <3>1, <3>2
    <3>4. since = [lately EXCEPT !.inForce = p, !.routed = q] BY <2>1, <3>1, <3>2 DEF CH!Since
    <3> QED BY <3>1, <3>2, <3>3, <3>4
  <2>3. lately' = [since EXCEPT !.began = began]
    <3>1. lately' = [since EXCEPT !.began = IF traffic.samples = << >> THEN time ELSE since.began]
      BY <1>1, <2>1
    <3> QED BY <1>5, <2>2, <3>1
  <2>4. began \in Int BY <1>3, <1>5 DEF HealthTyped
  <2> QED BY <2>2, <2>3, <2>4
<1>7. /\ time \in Nat /\ lately.received \in Int /\ lately.began \in Int /\ began \in Int
      /\ lately.inForce \in Int /\ lately.routed \in Int /\ lately.received <= time
      /\ traffic.received \in Nat /\ traffic.invalid \in Nat BY <1>3, <1>5 DEF HealthTyped
<1>8. PICK first, at, received, invalid, R, V :
         /\ first = s[1] /\ at = first.at /\ received = first.received /\ invalid = first.invalid
         /\ R = traffic.received /\ V = traffic.invalid OBVIOUS
<1>9. /\ at \in Nat /\ received \in Nat /\ invalid \in Nat /\ R \in Nat /\ V \in Nat
      /\ at <= time /\ received <= R /\ invalid <= V
      /\ (received < R \/ invalid < V => lately.received >= at)
      /\ (received = R => lately.received <= at)
      /\ (at = began \/ at <= time - RateWindow)
  <2>1. 1 \in 1 .. n BY <1>2
  <2>2. /\ first \in CounterSamples /\ at <= time /\ received <= R /\ invalid <= V
        /\ (received < R \/ invalid < V => lately.received >= at)
        /\ (received = R => lately.received <= at) BY <1>2, <1>8, <2>1 DEF EachSample
  <2>3. at \in Nat /\ received \in Nat /\ invalid \in Nat BY <1>8, <2>2 DEF CounterSamples
  <2>4. at = began \/ at <= time - RateWindow BY <1>2, <1>5, <1>8 DEF FirstSample
  <2>5. R \in Nat /\ V \in Nat BY <1>7, <1>8
  <2> QED BY <2>2, <2>3, <2>4, <2>5
<1>10. PICK r : r = CH!Report(c) OBVIOUS
<1>11. /\ r.revision = c.revision /\ r.status = c.status /\ r.at = time + c.ahead /\ r.connected = c.linked
       /\ r.received = R - received /\ r.invalid = V - invalid /\ r.elapsed = time - at
  BY <1>2, <1>8, <1>10 DEF CH!Report
<1>12. c.ahead \in Nat /\ c.revision \in Nat /\ c.status \in Statuses /\ c.linked \in BOOLEAN /\ c.selected \in BOOLEAN
  BY DEF Collectors
<1>13. r \in StoredReports
  <2>1. r = [revision |-> c.revision, status |-> c.status, at |-> time + c.ahead, selected |-> c.selected,
             connected |-> c.linked, received |-> R - received, invalid |-> V - invalid, elapsed |-> time - at]
    BY <1>2, <1>8, <1>10 DEF CH!Report
  <2>2. time + c.ahead \in Int /\ R - received \in Int /\ V - invalid \in Int /\ time - at \in Int
    <3>1. PICK ahead \in Nat : ahead = c.ahead BY <1>12
    <3>2. PICK now \in Nat : now = time BY <1>7
    <3>3. now + ahead \in Int /\ now - at \in Int BY <1>9
    <3> QED BY <1>9, <3>1, <3>2, <3>3
  <2> QED BY <1>12, <2>1, <2>2 DEF StoredReports
<1>14. /\ collection'.revision = collection.revision /\ collection'.ingress = collection.ingress
       /\ collection'.collector = IF collection.revision = revision THEN r ELSE collection.collector
       /\ collection' \in [revision : Nat, selected : BOOLEAN, collector : StoredReports, ingress : StoredRoutes]
  BY <1>1, <1>3, <1>10, <1>13 DEF HealthTyped
<1>15. HealthTyped' BY <1>1, <1>3, <1>4, <1>6, <1>14 DEF HealthTyped
<1>16. SamplesWhole'
  <2>1. FirstSample(s, n, time, began) BY <1>2, <1>5
  <2> QED BY <1>1, <1>2, <1>4, <1>6, <2>1 DEF SamplesWhole
<1>17. ReportWhole'
  <2>1. CASE collection.revision = revision
    <3>1. r.at - c.ahead = time BY <1>7, <1>11, <1>12
    <3>2. ReportMeasured(r, time, lately.received, began)
      <4>1. r.received >= 0 /\ r.elapsed >= 0 BY <1>7, <1>9, <1>11
      <4>2. r.received > 0 \/ r.invalid > 0 => lately.received >= time - r.elapsed
        <5> HAVE r.received > 0 \/ r.invalid > 0
        <5>1. received < R \/ invalid < V BY <1>7, <1>9, <1>11
        <5>2. lately.received >= at BY <1>9, <5>1
        <5>3. time - r.elapsed = at BY <1>7, <1>9, <1>11
        <5> QED BY <5>2, <5>3
      <4>3. r.received = 0 => lately.received <= at
        <5> HAVE r.received = 0
        <5>1. received = R BY <1>7, <1>9, <1>11
        <5> QED BY <1>9, <5>1
      <4>4. r.received = 0 /\ r.elapsed > 0 /\ began <= time =>
              \/ lately.received >= time
              \/ lately.received <= time - (IF time - began < RateWindow THEN time - began ELSE RateWindow)
        <5> HAVE r.received = 0 /\ r.elapsed > 0 /\ began <= time
        <5>1. PICK whole \in Int : whole = IF time - began < RateWindow THEN time - began ELSE RateWindow
          <6>1. PICK now \in Nat : now = time BY <1>7
          <6>2. now - began \in Int BY <1>7
          <6> QED BY <6>1, <6>2, HealthNumbers
        <5>2. at <= time - whole
          <6>1. CASE at = began BY <1>7, <5>1, <6>1, HealthNumbers
          <6>2. CASE at <= time - RateWindow BY <1>7, <1>9, <5>1, <6>2, HealthNumbers
          <6> QED BY <1>9, <6>1, <6>2
        <5>3. lately.received <= time - whole BY <1>7, <1>9, <4>3, <5>1, <5>2
        <5> QED BY <5>1, <5>3
      <4> QED BY <4>1, <4>2, <4>4 DEF ReportMeasured
    <3>3. ReportInForce(r, collection.revision, time, lately'.inForce)
      <4>1. r.revision <= collection.revision BY <1>11, <2>1
      <4>2. r.status = "applied" /\ r.connected /\ r.revision = collection.revision => CH!InForce(c, collection)
        BY <1>11 DEF CH!InForce
      <4>3. CH!InForce(c, collection) => lately'.inForce >= time BY <1>6, <1>7
      <4> QED BY <4>1, <4>2, <4>3 DEF ReportInForce
    <3>4. collection'.collector = r /\ collector'.ahead = c.ahead BY <1>1, <1>14, <2>1
    <3>5. r.at - c.ahead >= 0 /\ r.at - c.ahead <= time BY <1>7, <3>1
    <3> QED BY <1>1, <1>6, <1>14, <3>1, <3>2, <3>3, <3>4, <3>5 DEF ReportWhole
  <2>2. CASE collection.revision # revision
    <3>1. collection'.collector = collection.collector /\ collector'.ahead = collector.ahead
      BY <1>1, <1>14, <2>2
    <3>2. PICK q : q = collection.collector OBVIOUS
    <3>3. SUFFICES ASSUME q.at # CH!Never
                   PROVE  /\ q.at - collector.ahead >= 0 /\ q.at - collector.ahead <= time
                          /\ ReportMeasured(q, q.at - collector.ahead, lately.received, began)
                          /\ ReportInForce(q, collection.revision, q.at - collector.ahead, lately'.inForce)
      BY <1>1, <1>6, <1>14, <3>1, <3>2 DEF ReportWhole, CH!Never
    <3>4. PICK reported : reported = q.at - collector.ahead OBVIOUS
    <3>5. /\ reported \in Int /\ reported >= 0 /\ reported <= time
          /\ ReportMeasured(q, reported, lately.received, lately.began)
          /\ ReportInForce(q, collection.revision, reported, lately.inForce)
      <4>1. q.at \in Int /\ collector.ahead \in Nat BY <1>3, <3>2 DEF HealthTyped, StoredReports, Collectors
      <4>2. reported \in Int BY <3>4, <4>1
      <4> QED BY <3>2, <3>3, <3>4, <4>2 DEF HealthWhole, ReportWhole
    <3>6. ReportMeasured(q, reported, lately.received, began)
      <4>1. CASE traffic.samples = << >>
        <5>1. began = time BY <1>5, <4>1
        <5>2. began <= reported => reported - began = 0 BY <1>7, <3>5, <5>1
        <5>3. \/ lately.received >= reported
              \/ lately.received <= reported - 0 BY <1>7, <3>5
        <5> QED BY <3>5, <5>2, <5>3, HealthNumbers DEF ReportMeasured
      <4>2. CASE traffic.samples # << >>
        <5>1. began = lately.began BY <1>5, <4>2
        <5> QED BY <3>5, <5>1
      <4> QED BY <4>1, <4>2
    <3>7. ReportInForce(q, collection.revision, reported, lately'.inForce)
      BY <1>6, <1>7, <3>5 DEF ReportInForce
    <3> QED BY <3>4, <3>5, <3>6, <3>7
  <2> QED BY <2>1, <2>2
<1>18. RoutesWhole'
  <2>1. collection'.ingress = collection.ingress /\ collection'.revision = collection.revision BY <1>14
  <2>2. lately'.routed = time \/ lately'.routed = lately.routed BY <1>6
  <2>3. collection.ingress.at # CH!Never => collection.ingress.at \in Int /\ collection.ingress.at <= time
    BY <1>3 DEF HealthTyped, HealthWhole, RoutesWhole, StoredRoutes
  <2>4. PICK g : g = collection.ingress OBVIOUS
  <2>5. g.at # CH!Never => /\ g.at \in Int /\ g.at >= 0 /\ g.at <= time /\ g.revision <= collection.revision
                           /\ ((g.status = "applied" /\ g.brokers /\ g.revision = collection.revision)
                                 => lately.routed >= g.at) BY <2>3, <2>4 DEF HealthWhole, RoutesWhole
  <2>6. g.at # CH!Never =>
          ((g.status = "applied" /\ g.brokers /\ g.revision = collection.revision) => lately'.routed >= g.at)
    BY <1>7, <2>2, <2>5
  <2> QED BY <1>1, <2>1, <2>4, <2>5, <2>6 DEF RoutesWhole, CH!Never
<1> QED BY <1>15, <1>16, <1>17, <1>18 DEF HealthWhole

\* When each part last did its work.
LEMMA SinceIs ==
  ASSUME HealthTyped, NEW c, NEW r, NEW since, since = CH!Since(c, r, collection)
  PROVE  /\ since \in [received : Int, inForce : Int, routed : Int, began : Int]
         /\ since.received = lately.received /\ since.began = lately.began
         /\ since.inForce = IF CH!InForce(c, collection) THEN time ELSE lately.inForce
         /\ since.routed = IF CH!Routed(r, collection) THEN time ELSE lately.routed
<1>1. lately \in [received : Int, inForce : Int, routed : Int, began : Int] /\ time \in Int
  BY DEF HealthTyped
<1>2. PICK p, q : /\ p = (IF CH!InForce(c, collection) THEN time ELSE lately.inForce)
                  /\ q = (IF CH!Routed(r, collection) THEN time ELSE lately.routed) OBVIOUS
<1>3. p \in Int /\ q \in Int BY <1>1, <1>2
<1>4. since = [lately EXCEPT !.inForce = p, !.routed = q] BY <1>1, <1>2 DEF CH!Since
<1> QED BY <1>1, <1>2, <1>3, <1>4

\* What was reported stays true while time passes, messages come and parts do their work.
LEMMA ReportsStay ==
  ASSUME HealthWhole, collection' = collection, collector'.ahead = collector.ahead,
         time' \in Nat, time <= time',
         lately' \in [received : Int, inForce : Int, routed : Int, began : Int],
         lately'.began = lately.began, lately'.received = lately.received \/ lately'.received = time',
         lately'.inForce = lately.inForce \/ lately'.inForce = time',
         lately'.routed = lately.routed \/ lately'.routed = time'
  PROVE  ReportWhole' /\ RoutesWhole'
<1>1. /\ time \in Nat /\ lately.received \in Int /\ lately.began \in Int /\ lately.inForce \in Int
      /\ lately.routed \in Int /\ collector.ahead \in Nat
      /\ lately'.received \in Int /\ lately'.inForce \in Int /\ lately'.routed \in Int
  BY DEF HealthWhole, HealthTyped, Collectors
<1>2. ReportWhole'
  <2>1. PICK q : q = collection.collector OBVIOUS
  <2>2. SUFFICES ASSUME q.at # CH!Never
                 PROVE  /\ q.at - collector.ahead >= 0 /\ q.at - collector.ahead <= time'
                        /\ ReportMeasured(q, q.at - collector.ahead, lately'.received, lately.began)
                        /\ ReportInForce(q, collection.revision, q.at - collector.ahead, lately'.inForce)
    BY <2>1 DEF ReportWhole, CH!Never
  <2>3. PICK reported : reported = q.at - collector.ahead OBVIOUS
  <2>4. /\ reported >= 0 /\ reported <= time
        /\ ReportMeasured(q, reported, lately.received, lately.began)
        /\ ReportInForce(q, collection.revision, reported, lately.inForce)
    BY <2>1, <2>2, <2>3 DEF HealthWhole, ReportWhole
  <2>5. reported \in Int /\ q.elapsed \in Int
    <3>1. q.at \in Int /\ q.elapsed \in Int BY <2>1 DEF HealthWhole, HealthTyped, StoredReports, StoredRoutes
    <3> QED BY <1>1, <2>3, <3>1
  <2>6. ReportMeasured(q, reported, lately'.received, lately.began)
    <3>1. CASE lately'.received = lately.received BY <2>4, <3>1
    <3>2. CASE lately'.received = time'
      <4>1. lately'.received >= reported BY <1>1, <2>4, <2>5, <3>2
      <4>2. q.elapsed >= 0 /\ q.received >= 0 BY <2>4 DEF ReportMeasured
      <4>3. lately'.received >= reported - q.elapsed BY <1>1, <2>5, <4>1, <4>2
      <4> QED BY <4>1, <4>2, <4>3 DEF ReportMeasured
    <3> QED BY <3>1, <3>2
  <2>7. ReportInForce(q, collection.revision, reported, lately'.inForce)
    BY <1>1, <2>4, <2>5 DEF ReportInForce
  <2>8. reported <= time' BY <1>1, <2>4, <2>5
  <2> QED BY <2>3, <2>4, <2>6, <2>7, <2>8
<1>3. RoutesWhole'
  <2>1. PICK g : g = collection.ingress OBVIOUS
  <2>2. g.at \in Int BY <2>1 DEF HealthWhole, HealthTyped, StoredReports, StoredRoutes
  <2>3. g.at # CH!Never => /\ g.at >= 0 /\ g.at <= time /\ g.revision <= collection.revision
                           /\ ((g.status = "applied" /\ g.brokers /\ g.revision = collection.revision)
                                 => lately.routed >= g.at) BY <2>1 DEF HealthWhole, RoutesWhole
  <2>4. g.at # CH!Never => g.at <= time' BY <1>1, <2>2, <2>3
  <2>5. g.at # CH!Never /\ (lately.routed >= g.at) => lately'.routed >= g.at BY <1>1, <2>2, <2>3
  <2> QED BY <2>1, <2>3, <2>4, <2>5 DEF RoutesWhole, CH!Never
<1> QED BY <1>2, <1>3

\* CounterSamples stay true while time passes.
LEMMA SamplesStay ==
  ASSUME HealthWhole, traffic' = traffic, time' \in Nat, time <= time',
         lately'.received = lately.received, lately'.began = lately.began
  PROVE  SamplesWhole'
<1>1. PICK n \in Nat : /\ n = Len(traffic.samples) /\ n <= RateWindow + 1
                       /\ EachSample(traffic.samples, n, time, traffic.received, traffic.invalid, lately.received)
                       /\ SamplesOrdered(traffic.samples, n) /\ FirstSample(traffic.samples, n, time, lately.began)
  BY DEF HealthWhole, SamplesWhole
<1>2. time \in Nat BY DEF HealthWhole, HealthTyped
<1>3. PICK s : s = traffic.samples OBVIOUS
<1>4. \A i \in 1 .. n : s[i].at \in Nat /\ s[i].at <= time BY <1>1, <1>3 DEF EachSample, CounterSamples
<1>5. \A i \in 1 .. n : s[i].at <= time' BY <1>2, <1>4
<1>6. EachSample(s, n, time', traffic.received, traffic.invalid, lately.received)
  BY <1>1, <1>3, <1>5 DEF EachSample
<1>7. FirstSample(s, n, time', lately.began)
  <2>1. n > 0 => s[1].at \in Nat /\ (s[1].at = lately.began \/ s[1].at <= time - RateWindow)
    BY <1>1, <1>3, <1>4 DEF FirstSample
  <2>2. n > 0 => s[1].at = lately.began \/ s[1].at <= time' - RateWindow BY <1>2, <2>1, HealthNumbers
  <2> QED BY <2>2 DEF FirstSample
<1> QED BY <1>1, <1>3, <1>6, <1>7 DEF SamplesWhole

\* At first nothing is reported.
LEMMA HealthStarts ==
  ASSUME CH!Init
  PROVE  HealthWhole
<1>1. /\ time = 0
      /\ collection = [revision |-> 0, selected |-> FALSE, collector |-> CH!NoReport, ingress |-> CH!NoRoutes]
      /\ controller = [alive |-> TRUE, routes |-> 0, brokers |-> TRUE]
      /\ traffic = [received |-> 0, invalid |-> 0, samples |-> << >>]
      /\ lately = [received |-> CH!Never, inForce |-> CH!Never, routed |-> CH!Never, began |-> CH!Never]
  BY DEF CH!Init
<1>2. PICK ahead \in 0 .. ReportSkew : collector = [CH!Started EXCEPT !.ahead = ahead] BY DEF CH!Init
<1>3. HealthTyped
  <2>1. collector \in Collectors BY <1>2 DEF CH!Started, Collectors, Statuses
  <2>2. << >> \in Seq(CounterSamples) OBVIOUS
  <2>3. traffic \in [received : Nat, invalid : Nat, samples : Seq(CounterSamples)] BY <1>1, <2>2
  <2>4. CH!NoReport \in StoredReports BY DEF CH!NoReport, CH!Never, StoredReports, Statuses
  <2>5. CH!NoRoutes \in StoredRoutes BY DEF CH!NoRoutes, CH!Never, StoredRoutes, Statuses
  <2>6. lately \in [received : Int, inForce : Int, routed : Int, began : Int] /\ lately.received <= time
    BY <1>1 DEF CH!Never
  <2> QED BY <1>1, <2>1, <2>3, <2>4, <2>5, <2>6 DEF HealthTyped
<1>4. SamplesWhole
  <2>1. 0 \in Nat /\ 0 = Len(traffic.samples) /\ 0 <= RateWindow + 1 BY <1>1, HealthNumbers
  <2> QED BY <2>1 DEF SamplesWhole, EachSample, SamplesOrdered, FirstSample
<1>5. ReportWhole /\ RoutesWhole BY <1>1 DEF ReportWhole, RoutesWhole, CH!NoReport, CH!NoRoutes
<1> QED BY <1>3, <1>4, <1>5 DEF HealthWhole

\* The collector goes on.
LEMMA CollectorKeeps ==
  ASSUME HealthWhole, CH!Begin \/ CH!Prepare \/ CH!Refresh \/ CH!Fail
  PROVE  HealthWhole'
<1>1. collector \in Collectors /\ collection.revision \in Nat /\ collection.selected \in BOOLEAN
  BY DEF HealthWhole, HealthTyped
<1>2. CASE CH!Begin
  <2>1. PICK c : c = [collector EXCEPT !.revision = collection.revision, !.status = "applying",
                                       !.selected = collection.selected] OBVIOUS
  <2>2. CH!Reports(c, collection.revision) /\ collector.alive BY <1>2, <2>1 DEF CH!Begin
  <2>3. c \in Collectors /\ c.ahead = collector.ahead /\ c.alive = collector.alive /\ c.revision = collection.revision
    BY <1>1, <2>1 DEF Collectors, Statuses
  <2>4. CH!Reports(c, collection.revision) BY <2>2
  <2>5. c.alive BY <2>2, <2>3
  <2>6. collection.revision = collection.revision => c.revision <= collection.revision BY <1>1, <2>3
  <2>7. c \in Collectors /\ c.ahead = collector.ahead BY <2>3
  <2> QED BY <2>4, <2>5, <2>6, <2>7, ReportsKeep
<1>3. CASE CH!Prepare
  <2>1. PICK c : c = [collector EXCEPT !.status = "prepared"] OBVIOUS
  <2>2. CH!Reports(c, collector.revision) /\ collector.alive BY <1>3, <2>1 DEF CH!Prepare
  <2>3. c \in Collectors /\ c.ahead = collector.ahead /\ c.alive = collector.alive /\ c.revision = collector.revision
    BY <1>1, <2>1 DEF Collectors, Statuses
  <2>4. CH!Reports(c, collector.revision) BY <2>2
  <2>5. c.alive BY <2>2, <2>3
  <2>6. collection.revision = collector.revision => c.revision <= collection.revision BY <1>1, <2>3
  <2>7. c \in Collectors /\ c.ahead = collector.ahead BY <2>3
  <2> QED BY <2>4, <2>5, <2>6, <2>7, ReportsKeep
<1>4. CASE CH!Refresh
  <2> DEFINE ready == collection.ingress.revision = collection.revision /\ collection.ingress.status = "applied"
  <2>1. PICK status : status = (IF ready \/ ~collection.selected THEN "applied" ELSE collector.status)
    OBVIOUS
  <2>2. status \in Statuses BY <1>1, <2>1 DEF Collectors, Statuses
  <2>3. PICK c : c = [collector EXCEPT !.revision = collection.revision, !.status = status] OBVIOUS
  <2>4. CH!Reports(c, collection.revision) /\ collector.alive BY <1>4, <2>1, <2>3 DEF CH!Refresh
  <2>5. c \in Collectors /\ c.ahead = collector.ahead /\ c.alive = collector.alive /\ c.revision = collection.revision
    BY <1>1, <2>2, <2>3 DEF Collectors, Statuses
  <2>6. CH!Reports(c, collection.revision) BY <2>4
  <2>7. c.alive BY <2>4, <2>5
  <2>8. collection.revision = collection.revision => c.revision <= collection.revision BY <1>1, <2>5
  <2>9. c \in Collectors /\ c.ahead = collector.ahead BY <2>5
  <2> QED BY <2>6, <2>7, <2>8, <2>9, ReportsKeep
<1>5. CASE CH!Fail
  <2>1. PICK c : c = [collector EXCEPT !.status = "error"] OBVIOUS
  <2>2. CH!Reports(c, collector.revision) /\ collector.alive BY <1>5, <2>1 DEF CH!Fail
  <2>3. c \in Collectors /\ c.ahead = collector.ahead /\ c.alive = collector.alive /\ c.revision = collector.revision
    BY <1>1, <2>1 DEF Collectors, Statuses
  <2>4. CH!Reports(c, collector.revision) BY <2>2
  <2>5. c.alive BY <2>2, <2>3
  <2>6. collection.revision = collector.revision => c.revision <= collection.revision BY <1>1, <2>3
  <2>7. c \in Collectors /\ c.ahead = collector.ahead BY <2>3
  <2> QED BY <2>4, <2>5, <2>6, <2>7, ReportsKeep
<1> QED BY <1>2, <1>3, <1>4, <1>5

\* A message comes after every sample that there is.
LEMMA ReceiveKeeps ==
  ASSUME HealthWhole, CH!Receive
  PROVE  HealthWhole'
<1>1. PICK bad \in {0, 1} : traffic' = [traffic EXCEPT !.received = @ + 1, !.invalid = @ + bad]
  BY DEF CH!Receive
<1>2. /\ lately' = [lately EXCEPT !.received = time]
      /\ time' = time /\ collection' = collection /\ collector' = collector /\ controller' = controller
  BY DEF CH!Receive
<1>3. HealthTyped BY DEF HealthWhole
<1>4. PICK R, V : R = traffic.received /\ V = traffic.invalid OBVIOUS
<1>5. R \in Nat /\ V \in Nat /\ time \in Nat /\ lately.received \in Int /\ lately.received <= time
  BY <1>3, <1>4 DEF HealthTyped
<1>6. /\ traffic' \in [received : Nat, invalid : Nat, samples : Seq(CounterSamples)]
      /\ traffic'.received = R + 1 /\ traffic'.invalid = V + bad /\ traffic'.samples = traffic.samples
  <2>1. traffic' = [traffic EXCEPT !.received = R + 1, !.invalid = V + bad] BY <1>1, <1>4
  <2>2. R + 1 \in Nat /\ V + bad \in Nat BY <1>5
  <2> QED BY <1>3, <2>1, <2>2 DEF HealthTyped
<1>7. /\ lately' \in [received : Int, inForce : Int, routed : Int, began : Int]
      /\ lately'.received = time /\ lately'.began = lately.began
      /\ lately'.inForce = lately.inForce /\ lately'.routed = lately.routed BY <1>2, <1>3 DEF HealthTyped
<1>8. HealthTyped' BY <1>2, <1>3, <1>5, <1>6, <1>7 DEF HealthTyped
<1>9. ReportWhole' /\ RoutesWhole' BY <1>2, <1>5, <1>7, ReportsStay
<1>10. SamplesWhole'
  <2>1. PICK n \in Nat : /\ n = Len(traffic.samples) /\ n <= RateWindow + 1
                         /\ EachSample(traffic.samples, n, time, R, V, lately.received)
                         /\ SamplesOrdered(traffic.samples, n) /\ FirstSample(traffic.samples, n, time, lately.began)
    BY <1>4 DEF HealthWhole, SamplesWhole
  <2>2. PICK s : s = traffic.samples OBVIOUS
  <2>3. EachSample(s, n, time, R + 1, V + bad, time)
    <3> SUFFICES ASSUME NEW i \in 1 .. n
                 PROVE  /\ s[i] \in CounterSamples /\ s[i].at <= time /\ s[i].received <= R + 1 /\ s[i].invalid <= V + bad
                        /\ (s[i].received < R + 1 \/ s[i].invalid < V + bad => time >= s[i].at)
                        /\ (s[i].received = R + 1 => time <= s[i].at) BY DEF EachSample
    <3>1. s[i] \in CounterSamples /\ s[i].at <= time /\ s[i].received <= R /\ s[i].invalid <= V
      BY <2>1, <2>2 DEF EachSample
    <3>2. s[i].at \in Nat /\ s[i].received \in Nat /\ s[i].invalid \in Nat BY <3>1 DEF CounterSamples
    <3> QED BY <1>5, <3>1, <3>2
  <2> QED BY <1>2, <1>6, <1>7, <2>1, <2>2, <2>3 DEF SamplesWhole
<1> QED BY <1>8, <1>9, <1>10 DEF HealthWhole

\* Routes that are configured are reported as they are.
LEMMA RouteKeeps ==
  ASSUME HealthWhole, CH!Route
  PROVE  HealthWhole'
<1> DEFINE listens == /\ collection.collector.revision = collection.revision
                      /\ collection.collector.status \in {"prepared", "applied"}
<1>1. PICK routes : routes = (IF listens \/ ~collection.selected THEN collection.revision ELSE controller.routes)
  OBVIOUS
<1>2. PICK r : r = [controller EXCEPT !.routes = routes] OBVIOUS
<1>3. PICK g : g = [revision |-> collection.revision, at |-> time, brokers |-> controller.brokers,
                    status |-> IF routes = collection.revision THEN "applied" ELSE "connecting"] OBVIOUS
<1>4. /\ controller.alive /\ controller' = r /\ collection' = [collection EXCEPT !.ingress = g]
      /\ lately' = CH!Since(collector, r, collection)
      /\ time' = time /\ collector' = collector /\ traffic' = traffic BY <1>1, <1>2, <1>3 DEF CH!Route
<1>5. HealthTyped BY DEF HealthWhole
<1>6. routes \in Nat /\ r \in [alive : BOOLEAN, routes : Nat, brokers : BOOLEAN]
      /\ r.routes = routes /\ r.alive = controller.alive /\ r.brokers = controller.brokers
  BY <1>1, <1>2, <1>5 DEF HealthTyped
<1>7. g \in StoredRoutes BY <1>3, <1>5 DEF HealthTyped, StoredRoutes, Statuses
<1>8. /\ collection'.revision = collection.revision /\ collection'.collector = collection.collector
      /\ collection'.ingress = g
      /\ collection' \in [revision : Nat, selected : BOOLEAN, collector : StoredReports, ingress : StoredRoutes]
  BY <1>4, <1>5, <1>7 DEF HealthTyped
<1>9. /\ lately' \in [received : Int, inForce : Int, routed : Int, began : Int]
      /\ lately'.received = lately.received /\ lately'.began = lately.began
      /\ lately'.inForce = IF CH!InForce(collector, collection) THEN time ELSE lately.inForce
      /\ lately'.routed = IF CH!Routed(r, collection) THEN time ELSE lately.routed
  <2>1. PICK since : since = CH!Since(collector, r, collection) OBVIOUS
  <2>2. /\ since \in [received : Int, inForce : Int, routed : Int, began : Int]
        /\ since.received = lately.received /\ since.began = lately.began
        /\ since.inForce = IF CH!InForce(collector, collection) THEN time ELSE lately.inForce
        /\ since.routed = IF CH!Routed(r, collection) THEN time ELSE lately.routed BY <1>5, <2>1, SinceIs
  <2> QED BY <1>4, <2>1, <2>2
<1>10. time \in Nat /\ lately.received <= time BY <1>5 DEF HealthTyped
<1>11. HealthTyped' BY <1>4, <1>5, <1>6, <1>8, <1>9 DEF HealthTyped
<1>12. SamplesWhole' BY <1>4, <1>9, <1>10, SamplesStay
<1>13. ReportWhole'
  <2>1. lately'.inForce = lately.inForce \/ lately'.inForce = time BY <1>9
  <2>2. PICK q : q = collection.collector OBVIOUS
  <2>3. q.at \in Int /\ collector.ahead \in Nat /\ lately.inForce \in Int
    BY <1>5, <2>2 DEF HealthTyped, StoredReports, Collectors
  <2>4. PICK reported \in Int : reported = q.at - collector.ahead BY <2>3
  <2>5. q.at # CH!Never =>
          /\ reported >= 0 /\ reported <= time /\ ReportMeasured(q, reported, lately.received, lately.began)
          /\ ReportInForce(q, collection.revision, reported, lately.inForce)
    BY <2>2, <2>4 DEF HealthWhole, ReportWhole
  <2>6. q.at # CH!Never => ReportInForce(q, collection.revision, reported, lately'.inForce)
    BY <1>10, <2>1, <2>3, <2>5 DEF ReportInForce
  <2> QED BY <1>4, <1>8, <1>9, <2>2, <2>4, <2>5, <2>6 DEF ReportWhole, CH!Never
<1>14. RoutesWhole'
  <2>1. g.at = time /\ g.revision = collection.revision /\ g.brokers = controller.brokers
        /\ (g.status = "applied" => routes = collection.revision) BY <1>3
  <2>2. g.status = "applied" /\ g.brokers => CH!Routed(r, collection) BY <1>4, <1>6, <2>1 DEF CH!Routed
  <2>3. CH!Routed(r, collection) => lately'.routed = time BY <1>9
  <2>4. collection.revision \in Nat BY <1>5 DEF HealthTyped
  <2>5. g.status = "applied" /\ g.brokers => lately'.routed >= g.at BY <1>10, <2>1, <2>2, <2>3
  <2>6. g.at >= 0 /\ g.at <= time /\ g.revision <= collection.revision BY <1>10, <2>1, <2>4
  <2> QED BY <1>4, <1>8, <2>5, <2>6 DEF RoutesWhole
<1> QED BY <1>11, <1>12, <1>13, <1>14 DEF HealthWhole

\* What is saved is in force nowhere yet.
LEMMA SavedKeeps ==
  ASSUME HealthWhole, CH!SaveCatalogue
  PROVE  HealthWhole'
<1>1. PICK selected \in BOOLEAN :
        collection' = [collection EXCEPT !.revision = @ + 1, !.selected = selected] BY DEF CH!SaveCatalogue
<1>2. /\ lately' = [lately EXCEPT !.inForce = CH!Never, !.routed = CH!Never]
      /\ time' = time /\ collector' = collector /\ controller' = controller /\ traffic' = traffic
  BY DEF CH!SaveCatalogue
<1>3. HealthTyped BY DEF HealthWhole
<1>4. PICK k : k = collection.revision OBVIOUS
<1>5. k \in Nat /\ k + 1 \in Nat /\ time \in Nat BY <1>3, <1>4 DEF HealthTyped
<1>6. /\ collection' \in [revision : Nat, selected : BOOLEAN, collector : StoredReports, ingress : StoredRoutes]
      /\ collection'.revision = k + 1 /\ collection'.collector = collection.collector
      /\ collection'.ingress = collection.ingress
  <2>1. collection' = [collection EXCEPT !.revision = k + 1, !.selected = selected] BY <1>1, <1>4
  <2> QED BY <1>3, <1>5, <2>1 DEF HealthTyped
<1>7. /\ lately' \in [received : Int, inForce : Int, routed : Int, began : Int]
      /\ lately'.received = lately.received /\ lately'.began = lately.began
  <2>1. CH!Never \in Int BY DEF CH!Never
  <2> QED BY <1>2, <1>3, <2>1 DEF HealthTyped
<1>8. HealthTyped' BY <1>2, <1>3, <1>6, <1>7 DEF HealthTyped
<1>9. SamplesWhole' BY <1>2, <1>5, <1>7, SamplesStay
<1>10. ReportWhole'
  <2>1. PICK q : q = collection.collector OBVIOUS
  <2>2. PICK reported : reported = q.at - collector.ahead OBVIOUS
  <2>3. q.at # CH!Never =>
          /\ reported >= 0 /\ reported <= time /\ ReportMeasured(q, reported, lately.received, lately.began)
          /\ q.revision <= k BY <1>4, <2>1, <2>2 DEF HealthWhole, ReportWhole, ReportInForce
  <2>4. q.revision \in Nat BY <1>3, <2>1 DEF HealthTyped, StoredReports
  <2>5. q.at # CH!Never => ReportInForce(q, k + 1, reported, lately'.inForce)
    <3>1. q.revision <= k => q.revision <= k + 1 /\ q.revision # k + 1 BY <1>5, <2>4
    <3> QED BY <2>3, <3>1 DEF ReportInForce
  <2> QED BY <1>2, <1>6, <1>7, <2>1, <2>2, <2>3, <2>5 DEF ReportWhole, CH!Never
<1>11. RoutesWhole'
  <2>1. PICK g : g = collection.ingress OBVIOUS
  <2>2. g.at # CH!Never => g.at >= 0 /\ g.at <= time /\ g.revision <= k
    BY <1>4, <2>1 DEF HealthWhole, RoutesWhole
  <2>3. g.revision \in Nat BY <1>3, <2>1 DEF HealthTyped, StoredRoutes
  <2>4. g.revision <= k => g.revision <= k + 1 /\ g.revision # k + 1 BY <1>5, <2>3
  <2> QED BY <1>2, <1>6, <2>1, <2>2, <2>4 DEF RoutesWhole, CH!Never
<1> QED BY <1>8, <1>9, <1>10, <1>11 DEF HealthWhole

\* A process that ends, or a connection that is lost, takes nothing back.
LEMMA UpsetKeeps ==
  ASSUME HealthWhole, CH!Upset
  PROVE  HealthWhole'
<1>1. /\ time' = time /\ collection' = collection /\ traffic' = traffic /\ lately' = lately
      /\ \/ collector' = collector
         \/ collector' = [collector EXCEPT !.linked = FALSE]
         \/ collector' = [collector EXCEPT !.alive = FALSE]
      /\ \/ controller' = controller
         \/ controller' = [controller EXCEPT !.brokers = FALSE]
         \/ controller' = [controller EXCEPT !.alive = FALSE] BY DEF CH!Upset
<1>2. HealthTyped BY DEF HealthWhole
<1>3. collector' \in Collectors /\ collector'.ahead = collector.ahead
  BY <1>1, <1>2 DEF HealthTyped, Collectors
<1>4. controller' \in [alive : BOOLEAN, routes : Nat, brokers : BOOLEAN] BY <1>1, <1>2 DEF HealthTyped
<1>5. /\ time \in Nat /\ lately \in [received : Int, inForce : Int, routed : Int, began : Int] /\ time <= time'
  BY <1>1, <1>2 DEF HealthTyped
<1>6. HealthTyped' BY <1>1, <1>2, <1>3, <1>4 DEF HealthTyped
<1>7. SamplesWhole' BY <1>1, <1>5, SamplesStay
<1>8. ReportWhole' /\ RoutesWhole' BY <1>1, <1>3, <1>5, ReportsStay
<1> QED BY <1>6, <1>7, <1>8 DEF HealthWhole

\* What is back knows nothing of what it did.
LEMMA RecoverKeeps ==
  ASSUME HealthWhole, CH!Recover
  PROVE  HealthWhole'
<1>1. HealthTyped BY DEF HealthWhole
<1>2. /\ time' = time /\ collection' = collection /\ lately' = CH!Since(collector', controller', collection)
      /\ \/ traffic' = traffic
         \/ traffic' = [received |-> 0, invalid |-> 0, samples |-> << >>]
      /\ \/ collector' = collector
         \/ collector' = [CH!Started EXCEPT !.ahead = collector.ahead]
         \/ collector' = [collector EXCEPT !.linked = TRUE, !.status = "starting"]
      /\ \/ controller' = controller
         \/ controller' = [controller EXCEPT !.brokers = TRUE, !.alive = TRUE,
                                             !.routes = IF controller.alive THEN @ ELSE 0] BY DEF CH!Recover
<1>3. collector' \in Collectors /\ collector'.ahead = collector.ahead
  <2>1. collector \in Collectors BY <1>1 DEF HealthTyped
  <2>2. CASE collector' = [CH!Started EXCEPT !.ahead = collector.ahead]
    BY <2>1, <2>2 DEF CH!Started, Collectors, Statuses
  <2>3. CASE collector' = [collector EXCEPT !.linked = TRUE, !.status = "starting"]
    BY <2>1, <2>3 DEF Collectors, Statuses
  <2> QED BY <1>2, <2>1, <2>2, <2>3
<1>4. controller' \in [alive : BOOLEAN, routes : Nat, brokers : BOOLEAN]
  <2>1. PICK routes : routes = IF controller.alive THEN controller.routes ELSE 0 OBVIOUS
  <2>2. controller' = controller \/ controller' = [controller EXCEPT !.brokers = TRUE, !.alive = TRUE, !.routes = routes]
    BY <1>2, <2>1
  <2>3. routes \in Nat BY <1>1, <2>1 DEF HealthTyped
  <2> QED BY <1>1, <2>2, <2>3 DEF HealthTyped
<1>5. traffic' \in [received : Nat, invalid : Nat, samples : Seq(CounterSamples)]
  <2>1. << >> \in Seq(CounterSamples) /\ traffic \in [received : Nat, invalid : Nat, samples : Seq(CounterSamples)]
    BY <1>1 DEF HealthTyped
  <2>2. CASE traffic' = [received |-> 0, invalid |-> 0, samples |-> << >>] BY <2>1, <2>2
  <2> QED BY <1>2, <2>1, <2>2
<1>6. /\ lately' \in [received : Int, inForce : Int, routed : Int, began : Int]
      /\ lately'.received = lately.received /\ lately'.began = lately.began
      /\ lately'.inForce = lately.inForce \/ lately'.inForce = time
      /\ lately'.routed = lately.routed \/ lately'.routed = time
  <2>1. PICK c, r, since : c = collector' /\ r = controller' /\ since = CH!Since(c, r, collection) OBVIOUS
  <2>2. lately' = since BY <1>2, <2>1
  <2> QED BY <1>1, <2>1, <2>2, SinceIs
<1>7. time \in Nat /\ lately.received <= time /\ time <= time' BY <1>1, <1>2 DEF HealthTyped
<1>8. HealthTyped' BY <1>1, <1>2, <1>3, <1>4, <1>5, <1>6 DEF HealthTyped
<1>9. SamplesWhole'
  <2>1. CASE traffic' = traffic BY <1>2, <1>6, <1>7, <2>1, SamplesStay
  <2>2. CASE traffic' = [received |-> 0, invalid |-> 0, samples |-> << >>]
    <3>1. 0 \in Nat /\ 0 = Len(traffic'.samples) /\ 0 <= RateWindow + 1 BY <2>2, HealthNumbers
    <3> QED BY <3>1 DEF SamplesWhole, EachSample, SamplesOrdered, FirstSample
  <2> QED BY <1>2, <2>1, <2>2
<1>10. ReportWhole' /\ RoutesWhole' BY <1>2, <1>3, <1>6, <1>7, ReportsStay
<1> QED BY <1>8, <1>9, <1>10 DEF HealthWhole

\* Time passes.
LEMMA SecondKeeps ==
  ASSUME HealthWhole, CH!Tick
  PROVE  HealthWhole'
<1>1. /\ time' = time + 1 /\ collection' = collection /\ collector' = collector /\ controller' = controller
      /\ traffic' = traffic
      /\ lately' = [lately EXCEPT !.inForce = IF CH!InForce(collector, collection) THEN time' ELSE @,
                                  !.routed = IF CH!Routed(controller, collection) THEN time' ELSE @]
  BY DEF CH!Tick
<1>2. HealthTyped BY DEF HealthWhole
<1>3. time \in Nat /\ lately \in [received : Int, inForce : Int, routed : Int, began : Int] /\ lately.received <= time
  BY <1>2 DEF HealthTyped
<1>4. time' \in Nat /\ time <= time' /\ time' \in Int /\ lately.received <= time' BY <1>1, <1>3
<1>5. PICK p, q : /\ p = (IF CH!InForce(collector, collection) THEN time' ELSE lately.inForce)
                  /\ q = (IF CH!Routed(controller, collection) THEN time' ELSE lately.routed) OBVIOUS
<1>6. p \in Int /\ q \in Int BY <1>3, <1>4, <1>5
<1>7. lately' = [lately EXCEPT !.inForce = p, !.routed = q] BY <1>1, <1>3, <1>5
<1>8. /\ lately' \in [received : Int, inForce : Int, routed : Int, began : Int]
      /\ lately'.received = lately.received /\ lately'.began = lately.began
      /\ lately'.inForce = lately.inForce \/ lately'.inForce = time'
      /\ lately'.routed = lately.routed \/ lately'.routed = time' BY <1>3, <1>5, <1>6, <1>7
<1>9. HealthTyped' BY <1>1, <1>2, <1>4, <1>8 DEF HealthTyped
<1>10. SamplesWhole' BY <1>1, <1>4, <1>8, SamplesStay
<1>11. ReportWhole' /\ RoutesWhole' BY <1>1, <1>4, <1>8, ReportsStay
<1> QED BY <1>9, <1>10, <1>11 DEF HealthWhole

\* Each step keeps them.
LEMMA HealthStep ==
  ASSUME HealthWhole, CH!Next \/ UNCHANGED CH!healthVars
  PROVE  HealthWhole'
<1>1. CASE CH!Next
  BY <1>1, CollectorKeeps, ReceiveKeeps, RouteKeeps, SavedKeeps, UpsetKeeps, RecoverKeeps, SecondKeeps DEF CH!Next
<1>2. CASE UNCHANGED CH!healthVars
  BY <1>2 DEF CH!healthVars, HealthWhole, HealthTyped, SamplesWhole, ReportWhole, RoutesWhole
<1> QED BY <1>1, <1>2

\* What a verdict on the traffic rests on.
LEMMA VerdictIs ==
  ASSUME CH!Verdict \in {"measuring_traffic", "invalid_payloads", "connected_but_quiet", "collecting"}
  PROVE  /\ CH!Fresh(collection.collector) /\ collection.collector.connected
         /\ collection.collector.status = "applied"
         /\ collection.collector.revision = collection.revision
         /\ CH!Fresh(collection.ingress) /\ CH!RoutesReady(collection.ingress) /\ collection.ingress.brokers
         /\ CH!Verdict = IF collection.collector.elapsed = 0 THEN "measuring_traffic"
                         ELSE IF collection.collector.invalid > 0 THEN "invalid_payloads"
                         ELSE IF collection.collector.received = 0 THEN "connected_but_quiet" ELSE "collecting"
BY DEF CH!Verdict

\* A verdict on the traffic is true of the saved revision, and of the messages.
LEMMA VerdictPromise ==
  ASSUME HealthWhole
  PROVE  CH!VerdictTrue
<1> DEFINE report == collection.collector
           reported == report.at - collector.ahead
           whole == IF reported - lately.began < RateWindow THEN reported - lately.began ELSE RateWindow
           OnTraffic == {"measuring_traffic", "invalid_payloads", "connected_but_quiet", "collecting"}
<1>1. PICK r, at, n : r = report /\ at = report.at /\ n = at - collector.ahead OBVIOUS
<1>2. HealthTyped BY DEF HealthWhole
<1>3. /\ time \in Nat /\ at \in Int /\ n \in Int /\ r.elapsed \in Int /\ r.received \in Int /\ r.invalid \in Int
      /\ collector.ahead \in Nat /\ collector.ahead <= ReportSkew
      /\ lately.inForce \in Int /\ lately.routed \in Int /\ lately.received \in Int /\ lately.began \in Int
  <2>1. /\ time \in Nat /\ r.at \in Int /\ r.elapsed \in Int /\ r.received \in Int /\ r.invalid \in Int
        /\ collector.ahead \in 0 .. ReportSkew
        /\ lately.inForce \in Int /\ lately.routed \in Int /\ lately.received \in Int /\ lately.began \in Int
    BY <1>1, <1>2 DEF HealthTyped, StoredReports, Collectors
  <2> QED BY <1>1, <2>1, HealthNumbers
<1>4. ASSUME CH!Verdict \in OnTraffic
      PROVE  /\ r.at # CH!Never /\ r.connected /\ r.status = "applied" /\ r.revision = collection.revision
             /\ time - at <= ReportAge /\ n >= 0
             /\ ReportMeasured(r, n, lately.received, lately.began) /\ lately.inForce >= n
             /\ CH!Verdict = IF r.elapsed = 0 THEN "measuring_traffic"
                             ELSE IF r.invalid > 0 THEN "invalid_payloads"
                             ELSE IF r.received = 0 THEN "connected_but_quiet" ELSE "collecting"
  <2>1. /\ CH!Fresh(r) /\ r.connected /\ r.status = "applied" /\ r.revision = collection.revision
        /\ CH!Verdict = IF r.elapsed = 0 THEN "measuring_traffic"
                        ELSE IF r.invalid > 0 THEN "invalid_payloads"
                        ELSE IF r.received = 0 THEN "connected_but_quiet" ELSE "collecting"
    BY <1>1, <1>4, VerdictIs
  <2>2. r.at # CH!Never /\ time - at <= ReportAge BY <1>1, <2>1 DEF CH!Fresh
  <2>3. /\ n >= 0 /\ ReportMeasured(r, n, lately.received, lately.began)
        /\ ReportInForce(r, collection.revision, n, lately.inForce)
    BY <1>1, <2>2 DEF HealthWhole, ReportWhole
  <2>4. lately.inForce >= n BY <2>1, <2>3 DEF ReportInForce
  <2> QED BY <2>1, <2>2, <2>3, <2>4
<1>5. ASSUME CH!Verdict \in OnTraffic
      PROVE  /\ lately.inForce # CH!Never /\ time - lately.inForce <= ReportAge + ReportSkew
             /\ lately.routed # CH!Never /\ time - lately.routed <= ReportAge
  <2>1. n >= 0 /\ lately.inForce >= n /\ time - at <= ReportAge BY <1>4, <1>5
  <2>2. PICK ahead \in Nat : ahead = collector.ahead /\ ahead <= ReportSkew /\ n = at - ahead BY <1>1, <1>3
  <2>3. lately.inForce # CH!Never /\ time - lately.inForce <= ReportAge + ReportSkew
    BY <1>3, <2>1, <2>2, HealthNumbers DEF CH!Never
  <2>4. PICK g : g = collection.ingress OBVIOUS
  <2>5. CH!Fresh(g) /\ g.revision = collection.revision /\ g.status = "applied" /\ g.brokers
    BY <1>5, <2>4, VerdictIs DEF CH!RoutesReady
  <2>6. g.at # CH!Never /\ time - g.at <= ReportAge BY <2>5 DEF CH!Fresh
  <2>7. g.at >= 0 /\ lately.routed >= g.at BY <2>4, <2>5, <2>6 DEF HealthWhole, RoutesWhole
  <2>8. g.at \in Int BY <1>2, <2>4 DEF HealthTyped, StoredRoutes
  <2>9. lately.routed # CH!Never /\ time - lately.routed <= ReportAge
    BY <1>3, <2>6, <2>7, <2>8, HealthNumbers DEF CH!Never
  <2> QED BY <2>3, <2>9
<1>6. ASSUME CH!Verdict \in {"collecting", "invalid_payloads"}
      PROVE  lately.received >= n - r.elapsed
  <2>1. /\ ReportMeasured(r, n, lately.received, lately.began)
        /\ CH!Verdict = IF r.elapsed = 0 THEN "measuring_traffic"
                        ELSE IF r.invalid > 0 THEN "invalid_payloads"
                        ELSE IF r.received = 0 THEN "connected_but_quiet" ELSE "collecting" BY <1>4, <1>6
  <2>2. r.invalid > 0 \/ r.received # 0 BY <1>6, <2>1
  <2>3. r.received > 0 \/ r.invalid > 0 BY <1>3, <2>1, <2>2 DEF ReportMeasured
  <2> QED BY <2>1, <2>3 DEF ReportMeasured
<1>7. ASSUME CH!Verdict = "connected_but_quiet", lately.began <= n
      PROVE  ~(n - whole < lately.received /\ lately.received < n)
  <2>1. /\ ReportMeasured(r, n, lately.received, lately.began)
        /\ CH!Verdict = IF r.elapsed = 0 THEN "measuring_traffic"
                        ELSE IF r.invalid > 0 THEN "invalid_payloads"
                        ELSE IF r.received = 0 THEN "connected_but_quiet" ELSE "collecting" BY <1>4, <1>7
  <2>2. r.elapsed # 0 /\ r.received = 0 BY <1>7, <2>1
  <2>3. r.elapsed > 0 BY <1>3, <2>1, <2>2 DEF ReportMeasured
  <2>4. PICK w : w = IF n - lately.began < RateWindow THEN n - lately.began ELSE RateWindow OBVIOUS
  <2>5. w \in Int BY <1>3, <2>4, HealthNumbers
  <2>6. lately.received >= n \/ lately.received <= n - w BY <1>7, <2>1, <2>2, <2>3, <2>4 DEF ReportMeasured
  <2>7. ~(n - w < lately.received /\ lately.received < n) BY <1>3, <2>5, <2>6
  <2> QED BY <1>1, <2>4, <2>7
<1>8. reported = n /\ report = r BY <1>1
<1> HIDE DEF OnTraffic
<1> QED BY <1>1, <1>5, <1>6, <1>7 DEF CH!VerdictTrue, OnTraffic
=============================================================================
