------------------------------- MODULE Accounts -------------------------------
(* Accounts, roles and login sessions (services/auth): records are saved one   *)
(* file at a time before memory takes them over, any save may fail, and the    *)
(* process may die between two of them. A request is authenticated first and   *)
(* carried out later, under the service's lock, beside those of others.        *)
EXTENDS Naturals

CONSTANTS
    Clients,            \* browsers
    Ids, Usernames,     \* of users
    Custom,             \* roles that are not built in
    Starts,             \* what the files may hold when the service is first looked at
    MaxChanges, MaxSessions, MaxFaults

VARIABLES
    disk,       \* the files: system marker, built-in roles, users, custom roles, sessions
    mem,        \* the service: its state, users and custom roles
    client,     \* of each browser: its cookie and the request under way
    acSeen      \* counts; by user, the revocations begun and the last one reported as done;
                \* whether an initialization stopped half way

accVars == <<disk, mem, client, acSeen>>

-----------------------------------------------------------------------------
None == <<>>
NoRequest == [user |-> 0, manages |-> FALSE, must |-> FALSE, view |-> None, roles |-> None]
RoleSets == {{"admin"}, {"member"}} \cup {{r} : r \in Custom}

ActiveAdmin(users) == \E u \in DOMAIN users : users[u].status = "active" /\ "admin" \in users[u].roles

(* validateLocked: what a start demands of the files.                          *)
Valid(d) ==
    /\ d.builtin /\ d.users # None /\ ActiveAdmin(d.users)
    /\ \A u, w \in DOMAIN d.users : d.users[u].name = d.users[w].name => u = w
    /\ \A u \in DOMAIN d.users : d.users[u].status # "deleted" =>
          /\ d.users[u].roles # {}
          /\ d.users[u].roles \subseteq {"admin", "member"} \cup DOMAIN d.roles

Loaded(d) ==
    LET state == IF ~d.system THEN IF d.builtin \/ d.users # None \/ d.roles # None
                                   THEN "recovery" ELSE "uninitialized"
                 ELSE IF Valid(d) THEN "ready" ELSE "recovery"
    IN  [state |-> state, users |-> IF state = "ready" THEN d.users ELSE None,
         roles |-> IF state = "ready" THEN d.roles ELSE None]

NewUser(name, roles, must) ==
    [name |-> name, roles |-> roles, status |-> "active", must |-> must, ver |-> 1]

Empty == [system |-> FALSE, builtin |-> FALSE, users |-> None, roles |-> None, sessions |-> {}]
SetUp(users, roles) ==
    [system |-> TRUE, builtin |-> TRUE, users |-> users, roles |-> roles, sessions |-> {}]

Init ==
    /\ disk \in Starts
    /\ mem = Loaded(disk)
    /\ client = [c \in Clients |-> [cookie |-> 0, req |-> NoRequest]]
    /\ acSeen = [changes |-> 0, tokens |-> 0, faults |-> 0, half |-> FALSE,
                 epoch |-> [u \in Ids |-> 0], done |-> [u \in Ids |-> 0]]

MayFail == acSeen.faults < MaxFaults
Faulty(seen) == [seen EXCEPT !.faults = @ + 1]
MayChange == acSeen.changes < MaxChanges
Changed == [acSeen EXCEPT !.changes = @ + 1]

Session(token, user) == [token |-> token, user |-> user, epoch |-> acSeen.epoch[user]]
Answered(c) == [client EXCEPT ![c].req = NoRequest]
(* Every request of a process that dies is lost; cookies are not.              *)
AllDropped == [c \in Clients |-> [client[c] EXCEPT !.req = NoRequest]]

Fresh(users) == {i \in Ids : i \notin DOMAIN users}
NewId(users) == CHOOSE i \in Fresh(users) : TRUE
With(records, i, r) == [j \in DOMAIN records \cup {i} |-> IF j = i THEN r ELSE records[j]]
NameTaken(name, except) == \E u \in DOMAIN mem.users : u # except /\ mem.users[u].name = name

-----------------------------------------------------------------------------
(* The first administrator: roles, user and marker are saved in this order.    *)
Initialize(c, name) ==
    LET u == NewId(disk.users)
        roles == [disk EXCEPT !.builtin = TRUE]
        user == [roles EXCEPT !.users = With(@, u, NewUser(name, {"admin"}, FALSE))]
        system == [user EXCEPT !.system = TRUE]
        token == acSeen.tokens + 1
        ready == [state |-> "ready", users |-> With(None, u, user.users[u]), roles |-> None]
    IN
    /\ mem.state = "uninitialized" /\ MayChange /\ Fresh(disk.users) # {} /\ token <= MaxSessions
    /\ \/ /\ disk' = [system EXCEPT !.sessions = @ \cup {Session(token, u)}]
          /\ mem' = ready
          /\ client' = [client EXCEPT ![c].cookie = token]
          /\ acSeen' = [Changed EXCEPT !.tokens = token]
       \/ /\ MayFail
          /\ \/ \E d \in {disk, roles, user} : disk' = d /\ mem' \in {mem, Loaded(d)}
             \/ disk' = system /\ mem' \in {ready, Loaded(system)}
          /\ client' = client
          /\ acSeen' = [Faulty(Changed) EXCEPT !.half = @ \/ ~disk'.system]

Login(c, u) ==
    LET token == acSeen.tokens + 1 IN
    /\ mem.state = "ready" /\ client[c] = [cookie |-> 0, req |-> NoRequest]
    /\ u \in DOMAIN mem.users /\ mem.users[u].status = "active" /\ token <= MaxSessions
    /\ disk' = [disk EXCEPT !.sessions = @ \cup {Session(token, u)}]
    /\ client' = [client EXCEPT ![c].cookie = token]
    /\ acSeen' = [acSeen EXCEPT !.tokens = token]
    /\ UNCHANGED mem

Manages(u) ==
    \/ "admin" \in mem.users[u].roles
    \/ \E r \in mem.users[u].roles \cap DOMAIN mem.roles : mem.roles[r].manages

Versions(records) == [i \in DOMAIN records |-> records[i].ver]

(* sessionAuthMiddleware: who asks, and what he may do, are settled here. The  *)
(* versions in the request are those of the lists he has read.                 *)
Authenticate(c) ==
    /\ client[c].req = NoRequest /\ mem.state = "ready"
    /\ \E s \in disk.sessions :
          /\ s.token = client[c].cookie /\ s.user \in DOMAIN mem.users
          /\ mem.users[s.user].status = "active"
          /\ client' = [client EXCEPT ![c].req =
                [user |-> s.user, manages |-> Manages(s.user), must |-> mem.users[s.user].must,
                 view |-> Versions(mem.users), roles |-> Versions(mem.roles)]]
    /\ UNCHANGED <<disk, mem, acSeen>>

Rejected(c) ==
    /\ client[c].req # NoRequest
    /\ client' = Answered(c)
    /\ UNCHANGED <<disk, mem, acSeen>>

-----------------------------------------------------------------------------
Asks(c) == client[c].req # NoRequest /\ MayChange
AsksToManage(c) == Asks(c) /\ client[c].req.manages /\ ~client[c].req.must
Sees(c, u) ==
    /\ u \in DOMAIN mem.users \cap DOMAIN client[c].req.view
    /\ client[c].req.view[u] = mem.users[u].ver

Bumped(user) == [user EXCEPT !.ver = @ + 1]
WithUser(d, u, user) == [d EXCEPT !.users = With(@, u, user)]

(* Mutant: only an administrator who is deleted is looked at.                  *)
AdminStaysIfDeleted(u, user) ==
    user.status = "deleted" => ActiveAdmin(With(mem.users, u, user))
(* hasActiveAdminAfterLocked                                                   *)
AdminStays(u, user) == ActiveAdmin(With(mem.users, u, user))

(* SaveUser, the record in memory, and nothing to revoke.                      *)
Save(c, u, user) ==
    \/ /\ disk' = WithUser(disk, u, user)
       /\ mem' = WithUser(mem, u, user)
       /\ client' = Answered(c)
       /\ acSeen' = Changed
    \/ /\ MayFail
       /\ \/ UNCHANGED <<disk, mem>> /\ client' = Answered(c)
          \/ /\ disk' = WithUser(disk, u, user)
             /\ mem' = Loaded(disk')
             /\ client' = AllDropped
       /\ acSeen' = Faulty(Changed)

Of(u) == {s \in disk.sessions : s.user = u}
(* SaveUser and revokeUserSessionsLocked: a session file may stay, and the     *)
(* process may die after any of these steps.                                   *)
SaveAndRevoke(c, u, user) ==
    LET begun == [Changed EXCEPT !.epoch[u] = @ + 1]
        Left(kept) == [WithUser(disk, u, user) EXCEPT !.sessions = (@ \ Of(u)) \cup kept]
    IN
    \/ /\ disk' = Left({})
       /\ mem' = WithUser(mem, u, user)
       /\ client' = Answered(c)
       /\ acSeen' = [begun EXCEPT !.done[u] = begun.epoch[u]]
    \/ /\ MayFail /\ acSeen' = Faulty(begun)
       /\ \/ UNCHANGED <<disk, mem>> /\ client' = Answered(c)
          \/ \E kept \in SUBSET Of(u) :
                /\ disk' = Left(kept)
                /\ \/ kept # {} /\ mem' = WithUser(mem, u, user) /\ client' = Answered(c)
                   \/ mem' = Loaded(disk') /\ client' = AllDropped

-----------------------------------------------------------------------------
CreateUser(c, name, roles) ==
    /\ AsksToManage(c) /\ Fresh(disk.users) # {} /\ ~NameTaken(name, 0)
    /\ roles \subseteq {"admin", "member"} \cup DOMAIN mem.roles
    /\ Save(c, NewId(disk.users), NewUser(name, roles, TRUE))

(* The status may be any of the three, "deleted" among them.                   *)
UpdateUser(c, u, roles, status) ==
    LET user == Bumped([mem.users[u] EXCEPT !.roles = roles, !.status = status]) IN
    /\ AsksToManage(c) /\ Sees(c, u) /\ mem.users[u].status # "deleted"
    /\ roles \subseteq {"admin", "member"} \cup DOMAIN mem.roles
    /\ AdminStays(u, user)
    /\ IF status # "active" THEN SaveAndRevoke(c, u, user) ELSE Save(c, u, user)

DeleteUser(c, u) ==
    LET user == Bumped([mem.users[u] EXCEPT !.status = "deleted", !.roles = {}]) IN
    /\ AsksToManage(c) /\ Sees(c, u) /\ mem.users[u].status # "deleted"
    /\ AdminStays(u, user)
    /\ SaveAndRevoke(c, u, user)

ResetPassword(c, u) ==
    /\ AsksToManage(c) /\ Sees(c, u) /\ mem.users[u].status # "deleted"
    /\ SaveAndRevoke(c, u, Bumped([mem.users[u] EXCEPT !.must = TRUE]))

(* A user's own record: its version and its status are not looked at.          *)
UpdateProfile(c) ==
    LET u == client[c].req.user IN
    /\ Asks(c) /\ ~client[c].req.must
    /\ Save(c, u, Bumped(mem.users[u]))

(* As ResetPassword, and a new session for the one who asks.                   *)
ChangePassword(c) ==
    LET u == client[c].req.user
        user == Bumped([mem.users[u] EXCEPT !.must = FALSE])
        token == acSeen.tokens + 1
        begun == [Changed EXCEPT !.epoch[u] = @ + 1]
        new == [token |-> token, user |-> u, epoch |-> begun.epoch[u]]
    IN
    /\ Asks(c) /\ token <= MaxSessions
    /\ \/ /\ disk' = [WithUser(disk, u, user) EXCEPT !.sessions = (@ \ Of(u)) \cup {new}]
          /\ mem' = WithUser(mem, u, user)
          /\ client' = [client EXCEPT ![c] = [cookie |-> token, req |-> NoRequest]]
          /\ acSeen' = [begun EXCEPT !.tokens = token, !.done[u] = begun.epoch[u]]
       \/ /\ MayFail /\ acSeen' = Faulty(begun)
          /\ \E kept \in SUBSET Of(u) :
                disk' = [WithUser(disk, u, user) EXCEPT !.sessions = (@ \ Of(u)) \cup kept]
          /\ \/ mem' = WithUser(mem, u, user) /\ client' = Answered(c)
             \/ mem' = Loaded(disk') /\ client' = AllDropped

Logout(c) ==
    /\ client[c].req # NoRequest
    /\ disk' = [disk EXCEPT !.sessions = {s \in @ : s.token # client[c].cookie}]
    /\ client' = [client EXCEPT ![c] = [cookie |-> 0, req |-> NoRequest]]
    /\ UNCHANGED <<mem, acSeen>>

(* A cookie that no longer opens a session is given up.                        *)
LoggedOut(c) ==
    /\ client[c].cookie # 0 /\ client[c].req = NoRequest
    /\ \A s \in disk.sessions : s.token # client[c].cookie
    /\ client' = [client EXCEPT ![c].cookie = 0]
    /\ UNCHANGED <<disk, mem, acSeen>>

-----------------------------------------------------------------------------
WithRole(d, r, role) == [d EXCEPT !.roles = With(@, r, role)]
WithoutRole(d, r) == [d EXCEPT !.roles = [x \in DOMAIN @ \ {r} |-> @[x]]]

SaveRole(c, d, m) ==
    \/ disk' = d /\ mem' = m /\ client' = Answered(c) /\ acSeen' = Changed
    \/ /\ MayFail /\ acSeen' = Faulty(Changed)
       /\ \/ UNCHANGED <<disk, mem>> /\ client' = Answered(c)
          \/ disk' = d /\ mem' = Loaded(d) /\ client' = AllDropped

CreateRole(c, r, manages) ==
    LET role == [manages |-> manages, ver |-> 1] IN
    /\ AsksToManage(c) /\ r \notin DOMAIN mem.roles
    /\ SaveRole(c, WithRole(disk, r, role), WithRole(mem, r, role))

SeesRole(c, r) ==
    /\ r \in DOMAIN mem.roles \cap DOMAIN client[c].req.roles
    /\ client[c].req.roles[r] = mem.roles[r].ver

UpdateRole(c, r, manages) ==
    LET role == Bumped([mem.roles[r] EXCEPT !.manages = manages]) IN
    /\ AsksToManage(c) /\ SeesRole(c, r)
    /\ SaveRole(c, WithRole(disk, r, role), WithRole(mem, r, role))

(* A role that a user has cannot go, be he deleted or not.                     *)
DeleteRole(c, r) ==
    /\ AsksToManage(c) /\ SeesRole(c, r)
    /\ \A u \in DOMAIN mem.users : r \notin mem.users[u].roles
    /\ SaveRole(c, WithoutRole(disk, r), WithoutRole(mem, r))

Restart ==
    /\ MayFail
    /\ mem' = Loaded(disk)
    /\ client' = AllDropped
    /\ acSeen' = Faulty(acSeen)
    /\ UNCHANGED disk

Next ==
    \/ Restart
    \/ \E c \in Clients :
          \/ Authenticate(c) \/ Rejected(c) \/ UpdateProfile(c) \/ ChangePassword(c)
          \/ Logout(c) \/ LoggedOut(c)
          \/ \E name \in Usernames : Initialize(c, name)
          \/ \E name \in Usernames, roles \in RoleSets : CreateUser(c, name, roles)
          \/ \E u \in DOMAIN mem.users :
                \/ Login(c, u) \/ DeleteUser(c, u) \/ ResetPassword(c, u)
                \/ \E roles \in RoleSets : UpdateUser(c, u, roles, mem.users[u].status)
                \/ \E status \in {"active", "disabled", "deleted"} :
                      UpdateUser(c, u, mem.users[u].roles, status)
          \/ \E r \in Custom :
                \/ DeleteRole(c, r)
                \/ \E manages \in BOOLEAN : CreateRole(c, r, manages) \/ UpdateRole(c, r, manages)

Spec == Init /\ [][Next]_accVars

-----------------------------------------------------------------------------
(* Whatever administrators do to each other at once, one of them stays active. *)
AdminRemains == mem.state = "ready" => ActiveAdmin(mem.users)

(* Memory is what a start would load at any moment, so that none ends in       *)
(* recovery: unless an initialization had stopped half way.                    *)
Restartable == mem.state # "uninitialized" /\ ~acSeen.half => Loaded(disk) = mem
AlwaysRestartable == mem.state = "ready" => Loaded(disk).state = "ready"

(* When a reset, a change, a disabling or a deletion has been reported as      *)
(* done, no session from before it is left.                                    *)
RevokedStaysOut == \A s \in disk.sessions : s.epoch >= acSeen.done[s.user]

(* A deleted user has given up his roles, so that he blocks no role's removal. *)
DeletedIsBare ==
    \A u \in DOMAIN mem.users : mem.users[u].status = "deleted" => mem.users[u].roles = {}
(* Who acts on others may do so at the moment he does.                         *)
DeletedIsFinal ==
    [][\A u \in DOMAIN mem.users : mem.users[u].status = "deleted" /\ mem'.state = "ready" =>
          mem'.users[u] = mem.users[u]]_accVars

AccountsKept == AdminRemains /\ Restartable /\ RevokedStaysOut
=============================================================================
