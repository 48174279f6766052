---------------------------- MODULE LocalUsers ----------------------------
(***************************************************************************)
(* Local accounts: the operations of an administrator on the LocalUsers    *)
(* table and the built-in administrator restored when the application      *)
(* starts (DbLocalUserService, UsersController,                            *)
(* PlatformInitializationService).                                         *)
(*                                                                         *)
(* Every operation runs a few statements on a context of its own, without  *)
(* a transaction around them; DatabaseOperationRunner runs it again from   *)
(* its first statement when one fails transiently.                         *)
(***************************************************************************)
EXTENDS RowStore, FiniteSets

CONSTANTS
    Users,              \* ids of the rows of LocalUsers
    Handlers,           \* web requests in flight at one time
    NoUser,             \* the user of a handler that has selected none
    Names,              \* normalized user names
    NoName,             \* the name of an absent row; an empty AdminAuth:Username
    ConfiguredNames,    \* values AdminAuth:Username may have at a start
    RoleChoices,        \* the roles a form may select
    Passwords,          \* password hashes
    ConfiguredPassword, \* AdminAuth:PasswordHash
    MaxAttempts,        \* DatabaseResilienceOptions.MaxAttempts
    Overlap             \* FALSE: operations never overlap

ASSUME UsersAssumption == IsFiniteSet(Users) /\ NoUser \notin Users
ASSUME NamesAssumption ==
    NoName \notin Names /\ ConfiguredNames \subseteq Names \cup {NoName}
ASSUME PasswordsAssumption == ConfiguredPassword \in Passwords
ASSUME AttemptsAssumption == MaxAttempts \in Nat \ {0}
ASSUME OverlapAssumption == Overlap \in BOOLEAN

VARIABLES
    row,        \* row[u]: the LocalUsers row with id u, or NoRow
    task,       \* task[h]: the locals of the operation h runs
    server,     \* "starting" until the built-in administrator is ensured
    configured  \* AdminAuth:Username of the running process

vars == <<row, task, server, configured>>

-----------------------------------------------------------------------------
(* Rows.  Roles is one column.                                             *)

Roles == {"Admin", "User", "Auditor"}

ASSUME RolesAssumption == RoleChoices \subseteq SUBSET Roles

(* An administrator is a user too.                                         *)
NormalizeRoles(roles) == roles \cup (IF "Admin" \in roles THEN {"User"} ELSE {})

Row == [name: Names \cup {NoName}, password: Passwords, roles: SUBSET Roles,
        disabled: BOOLEAN, seeded: BOOLEAN]

NoRow == [name |-> NoName, password |-> ConfiguredPassword, roles |-> {},
          disabled |-> FALSE, seeded |-> FALSE]

BuiltIn(name) ==
    [name |-> name, password |-> ConfiguredPassword, roles |-> {"Admin", "User"},
     disabled |-> FALSE, seeded |-> TRUE]

EnabledAdmin(r) == "Admin" \in r.roles /\ ~r.disabled

EnabledAdmins == {u \in Users : EnabledAdmin(row[u])}

(* Another row than that of u has the name.                                *)
Taken(name, u) == \E v \in Users \ {u} : row[v].name = name

-----------------------------------------------------------------------------
(* Operations.  form holds what the request or the configuration asks for, *)
(* and admins the enabled administrators counted, 0 before that.           *)

Steps == {"idle", "selecting", "checking", "counting", "saving"}
Ops == {"none", "create", "update", "delete", "reset", "ensure"}

Task == [step: Steps, op: Ops, user: Users \cup {NoUser}, form: Row,
         selected: Row, admins: Nat, tries: Nat]

Idle == [step |-> "idle", op |-> "none", user |-> NoUser, form |-> NoRow,
         selected |-> NoRow, admins |-> 0, tries |-> 0]

At(h, step) == task[h].step = step

Doing(h, step, op) == At(h, step) /\ task[h].op = op

Set(h, t) == task' = [task EXCEPT ![h] = t]

GoTo(h, step) == Set(h, [task[h] EXCEPT !.step = step])

FirstStep(op) == IF op = "create" THEN "checking" ELSE "selecting"

Free(u) == \A h \in Handlers : task[h].user # u

(* The process serves requests once the built-in administrator is ensured. *)
Complete(h) ==
    /\ Set(h, Idle)
    /\ server' = IF task[h].op = "ensure" THEN "serving" ELSE server

Begin(h, op, u, form) ==
    /\ At(h, "idle")
    /\ Overlap \/ \A g \in Handlers : At(g, "idle")
    /\ Set(h, [step |-> FirstStep(op), op |-> op, user |-> u, form |-> form,
               selected |-> NoRow, admins |-> 0, tries |-> 1])
    /\ UNCHANGED <<row, server, configured>>

(* The forms that pass: a name, a password and at least one role.          *)
Forms ==
    [name: Names, password: Passwords,
     roles: {NormalizeRoles(c) : c \in RoleChoices \ {{}}},
     disabled: BOOLEAN, seeded: {FALSE}]

(* The form of an edit has no password; the one given here is not read.    *)
Edits == {f \in Forms : f.password = ConfiguredPassword}

CreateUser(h) ==
    /\ server = "serving"
    /\ \E f \in Forms : Begin(h, "create", NoUser, f)

UpdateUser(h) ==
    /\ server = "serving"
    /\ \E u \in Users, f \in Edits : Begin(h, "update", u, f)

DeleteUser(h) ==
    /\ server = "serving"
    /\ \E u \in Users : Begin(h, "delete", u, NoRow)

(* By an administrator, or by the user: ChangeOwnPasswordAsync writes the   *)
(* same column of the row it selected, and is given up when the current    *)
(* password is wrong.                                                      *)
ResetPassword(h) ==
    /\ server = "serving"
    /\ \E u \in Users, p \in Passwords :
          Begin(h, "reset", u, [NoRow EXCEPT !.password = p])

EnsureBuiltInAdmin(h) ==
    /\ server = "starting" /\ configured # NoName
    /\ \A g \in Handlers : At(g, "idle")
    /\ Begin(h, "ensure", NoUser, BuiltIn(configured))

-----------------------------------------------------------------------------
(* The statements that read.                                               *)

(* Mutant: only the loss of the role is a loss of the administrator.       *)
LosesAdminRole(t) == "Admin" \in t.selected.roles \ t.form.roles

(* WouldRemoveLastEnabledAdminAsync counts only when the operation would   *)
(* end the user's being an enabled administrator; a delete keeps no role.  *)
LosesAdmin(t) == EnabledAdmin(t.selected) /\ ~EnabledAdmin(t.form)

AfterCheck(t) == IF LosesAdmin(t) THEN "counting" ELSE "saving"

Selected(h) ==
    LET t == [task[h] EXCEPT !.selected = row[task[h].user]]
    IN  /\ t.selected # NoRow
        /\ Set(h, [t EXCEPT !.step =
               CASE t.op = "update" -> "checking"
                 [] t.op = "delete" -> AfterCheck(t)
                 [] t.op = "reset"  -> "saving"])

Select(h) ==
    /\ At(h, "selecting") /\ task[h].op # "ensure"
    /\ Selected(h) \/ (row[task[h].user] = NoRow /\ Set(h, Idle))
    /\ UNCHANGED <<row, server, configured>>

SelectConfigured(h) ==
    /\ Doing(h, "selecting", "ensure")
    /\ \/ /\ ~Taken(configured, NoUser)
          /\ GoTo(h, "saving") /\ UNCHANGED server
       \/ \E u \in Users :
             /\ row[u].name = configured
             /\ IF row[u].seeded
                THEN /\ Set(h, [task[h] EXCEPT !.step = "saving", !.user = u,
                                               !.selected = row[u]])
                     /\ UNCHANGED server
                ELSE Complete(h)
    /\ UNCHANGED <<row, configured>>

CheckName(h) ==
    /\ At(h, "checking")
    /\ IF Taken(task[h].form.name, task[h].user) THEN Set(h, Idle)
       ELSE GoTo(h, IF task[h].op = "create" THEN "saving"
                    ELSE AfterCheck(task[h]))
    /\ UNCHANGED <<row, server, configured>>

CountAdmins(h) ==
    /\ At(h, "counting")
    /\ LET count == Cardinality(EnabledAdmins)
       IN  IF count <= 1 THEN Set(h, Idle)
           ELSE Set(h, [task[h] EXCEPT !.step = "saving", !.admins = count])
    /\ UNCHANGED <<row, server, configured>>

-----------------------------------------------------------------------------
(* SaveChanges.  The columns that differ from the row selected are         *)
(* written; the update or delete of a row that has gone fails, and so does *)
(* a name the unique index holds already.                                  *)

(* Mutant: the edit form writes its empty password too.                    *)
EditedFully(r, t) ==
    [r EXCEPT !.name = Column(@, t.selected.name, t.form.name),
              !.password = Column(@, t.selected.password, t.form.password),
              !.roles = Column(@, t.selected.roles, t.form.roles),
              !.disabled = Column(@, t.selected.disabled, t.form.disabled)]

Edited(r, t) ==
    [r EXCEPT !.name = Column(@, t.selected.name, t.form.name),
              !.roles = Column(@, t.selected.roles, t.form.roles),
              !.disabled = Column(@, t.selected.disabled, t.form.disabled)]

(* Mutant: a disabled built-in administrator stays disabled.               *)
RestoredOnly(r, t) ==
    [r EXCEPT !.password = Column(@, t.selected.password, t.form.password),
              !.roles = Column(@, t.selected.roles, t.form.roles)]

Restored(r, t) ==
    [r EXCEPT !.password = Column(@, t.selected.password, t.form.password),
              !.roles = Column(@, t.selected.roles, t.form.roles),
              !.disabled = Column(@, t.selected.disabled, t.form.disabled)]

Inserts(t) == t.user = NoUser

(* The row task t saves over row r of its user.                            *)
Result(r, t) ==
    CASE t.op = "update" -> Edited(r, t)
      [] t.op = "delete" -> NoRow
      [] t.op = "reset"  -> [r EXCEPT !.password = t.form.password]
      [] t.op = "ensure" -> Restored(r, t)
      [] OTHER           -> r

Savable(t) ==
    IF Inserts(t) THEN ~Taken(t.form.name, NoUser)
    ELSE LET new == Result(row[t.user], t)
         IN  row[t.user] # NoRow /\ (new = NoRow \/ ~Taken(new.name, t.user))

Write(t) ==
    /\ Savable(t)
    /\ IF Inserts(t)
       THEN \E u \in Users : /\ row[u] = NoRow /\ Free(u)
                             /\ row' = [row EXCEPT ![u] = t.form]
       ELSE row' = [row EXCEPT ![t.user] = Result(@, t)]

Save(h) ==
    /\ At(h, "saving")
    /\ Write(task[h]) /\ Complete(h)
    /\ UNCHANGED configured

Again(h) ==
    LET t == task[h]
    IN  Set(h, [t EXCEPT !.step = FirstStep(t.op), !.selected = NoRow,
                         !.user = IF t.op = "ensure" THEN NoUser ELSE @,
                         !.admins = 0, !.tries = @ + 1])

(* A statement fails, for what Savable rules out or for any other reason,  *)
(* before or after it took effect: the operation starts over, or it is     *)
(* given up with a DatabaseOperationException.                             *)
Break(h) ==
    /\ ~At(h, "idle")
    /\ UNCHANGED row \/ (At(h, "saving") /\ Write(task[h]))
    /\ \/ task[h].tries < MaxAttempts /\ Again(h)
       \/ Set(h, Idle)
    /\ UNCHANGED <<server, configured>>

-----------------------------------------------------------------------------
(* No administrator is configured.                                         *)
StartWithout ==
    /\ server = "starting" /\ configured = NoName
    /\ server' = "serving"
    /\ UNCHANGED <<row, task, configured>>

(* The process ends; it may start again with another configuration.  So it *)
(* does when the built-in administrator could not be ensured.              *)
Restart ==
    /\ task' = [h \in Handlers |-> Idle]
    /\ server' = "starting"
    /\ configured' \in ConfiguredNames
    /\ UNCHANGED row

Init ==
    /\ row = [u \in Users |-> NoRow]
    /\ task = [h \in Handlers |-> Idle]
    /\ server = "starting"
    /\ configured \in ConfiguredNames

Start(h) ==
    \/ CreateUser(h) \/ UpdateUser(h) \/ DeleteUser(h) \/ ResetPassword(h)
    \/ EnsureBuiltInAdmin(h)

Run(h) ==
    \/ Select(h) \/ SelectConfigured(h) \/ CheckName(h) \/ CountAdmins(h)
    \/ Save(h) \/ Break(h)

Next == (\E h \in Handlers : Start(h) \/ Run(h)) \/ StartWithout \/ Restart

Spec == Init /\ [][Next]_vars

-----------------------------------------------------------------------------
(* Properties.                                                             *)

(* Type invariant of the rows and the operations' locals; an operation     *)
(* past its first statement holds the row it selected.                     *)
TypeOK ==
    /\ row \in [Users -> Row]
    /\ task \in [Handlers -> Task]
    /\ \A h \in Handlers :
          /\ task[h].op \in {"update", "delete", "reset"} => task[h].user \in Users
          /\ \/ task[h].step \in {"idle", "selecting"}
             \/ task[h].selected # NoRow
             \/ task[h].op \in {"create", "ensure"} /\ task[h].user = NoUser
    /\ server \in {"starting", "serving"}
    /\ configured \in Names \cup {NoName}

(* "At least one enabled administrator must remain available."             *)
(* (DbLocalUserService.cs:334 and :373): whatever operations, retries and  *)
(* restarts follow or overlap each other, the last one goes only by an     *)
(* operation that another one overtook: its user was edited after it had   *)
(* selected the row, or of the administrators it counted one was lost      *)
(* before it saved.  One that sees things as they are refuses.             *)
AdminRemains ==
    [][EnabledAdmins # {} /\ EnabledAdmins' = {} =>
          \E h \in Handlers :
             /\ At(h, "saving") /\ task[h].user \in Users
             /\ \/ task[h].selected # row[task[h].user]
                \/ task[h].admins > Cardinality(EnabledAdmins)]_vars

(* "This account is the seeded fallback administrator."                    *)
(* (Views/Users/Edit.cshtml:30): once a start is over, the account of the  *)
(* configured name exists, and when it is the seeded one it is an enabled  *)
(* administrator with the configured password, whatever was done to it     *)
(* before and in whichever attempt of EnsureBuiltInAdminAsync it succeeded.*)
FallbackReady(name) ==
    \E u \in Users :
        /\ row[u].name = name
        /\ row[u].seeded => row[u] = BuiltIn(name)

StartRestores ==
    [][server = "starting" /\ server' = "serving" /\ configured # NoName
          => FallbackReady(configured)']_vars

(* What an administrator may rely on, each operation in one step.          *)
NameHolder(name) == {u \in Users : row[u].name = name}

AccountOf(name) ==
    LET r == row[CHOOSE u \in NameHolder(name) : TRUE]
    IN  [password |-> r.password, roles |-> r.roles,
         disabled |-> r.disabled, seeded |-> r.seeded]

Accounts == [n \in Names |-> IF NameHolder(n) = {} THEN {} ELSE {AccountOf(n)}]

Directory ==
    INSTANCE UserDirectory WITH
        account <- Accounts,
        RoleSets <- {NormalizeRoles(c) : c \in RoleChoices}

(* One operation at a time, with its retries and a lost answer, has the    *)
(* effect of one atomic operation of UserDirectory, once or not at all:    *)
(* no retry adds an account twice or applies half of an edit.              *)
DirectorySpec == Directory!Spec
=============================================================================
