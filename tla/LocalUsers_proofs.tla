------------------------- MODULE LocalUsers_proofs -------------------------
(***************************************************************************)
(* Proofs about LocalUsers, for every set of users, names, role choices    *)
(* and handlers and every number of attempts.                              *)
(***************************************************************************)
EXTENDS LocalUsers, FiniteSetTheorems, TLAPS

-----------------------------------------------------------------------------
(* Types.  What the locals of an operation look like at each of its steps. *)

Shape(t) ==
  /\ t.step = "idle" <=> t.op = "none"
  /\ t.step = "selecting" => t.op \in {"update", "delete", "reset", "ensure"}
  /\ t.step = "checking" => t.op \in {"create", "update"}
  /\ t.step = "counting" => t.op \in {"update", "delete"}
  /\ t.op \in {"none", "create"} => t.user = NoUser
  /\ t.op = "ensure" /\ t.step = "selecting" => t.user = NoUser
  /\ t.op \in {"update", "delete", "reset"} => t.user \in Users
  /\ \/ t.step \in {"idle", "selecting"}
     \/ t.selected # NoRow
     \/ t.op \in {"create", "ensure"} /\ t.user = NoUser

Shaped == {t \in Task : Shape(t)}

(* What a start ensures is the administrator it was configured with.       *)
Configured(t) ==
  t.op = "ensure" => configured # NoName /\ t.form = BuiltIn(configured)

TypeInv ==
  /\ row \in [Users -> Row]
  /\ task \in [Handlers -> Shaped]
  /\ server \in {"starting", "serving"}
  /\ configured \in Names \cup {NoName}
  /\ \A h \in Handlers : Configured(task[h])

LEMMA TypeInvTypeOK == TypeInv => TypeOK
BY DEF TypeInv, TypeOK, Shaped, Shape

LEMMA ConstantTypes ==
  /\ NoRow \in Row /\ ~EnabledAdmin(NoRow) /\ NoRow.name = NoName
  /\ \A n \in Names \cup {NoName} : BuiltIn(n) \in Row /\ EnabledAdmin(BuiltIn(n))
  /\ Forms \subseteq Row /\ Edits \subseteq Row
  /\ Idle \in Shaped /\ Idle.op = "none" /\ Idle.step = "idle"
<1>1. NoRow \in Row /\ ~EnabledAdmin(NoRow) /\ NoRow.name = NoName
  BY PasswordsAssumption DEF NoRow, Row, EnabledAdmin
<1>2. ASSUME NEW n \in Names \cup {NoName}
      PROVE  BuiltIn(n) \in Row /\ EnabledAdmin(BuiltIn(n))
  <2>1. {"Admin", "User"} \in SUBSET Roles
    BY DEF Roles
  <2>2. QED  BY <2>1, PasswordsAssumption DEF BuiltIn, Row, EnabledAdmin
<1>3. Forms \subseteq Row
  <2>1. \A c \in RoleChoices : NormalizeRoles(c) \in SUBSET Roles
    BY RolesAssumption DEF NormalizeRoles, Roles
  <2>2. QED  BY <2>1 DEF Forms, Row
<1>4. Edits \subseteq Row
  BY <1>3 DEF Edits
<1>5. Idle \in Shaped /\ Idle.op = "none" /\ Idle.step = "idle"
  BY <1>1 DEF Idle, Shaped, Shape, Task, Steps, Ops
<1>6. QED  BY <1>1, <1>2, <1>3, <1>4, <1>5

LEMMA TypeInvInit == Init => TypeInv
BY ConstantTypes, NamesAssumption DEF Init, TypeInv, Configured

LEMMA CountType == Cardinality(EnabledAdmins) \in Nat
<1>1. EnabledAdmins \subseteq Users
  BY DEF EnabledAdmins
<1>2. IsFiniteSet(EnabledAdmins)
  BY <1>1, UsersAssumption, FS_Subset
<1>3. QED  BY <1>2, FS_CardinalityType

(* What an operation saves is a row.                                       *)
LEMMA ResultType ==
  ASSUME NEW r \in Row, NEW t \in Shaped
  PROVE  Result(r, t) \in Row
<1>1. t.form \in Row /\ t.selected \in Row
  BY DEF Shaped, Task
<1>2. \A old, selected, copy : Column(old, selected, copy) \in {old, copy}
  BY DEF Column
<1> DEFINE name == Column(r.name, t.selected.name, t.form.name)
           password == Column(r.password, t.selected.password, t.form.password)
           roles == Column(r.roles, t.selected.roles, t.form.roles)
           disabled == Column(r.disabled, t.selected.disabled, t.form.disabled)
<1>3. /\ name \in Names \cup {NoName} /\ password \in Passwords
      /\ roles \in SUBSET Roles /\ disabled \in BOOLEAN
  BY <1>1, <1>2 DEF Row
<1>4. /\ Edited(r, t) = [r EXCEPT !.name = name, !.roles = roles,
                                  !.disabled = disabled]
      /\ Restored(r, t) = [r EXCEPT !.password = password, !.roles = roles,
                                    !.disabled = disabled]
  BY DEF Edited, Restored
<1> HIDE DEF name, password, roles, disabled
<1>5. Edited(r, t) \in Row /\ Restored(r, t) \in Row
  BY <1>3, <1>4 DEF Row
<1>6. [r EXCEPT !.password = t.form.password] \in Row
  BY <1>1 DEF Row
<1>7. QED  BY <1>5, <1>6, ConstantTypes DEF Result

LEMMA WriteType ==
  ASSUME TypeInv, NEW h \in Handlers, Write(task[h])
  PROVE  row' \in [Users -> Row]
<1>1. task[h] \in Shaped /\ task[h].form \in Row
  BY DEF TypeInv, Shaped, Task
<1>2. CASE Inserts(task[h])
  BY <1>1, <1>2 DEF Write, TypeInv
<1>3. CASE ~Inserts(task[h])
  <2>1. PICK u : row' = [row EXCEPT ![u] = Result(@, task[h])]
    BY <1>3 DEF Write
  <2>2. QED  BY <1>1, <2>1, ResultType DEF TypeInv
<1>4. QED  BY <1>2, <1>3

(* Every operation of a handler leaves it with well-shaped locals.         *)
LEMMA StartShape ==
  ASSUME TypeInv, NEW h \in Handlers, Start(h)
  PROVE  \E t \in Shaped : /\ Set(h, t) /\ Configured(t)
                           /\ UNCHANGED <<row, server, configured>>
<1> DEFINE new(op, u, f) == [step |-> FirstStep(op), op |-> op, user |-> u,
                             form |-> f, selected |-> NoRow, admins |-> 0,
                             tries |-> 1]
<1>1. ASSUME NEW f \in Row PROVE new("create", NoUser, f) \in Shaped
  BY <1>1, ConstantTypes DEF Shaped, Shape, Task, Steps, Ops, FirstStep
<1>2. ASSUME NEW f \in Row, NEW u \in Users, NEW op \in {"update", "delete", "reset"}
      PROVE  new(op, u, f) \in Shaped
  BY <1>2, ConstantTypes DEF Shaped, Shape, Task, Steps, Ops, FirstStep
<1>3. ASSUME NEW f \in Row PROVE new("ensure", NoUser, f) \in Shaped
  BY <1>3, ConstantTypes DEF Shaped, Shape, Task, Steps, Ops, FirstStep
<1>4. \A op, u, f : Begin(h, op, u, f) =>
          /\ Set(h, new(op, u, f)) /\ UNCHANGED <<row, server, configured>>
          /\ new(op, u, f).op = op /\ new(op, u, f).form = f
  BY DEF Begin
<1> HIDE DEF new
<1>5. CASE CreateUser(h)
  BY <1>1, <1>4, <1>5, ConstantTypes DEF CreateUser, Configured
<1>6. CASE UpdateUser(h)
  BY <1>2, <1>4, <1>6, ConstantTypes DEF UpdateUser, Configured
<1>7. CASE DeleteUser(h)
  BY <1>2, <1>4, <1>7, ConstantTypes DEF DeleteUser, Configured
<1>8. CASE ResetPassword(h)
  <2>1. \A p \in Passwords : [NoRow EXCEPT !.password = p] \in Row
    BY ConstantTypes DEF Row
  <2>2. QED  BY <1>2, <1>4, <1>8, <2>1 DEF ResetPassword, Configured
<1>9. CASE EnsureBuiltInAdmin(h)
  BY <1>3, <1>4, <1>9, ConstantTypes DEF EnsureBuiltInAdmin, TypeInv, Configured
<1>10. QED  BY <1>5, <1>6, <1>7, <1>8, <1>9 DEF Start

LEMMA RunShape ==
  ASSUME TypeInv, NEW h \in Handlers, Run(h)
  PROVE  \E t \in Shaped : Set(h, t) /\ Configured(t)
<1> DEFINE t == task[h]
<1>1. t \in Task /\ Shape(t) /\ Configured(t)
  BY DEF TypeInv, Shaped
<1>2. Idle \in Shaped /\ Configured(Idle)
  BY ConstantTypes DEF Configured
<1>3. CASE Select(h)
  <2>1. CASE row[t.user] = NoRow /\ Set(h, Idle)
    BY <1>2, <2>1
  <2>2. CASE Selected(h)
    <3> DEFINE new(s) == [[t EXCEPT !.selected = row[t.user]] EXCEPT !.step = s]
    <3>1. t.user \in Users /\ row[t.user] \in Row /\ row[t.user] # NoRow
      BY <1>1, <1>3, <2>2 DEF Select, Selected, At, Shape, TypeInv
    <3>2. /\ t.op \in {"update", "delete", "reset"} /\ t.step = "selecting"
      BY <1>1, <1>3 DEF Select, At, Shape
    <3>3. \/ t.op = "update" /\ Set(h, new("checking"))
          \/ t.op = "delete" /\ (Set(h, new("counting")) \/ Set(h, new("saving")))
          \/ t.op = "reset" /\ Set(h, new("saving"))
      <4> DEFINE at == [t EXCEPT !.selected = row[t.user]]
      <4>1. at.op = t.op
        BY <1>1 DEF Task
      <4>2. Set(h, [at EXCEPT !.step =
                CASE at.op = "update" -> "checking"
                  [] at.op = "delete" -> AfterCheck(at)
                  [] at.op = "reset"  -> "saving"])
        BY <2>2 DEF Selected
      <4>3. AfterCheck(at) \in {"counting", "saving"}
        BY DEF AfterCheck
      <4> HIDE DEF at
      <4>4. \E s : /\ Set(h, [at EXCEPT !.step = s])
                   /\ \/ t.op = "update" /\ s = "checking"
                      \/ t.op = "delete" /\ s \in {"counting", "saving"}
                      \/ t.op = "reset" /\ s = "saving"
        BY <3>2, <4>1, <4>2, <4>3
      <4>5. QED  BY <4>4 DEF at
    <3>4. /\ t.op = "update" => new("checking") \in Shaped
          /\ t.op = "delete" => new("counting") \in Shaped
          /\ t.op \in {"delete", "reset"} => new("saving") \in Shaped
      BY <1>1, <3>1, <3>2 DEF Shaped, Shape, Task, Steps
    <3>5. \A s : new(s).op = t.op
      BY <1>1 DEF Task
    <3>6. QED  BY <3>2, <3>3, <3>4, <3>5 DEF Configured
  <2>3. QED  BY <1>3, <2>1, <2>2 DEF Select
<1>4. CASE SelectConfigured(h)
  <2>1. t.op = "ensure" /\ t.step = "selecting" /\ t.user = NoUser
    BY <1>1, <1>4 DEF SelectConfigured, Doing, At, Shape
  <2>2. [t EXCEPT !.step = "saving"] \in Shaped
    BY <1>1, <2>1 DEF Shaped, Shape, Task, Steps
  <2>3. ASSUME NEW u \in Users, row[u].name = configured
        PROVE  [t EXCEPT !.step = "saving", !.user = u, !.selected = row[u]]
                   \in Shaped
    <3>1. row[u] \in Row /\ row[u] # NoRow
      BY <1>1, <2>1, <2>3, ConstantTypes DEF TypeInv, Configured
    <3>2. QED  BY <1>1, <2>1, <3>1 DEF Shaped, Shape, Task, Steps
  <2>4. /\ Configured([t EXCEPT !.step = "saving"])
        /\ \A u \in Users : Configured([t EXCEPT !.step = "saving", !.user = u,
                                                 !.selected = row[u]])
    BY <1>1 DEF Configured, Task
  <2>5. CASE ~Taken(configured, NoUser) /\ GoTo(h, "saving")
    BY <2>2, <2>4, <2>5 DEF GoTo
  <2>6. CASE Complete(h)
    BY <1>2, <2>6 DEF Complete
  <2>7. QED  BY <1>4, <2>3, <2>4, <2>5, <2>6 DEF SelectConfigured
<1>5. CASE CheckName(h)
  <2>1. t.step = "checking" /\ t.op \in {"create", "update"}
    BY <1>1, <1>5 DEF CheckName, At, Shape
  <2>2. /\ [t EXCEPT !.step = "saving"] \in Shaped
        /\ t.op = "update" => [t EXCEPT !.step = "counting"] \in Shaped
    BY <1>1, <2>1 DEF Shaped, Shape, Task, Steps
  <2>3. \A s : Configured([t EXCEPT !.step = s])
    BY <1>1 DEF Configured, Task
  <2>4. \/ Set(h, Idle)
        \/ Set(h, [t EXCEPT !.step = "saving"])
        \/ t.op = "update" /\ Set(h, [t EXCEPT !.step = "counting"])
    BY <1>5, <2>1 DEF CheckName, GoTo, AfterCheck
  <2>5. QED  BY <1>2, <2>2, <2>3, <2>4
<1>6. CASE CountAdmins(h)
  <2>1. t.step = "counting" /\ t.op \in {"update", "delete"}
    BY <1>1, <1>6 DEF CountAdmins, At, Shape
  <2> DEFINE new == [t EXCEPT !.step = "saving", !.admins = Cardinality(EnabledAdmins)]
  <2>2. new \in Shaped
    BY <1>1, <2>1, CountType DEF Shaped, Shape, Task, Steps
  <2>3. Configured(new)
    BY <1>1 DEF Configured, Task
  <2>4. Set(h, Idle) \/ Set(h, new)
    BY <1>6 DEF CountAdmins
  <2>5. QED  BY <1>2, <2>2, <2>3, <2>4
<1>7. CASE Save(h)
  BY <1>2, <1>7 DEF Save, Complete
<1>8. CASE Break(h)
  <2>1. CASE Again(h)
    <3> DEFINE new == [t EXCEPT !.step = FirstStep(t.op), !.selected = NoRow,
                                !.user = IF t.op = "ensure" THEN NoUser ELSE @,
                                !.admins = 0, !.tries = @ + 1]
    <3>1. t.op # "none" /\ t.tries \in Nat /\ t.tries + 1 \in Nat
      BY <1>1, <1>8 DEF Break, At, Shape, Task
    <3>2. new.op = t.op /\ new.form = t.form
      BY <1>1 DEF Task
    <3>3. new \in Task
      BY <1>1, <3>1, ConstantTypes DEF Task, FirstStep, Steps
    <3>4. Shape(new)
      BY <1>1, <3>1 DEF Shape, Task, FirstStep, Ops
    <3>5. QED  BY <1>1, <2>1, <3>2, <3>3, <3>4 DEF Again, Shaped, Configured
  <2>2. QED  BY <1>2, <1>8, <2>1 DEF Break
<1>9. QED  BY <1>3, <1>4, <1>5, <1>6, <1>7, <1>8 DEF Run

LEMMA TypeInvNext == TypeInv /\ [Next]_vars => TypeInv'
<1>1. SUFFICES ASSUME TypeInv, [Next]_vars PROVE TypeInv'
  OBVIOUS
<1>2. ASSUME NEW h \in Handlers, NEW t \in Shaped, Set(h, t), Configured(t),
             row' \in [Users -> Row], server' \in {"starting", "serving"},
             configured' = configured
      PROVE  TypeInv'
  BY <1>1, <1>2 DEF TypeInv, Set, Configured
<1>3. ASSUME NEW h \in Handlers, Start(h) PROVE TypeInv'
  BY <1>1, <1>2, <1>3, StartShape DEF TypeInv
<1>4. ASSUME NEW h \in Handlers, Run(h) PROVE TypeInv'
  <2>1. PICK t \in Shaped : Set(h, t) /\ Configured(t)
    BY <1>1, <1>4, RunShape
  <2>2. row' \in [Users -> Row]
    BY <1>1, <1>4, WriteType
    DEF Run, Select, SelectConfigured, CheckName, CountAdmins, Save, Break, TypeInv
  <2>3. server' \in {"starting", "serving"} /\ configured' = configured
    BY <1>1, <1>4
    DEF Run, Select, SelectConfigured, CheckName, CountAdmins, Save, Break,
        Complete, TypeInv
  <2>4. QED  BY <1>2, <2>1, <2>2, <2>3
<1>5. CASE StartWithout
  BY <1>1, <1>5 DEF StartWithout, TypeInv, Configured
<1>6. CASE Restart
  BY <1>1, <1>6, ConstantTypes, NamesAssumption DEF Restart, TypeInv, Configured
<1>7. CASE UNCHANGED vars
  BY <1>1, <1>7 DEF vars, TypeInv, Configured
<1>8. QED  BY <1>1, <1>3, <1>4, <1>5, <1>6, <1>7 DEF Next

(* Types: the rows and the operations' locals stay well-typed, and an      *)
(* operation past its first statement holds the row it selected.           *)
THEOREM TypeCorrect == Spec => []TypeOK
BY TypeInvInit, TypeInvNext, TypeInvTypeOK, PTL DEF Spec

-----------------------------------------------------------------------------
(* Operations that do not overlap: all of them when Overlap is FALSE, and  *)
(* the one of a start in any case.  Such an operation saves over the row   *)
(* it selected.  Overlapping or not, one that takes an enabled             *)
(* administrator away has counted another one.                             *)

Calm == ~Overlap \/ server = "starting"

Alone ==
  \A g, h \in Handlers : Calm /\ ~At(g, "idle") /\ ~At(h, "idle") => g = h

Locals(t) ==
  /\ t.op = "delete" => t.form = NoRow
  /\ server = "starting" => t.op \in {"none", "ensure"}
  /\ t.op = "ensure" => server = "starting"
  /\ t.op = "ensure" /\ t.user # NoUser =>
        t.selected.name = configured /\ t.selected.seeded
  /\ Calm /\ t.step # "selecting" /\ t.user # NoUser =>
        t.selected = row[t.user]
  /\ t.step = "saving" /\ t.op \in {"update", "delete"} /\ LosesAdmin(t)
        => /\ t.admins > 1
           /\ ~Overlap => \E v \in Users \ {t.user} : EnabledAdmin(row[v])

SoloInv == Alone /\ \A h \in Handlers : Locals(task[h])

LEMMA IdleTask ==
  ASSUME TypeInv, NEW h \in Handlers, At(h, "idle")
  PROVE  task[h].op = "none" /\ task[h].user = NoUser /\ task[h].step = "idle"
BY DEF TypeInv, Shaped, Shape, At

LEMMA SoloInvInit == Init => SoloInv
BY ConstantTypes DEF Init, SoloInv, Alone, Locals, At, Idle

(* The others are idle when it matters, so a step of h concerns h only.    *)
LEMMA StepOfOne ==
  ASSUME TypeInv, SoloInv, NEW h \in Handlers,
         \A g \in Handlers \ {h} : task'[g] = task[g],
         Calm => \A g \in Handlers \ {h} : At(g, "idle"),
         configured' = configured,
         server' = server \/ (server = "starting" /\ server' = "serving"),
         Locals(task[h])'
  PROVE  SoloInv'
<1>1. Calm' => Calm
  BY DEF Calm
<1>2. Alone'
  BY <1>1 DEF Alone, At
<1>3. ASSUME NEW g \in Handlers \ {h} PROVE Locals(task[g])'
  <2>1. Locals(task[g]) /\ server \in {"starting", "serving"}
    BY DEF SoloInv, TypeInv
  <2>2. CASE Calm
    <3>1. task[g].op = "none" /\ task[g].user = NoUser /\ task[g].step = "idle"
      BY <2>2, IdleTask
    <3>2. QED  BY <3>1 DEF Locals
  <2>3. CASE ~Calm
    <3>1. Overlap /\ server = "serving" /\ server' = "serving" /\ ~Calm'
      BY <2>1, <2>3 DEF Calm
    <3>2. QED  BY <2>1, <3>1 DEF Locals
  <2>4. QED  BY <2>2, <2>3
<1>4. QED  BY <1>2, <1>3 DEF SoloInv

LEMMA StartSolo ==
  ASSUME TypeInv, SoloInv, NEW h \in Handlers, Start(h)
  PROVE  SoloInv'
<1>1. ASSUME NEW op, NEW u, NEW f, Begin(h, op, u, f),
             op \in {"create", "update", "delete", "reset", "ensure"},
             op = "delete" => f = NoRow,
             op = "ensure" <=> server = "starting",
             op \in {"create", "ensure"} => u = NoUser,
             op = "ensure" => \A g \in Handlers : At(g, "idle")
      PROVE  SoloInv'
  <2>1. /\ task'[h] = [step |-> FirstStep(op), op |-> op, user |-> u,
                       form |-> f, selected |-> NoRow, admins |-> 0, tries |-> 1]
        /\ \A g \in Handlers \ {h} : task'[g] = task[g]
        /\ UNCHANGED <<row, server, configured>>
    BY <1>1 DEF Begin, Set, TypeInv
  <2>2. Calm => \A g \in Handlers \ {h} : At(g, "idle")
    BY <1>1 DEF Begin, Calm
  <2>3. Locals(task[h])'
    BY <1>1, <2>1 DEF Locals, FirstStep
  <2>4. QED  BY <2>1, <2>2, <2>3, StepOfOne
<1>2. CASE CreateUser(h)
  BY <1>1, <1>2 DEF CreateUser
<1>3. CASE UpdateUser(h)
  BY <1>1, <1>3 DEF UpdateUser
<1>4. CASE DeleteUser(h)
  BY <1>1, <1>4 DEF DeleteUser
<1>5. CASE ResetPassword(h)
  BY <1>1, <1>5 DEF ResetPassword
<1>6. CASE EnsureBuiltInAdmin(h)
  BY <1>1, <1>6 DEF EnsureBuiltInAdmin
<1>7. QED  BY <1>2, <1>3, <1>4, <1>5, <1>6 DEF Start

(* Of two enabled administrators one is not the user.                      *)
LEMMA Another ==
  ASSUME ~(Cardinality(EnabledAdmins) <= 1), NEW u
  PROVE  \E v \in Users \ {u} : EnabledAdmin(row[v])
<1>1. SUFFICES ASSUME EnabledAdmins \subseteq {u} PROVE FALSE
  BY DEF EnabledAdmins
<1>2. IsFiniteSet({u}) /\ Cardinality({u}) = 1
  BY FS_Singleton
<1>3. Cardinality(EnabledAdmins) <= Cardinality({u})
  BY <1>1, <1>2, FS_Subset
<1>4. QED  BY <1>2, <1>3

LEMMA RunSolo ==
  ASSUME TypeInv, SoloInv, NEW h \in Handlers, Run(h)
  PROVE  SoloInv'
<1> DEFINE t == task[h]
<1>1. t \in Task /\ Shape(t) /\ Locals(t)
  BY DEF TypeInv, SoloInv, Shaped
<1>2. ~At(h, "idle")
  BY <1>1 DEF Run, Select, SelectConfigured, Doing, CheckName, CountAdmins,
              Save, Break, At
<1>3. Calm => \A g \in Handlers \ {h} : At(g, "idle")
  BY <1>2 DEF SoloInv, Alone
<1>4. /\ configured' = configured
      /\ server' = server \/ (server = "starting" /\ server' = "serving")
  BY <1>1 DEF Run, Select, SelectConfigured, CheckName, CountAdmins, Save,
              Break, Complete, Locals
<1>5. ASSUME NEW new, Set(h, new)
      PROVE  /\ task'[h] = new
             /\ \A g \in Handlers \ {h} : task'[g] = task[g]
  BY <1>5 DEF Set, TypeInv
<1>6. CASE Set(h, Idle)
  <2>1. task'[h].op = "none" /\ task'[h].user = NoUser /\ task'[h].step = "idle"
    BY <1>5, <1>6, ConstantTypes DEF Idle
  <2>2. Locals(task[h])'
    BY <2>1 DEF Locals
  <2>3. QED  BY <1>3, <1>4, <1>5, <1>6, <2>2, StepOfOne
<1>7. CASE Select(h) /\ Selected(h)
  <2>1. /\ t.op \in {"update", "delete", "reset"} /\ t.user \in Users
        /\ UNCHANGED <<row, server, configured>>
    BY <1>1, <1>7 DEF Select, At, Shape
  <2> DEFINE at == [t EXCEPT !.selected = row[t.user]]
  <2>2. /\ at.op = t.op /\ at.user = t.user /\ at.form = t.form
        /\ at.selected = row[t.user] /\ at \in Task
    BY <1>1, <2>1 DEF Task, TypeInv
  <2>3. Set(h, [at EXCEPT !.step =
            CASE at.op = "update" -> "checking"
              [] at.op = "delete" -> AfterCheck(at)
              [] at.op = "reset"  -> "saving"])
    BY <1>7 DEF Selected
  <2> HIDE DEF at
  <2>4. PICK s : /\ Set(h, [at EXCEPT !.step = s])
                 /\ at.op = "update" => s = "checking"
                 /\ at.op = "delete" => s = AfterCheck(at)
    BY <2>3
  <2>5. task'[h] = [at EXCEPT !.step = s]
    BY <1>5, <2>4
  <2>6. /\ task'[h].op = t.op /\ task'[h].user = t.user /\ task'[h].form = t.form
        /\ task'[h].selected = row[t.user] /\ task'[h].step = s
    BY <2>2, <2>5 DEF Task
  <2>7. s = "saving" /\ t.op \in {"update", "delete"} => ~LosesAdmin(task'[h])
    BY <2>2, <2>4, <2>6 DEF AfterCheck, LosesAdmin
  <2>8. Locals(task[h])'
    BY <1>1, <2>1, <2>6, <2>7 DEF Locals, LosesAdmin
  <2>9. QED  BY <1>3, <1>4, <1>5, <2>4, <2>8, StepOfOne
<1>8. CASE SelectConfigured(h)
  <2>1. t.op = "ensure" /\ t.user = NoUser
    BY <1>1, <1>8 DEF SelectConfigured, Doing, At, Shape
  <2>2. CASE GoTo(h, "saving") /\ UNCHANGED server
    <3>1. task'[h].op = "ensure" /\ task'[h].user = NoUser /\ server' = server
      BY <1>1, <1>5, <2>1, <2>2 DEF GoTo, Task
    <3>2. Locals(task[h])'
      BY <1>1, <2>1, <3>1 DEF Locals
    <3>3. QED  BY <1>3, <1>4, <1>5, <2>2, <3>2, StepOfOne DEF GoTo
  <2>3. ASSUME NEW u \in Users, row[u].name = configured, row[u].seeded,
               Set(h, [t EXCEPT !.step = "saving", !.user = u,
                                !.selected = row[u]]),
               UNCHANGED server
        PROVE  SoloInv'
    <3> DEFINE new == [t EXCEPT !.step = "saving", !.user = u, !.selected = row[u]]
    <3>0. task'[h] = new
      BY <1>5, <2>3
    <3>1. /\ task'[h].op = "ensure" /\ task'[h].user = u
          /\ task'[h].selected = row[u]
      BY <1>1, <2>1, <3>0 DEF Task
    <3>2. row' = row /\ configured' = configured
      BY <1>8 DEF SelectConfigured
    <3>3. Locals(task[h])'
      BY <1>1, <2>1, <2>3, <3>1, <3>2 DEF Locals
    <3>4. QED  BY <1>3, <1>4, <1>5, <2>3, <3>3, StepOfOne
  <2>4. QED  BY <1>6, <1>8, <2>2, <2>3 DEF SelectConfigured, Complete
<1>9. CASE CheckName(h)
  <2>1. t.step = "checking" /\ t.op \in {"create", "update"}
    BY <1>1, <1>9 DEF CheckName, At, Shape
  <2>2. CASE Set(h, [t EXCEPT !.step = IF t.op = "create" THEN "saving"
                                        ELSE AfterCheck(t)])
    <3>1. /\ task'[h].op = t.op /\ task'[h].user = t.user
          /\ task'[h].form = t.form /\ task'[h].selected = t.selected
          /\ task'[h].step = "saving" => t.op = "create" \/ ~LosesAdmin(t)
      BY <1>1, <1>5, <2>2 DEF Task, AfterCheck
    <3>2. UNCHANGED <<row, server, configured>>
      BY <1>9 DEF CheckName
    <3>3. Locals(task[h])'
      BY <1>1, <2>1, <3>1, <3>2 DEF Locals, LosesAdmin, Calm
    <3>4. QED  BY <1>3, <1>4, <1>5, <2>2, <3>3, StepOfOne
  <2>3. QED  BY <1>6, <1>9, <2>2 DEF CheckName, GoTo
<1>10. CASE CountAdmins(h)
  <2> DEFINE new == [t EXCEPT !.step = "saving", !.admins = Cardinality(EnabledAdmins)]
  <2>1. CASE Set(h, new) /\ ~(Cardinality(EnabledAdmins) <= 1)
    <3>1. task'[h] = new
      BY <1>5, <2>1
    <3>2. /\ new.op = t.op /\ new.user = t.user /\ new.form = t.form
          /\ new.selected = t.selected /\ new.admins > 1
          /\ \E v \in Users \ {t.user} : EnabledAdmin(row[v])
      BY <1>1, <2>1, CountType, Another DEF Task
    <3>3. t.step = "counting" /\ UNCHANGED <<row, server, configured>>
      BY <1>10 DEF CountAdmins, At
    <3> HIDE DEF new
    <3>4. Locals(task[h])'
      BY <1>1, <3>1, <3>2, <3>3 DEF Locals, Calm
    <3>5. QED  BY <1>3, <1>4, <1>5, <2>1, <3>4, StepOfOne
  <2>2. QED  BY <1>6, <1>10, <2>1 DEF CountAdmins
<1>11. CASE Break(h) /\ Again(h)
  <2> DEFINE user == IF t.op = "ensure" THEN NoUser ELSE t.user
             new == [t EXCEPT !.step = FirstStep(t.op), !.selected = NoRow,
                              !.user = user, !.admins = 0, !.tries = @ + 1]
  <2>0. task'[h] = new
    BY <1>5, <1>11 DEF Again
  <2> HIDE DEF user
  <2>1. /\ task'[h].op = t.op /\ task'[h].form = t.form
        /\ task'[h].step = FirstStep(t.op)
        /\ task'[h].user = IF t.op = "ensure" THEN NoUser ELSE t.user
    BY <1>1, <2>0 DEF Task, user
  <2>2. t.op = "create" => t.user = NoUser
    BY <1>1 DEF Shape
  <2>3. server' = server
    BY <1>11 DEF Break
  <2>4. Locals(task[h])'
    BY <1>1, <2>1, <2>2, <2>3 DEF Locals, FirstStep
  <2>5. QED  BY <1>3, <1>4, <1>5, <1>11, <2>4, StepOfOne DEF Again
<1>12. QED
  BY <1>6, <1>7, <1>8, <1>9, <1>10, <1>11 DEF Run, Select, Save, Complete, Break

LEMMA SoloInvNext == TypeInv /\ SoloInv /\ [Next]_vars => SoloInv'
<1>1. SUFFICES ASSUME TypeInv, SoloInv, [Next]_vars PROVE SoloInv'
  OBVIOUS
<1>2. CASE \E h \in Handlers : Start(h) \/ Run(h)
  BY <1>1, <1>2, StartSolo, RunSolo
<1>3. CASE StartWithout
  <2>1. \A h \in Handlers : task[h].op = "none" /\ task[h].step = "idle"
    BY <1>1, <1>3
    DEF StartWithout, TypeInv, SoloInv, Locals, Configured, Shaped, Shape
  <2>2. \A h \in Handlers : task[h].user = NoUser
    BY <1>1, <2>1 DEF TypeInv, Shaped, Shape
  <2>3. QED
    BY <1>1, <1>3, <2>1, <2>2 DEF StartWithout, SoloInv, Alone, Locals, At
<1>4. CASE Restart
  <2>1. \A h \in Handlers : /\ task'[h].op = "none" /\ task'[h].step = "idle"
                            /\ task'[h].user = NoUser
    BY <1>4, ConstantTypes DEF Restart, Idle
  <2>2. QED  BY <2>1 DEF SoloInv, Alone, Locals, At
<1>5. CASE UNCHANGED vars
  BY <1>1, <1>5 DEF vars, SoloInv, Alone, Locals, Calm, At, LosesAdmin
<1>6. QED  BY <1>1, <1>2, <1>3, <1>4, <1>5 DEF Next

-----------------------------------------------------------------------------
(* What a save does to the table.                                          *)

(* A save over the row the operation selected: the columns of the form.    *)
LEMMA SavedRow ==
  ASSUME TypeInv, SoloInv, NEW h \in Handlers, At(h, "saving"),
         task[h].user # NoUser, Calm \/ task[h].selected = row[task[h].user]
  PROVE  LET t == task[h]
             new == Result(row[t.user], t)
         IN  /\ t.user \in Users /\ row[t.user] = t.selected
             /\ t.op = "update" =>
                   /\ new.roles = t.form.roles
                   /\ new.disabled = t.form.disabled
             /\ t.op = "reset" =>
                   /\ new.roles = t.selected.roles
                   /\ new.disabled = t.selected.disabled
             /\ t.op = "ensure" => new = BuiltIn(configured)
<1> DEFINE t == task[h]
<1>1. /\ t \in Task /\ t.selected \in Row /\ t.user \in Users
      /\ Locals(t) /\ Configured(t)
  BY DEF TypeInv, SoloInv, Shaped, Task
<1>2. row[t.user] = t.selected
  BY <1>1 DEF Locals, At
<1>3. ASSUME NEW r \in Row, r = t.selected
      PROVE  /\ Edited(r, t) = [r EXCEPT !.name = t.form.name,
                                         !.roles = t.form.roles,
                                         !.disabled = t.form.disabled]
             /\ Restored(r, t) = [r EXCEPT !.password = t.form.password,
                                           !.roles = t.form.roles,
                                           !.disabled = t.form.disabled]
  <2>1. /\ Column(r.name, t.selected.name, t.form.name) = t.form.name
        /\ Column(r.password, t.selected.password, t.form.password)
              = t.form.password
        /\ Column(r.roles, t.selected.roles, t.form.roles) = t.form.roles
        /\ Column(r.disabled, t.selected.disabled, t.form.disabled)
              = t.form.disabled
    BY <1>3 DEF Column
  <2>2. QED  BY <2>1 DEF Edited, Restored
<1>4. t.op = "update" => /\ Result(row[t.user], t).roles = t.form.roles
                         /\ Result(row[t.user], t).disabled = t.form.disabled
  <2>1. SUFFICES ASSUME t.op = "update"
                 PROVE  /\ Result(row[t.user], t).roles = t.form.roles
                        /\ Result(row[t.user], t).disabled = t.form.disabled
    OBVIOUS
  <2>2. Result(row[t.user], t) = Edited(t.selected, t)
    BY <1>2, <2>1 DEF Result
  <2>3. Edited(t.selected, t) = [t.selected EXCEPT !.name = t.form.name,
                                                   !.roles = t.form.roles,
                                                   !.disabled = t.form.disabled]
    BY <1>1, <1>3
  <2>4. QED  BY <1>1, <2>2, <2>3 DEF Row
<1>5. t.op = "reset" => /\ Result(row[t.user], t).roles = t.selected.roles
                        /\ Result(row[t.user], t).disabled = t.selected.disabled
  BY <1>1, <1>2 DEF Result, Row
<1>6. ASSUME t.op = "ensure" PROVE Result(row[t.user], t) = BuiltIn(configured)
  <2>1. /\ t.selected.name = configured /\ t.selected.seeded = TRUE
        /\ t.form = BuiltIn(configured)
    BY <1>1, <1>6 DEF Locals, Configured, Row
  <2>2. Result(row[t.user], t) =
            [t.selected EXCEPT !.password = t.form.password,
                               !.roles = t.form.roles,
                               !.disabled = t.form.disabled]
    <3>1. Result(row[t.user], t) = Restored(t.selected, t)
      BY <1>2, <1>6 DEF Result
    <3>2. QED  BY <1>1, <1>3, <3>1
  <2>3. t.selected = [name     |-> t.selected.name,
                      password |-> t.selected.password,
                      roles    |-> t.selected.roles,
                      disabled |-> t.selected.disabled,
                      seeded   |-> t.selected.seeded]
    BY <1>1 DEF Row
  <2>4. Result(row[t.user], t) = [name     |-> configured,
                                  password |-> t.form.password,
                                  roles    |-> t.form.roles,
                                  disabled |-> t.form.disabled,
                                  seeded   |-> TRUE]
    BY <2>1, <2>2, <2>3
  <2>5. /\ t.form.password = ConfiguredPassword
        /\ t.form.roles = {"Admin", "User"} /\ t.form.disabled = FALSE
    BY <2>1 DEF BuiltIn
  <2>6. QED  BY <2>4, <2>5 DEF BuiltIn
<1>7. QED  BY <1>1, <1>2, <1>4, <1>5, <1>6

(* An operation that saves over the row it selected, while another enabled *)
(* administrator is there when it takes one away, leaves one.              *)
LEMMA WriteKeepsAdmin ==
  ASSUME TypeInv, SoloInv, NEW h \in Handlers, At(h, "saving"),
         Write(task[h]), EnabledAdmins # {},
         task[h].user \in Users =>
            /\ task[h].selected = row[task[h].user]
            /\ task[h].op \in {"update", "delete"} /\ LosesAdmin(task[h])
                  => \E v \in Users \ {task[h].user} : EnabledAdmin(row[v])
  PROVE  EnabledAdmins' # {}
<1> DEFINE t == task[h]
           new == Result(row[t.user], t)
<1>1. PICK v \in Users : EnabledAdmin(row[v])
  BY DEF EnabledAdmins
<1>2. SUFFICES \E w \in Users : EnabledAdmin(row'[w])
  BY DEF EnabledAdmins, EnabledAdmin
<1>3. CASE Inserts(t)
  <2>1. PICK u \in Users : row[u] = NoRow /\ row' = [row EXCEPT ![u] = t.form]
    BY <1>3 DEF Write
  <2>2. row'[v] = row[v]
    BY <1>1, <2>1, ConstantTypes DEF TypeInv
  <2>3. QED  BY <1>1, <2>2
<1>4. CASE ~Inserts(t)
  <2>1. /\ t.user # NoUser /\ t.user \in Users /\ row[t.user] = t.selected
        /\ Locals(t) /\ t \in Shaped
        /\ t.op \in {"update", "delete"} /\ LosesAdmin(t)
              => \E w \in Users \ {t.user} : EnabledAdmin(row[w])
    BY <1>4 DEF Inserts, SoloInv, TypeInv, Shaped, Task
  <2>2. row' = [row EXCEPT ![t.user] = new]
    BY <1>4 DEF Write
  <2>3. /\ row'[t.user] = new
        /\ \A u \in Users \ {t.user} : row'[u] = row[u]
    BY <2>1, <2>2 DEF TypeInv
  <2>4. CASE ~EnabledAdmin(row[t.user])
    BY <1>1, <2>3, <2>4
  <2>5. CASE EnabledAdmin(row[t.user])
    <3>1. t.op \in {"update", "delete", "reset", "ensure"}
      BY <2>1 DEF Shaped, Shape, Task, Ops, At
    <3>2. CASE t.op \in {"update", "delete"} /\ LosesAdmin(t)
      BY <2>1, <2>3, <3>2
    <3>3. CASE t.op \in {"update", "delete"} /\ ~LosesAdmin(t)
      <4>1. EnabledAdmin(t.form)
        BY <2>1, <2>5, <3>3 DEF LosesAdmin
      <4>2. t.op = "update"
        BY <2>1, <3>3, <4>1, ConstantTypes DEF Locals
      <4>3. new.roles = t.form.roles /\ new.disabled = t.form.disabled
        BY <2>1, <4>2, SavedRow DEF Calm
      <4>4. QED  BY <2>1, <2>3, <4>1, <4>3 DEF EnabledAdmin
    <3>4. CASE t.op = "reset"
      <4>1. /\ new.roles = t.selected.roles
            /\ new.disabled = t.selected.disabled
        BY <2>1, <3>4, SavedRow DEF Calm
      <4>2. QED  BY <2>1, <2>3, <2>5, <4>1 DEF EnabledAdmin
    <3>5. CASE t.op = "ensure"
      <4>1. new = BuiltIn(configured) /\ configured \in Names \cup {NoName}
        BY <2>1, <3>5, SavedRow DEF TypeInv
      <4>2. QED  BY <2>1, <2>3, <4>1, ConstantTypes
    <3>6. QED  BY <3>1, <3>2, <3>3, <3>4, <3>5
  <2>6. QED  BY <2>4, <2>5
<1>5. QED  BY <1>3, <1>4

LEMMA SerialKeepsAdmin ==
  ASSUME TypeInv, SoloInv, ~Overlap, NEW h \in Handlers, At(h, "saving"),
         Write(task[h]), EnabledAdmins # {}
  PROVE  EnabledAdmins' # {}
<1>1. Locals(task[h]) /\ NoUser \notin Users
  BY UsersAssumption DEF SoloInv
<1>2. task[h].user \in Users => task[h].selected = row[task[h].user]
  BY <1>1 DEF Locals, Calm, At
<1>3. task[h].op \in {"update", "delete"} /\ LosesAdmin(task[h])
        => \E v \in Users \ {task[h].user} : EnabledAdmin(row[v])
  BY <1>1 DEF Locals, At
<1>4. QED  BY <1>2, <1>3, WriteKeepsAdmin

(* Only a save writes, in whatever way it ends.                            *)
LEMMA WhoWrites ==
  ASSUME [Next]_vars
  PROVE  row' = row \/ \E h \in Handlers : At(h, "saving") /\ Write(task[h])
BY DEF Next, vars, Start, CreateUser, UpdateUser, DeleteUser, ResetPassword,
       EnsureBuiltInAdmin, Begin, Run, Select, SelectConfigured, CheckName,
       CountAdmins, Save, Break, StartWithout, Restart

(* However operations overlap, the last enabled administrator goes only by *)
(* one that another overtook: its user was edited after it selected the    *)
(* row, or an administrator it counted was lost before it saved            *)
(* (WouldRemoveLastEnabledAdminAsync, DbLocalUserService.cs:705-719).      *)
THEOREM AdminStays == Spec => AdminRemains
<1>1. TypeInv /\ SoloInv /\ [Next]_vars =>
         [EnabledAdmins # {} /\ EnabledAdmins' = {} =>
            \E h \in Handlers :
               /\ At(h, "saving") /\ task[h].user \in Users
               /\ \/ task[h].selected # row[task[h].user]
                  \/ task[h].admins > Cardinality(EnabledAdmins)]_vars
  <2>1. SUFFICES ASSUME TypeInv, SoloInv, [Next]_vars, EnabledAdmins # {},
                        EnabledAdmins' = {}
                 PROVE  \E h \in Handlers :
                           /\ At(h, "saving") /\ task[h].user \in Users
                           /\ \/ task[h].selected # row[task[h].user]
                              \/ task[h].admins > Cardinality(EnabledAdmins)
    OBVIOUS
  <2>2. CASE row' = row
    BY <2>1, <2>2 DEF EnabledAdmins
  <2>3. CASE \E h \in Handlers : At(h, "saving") /\ Write(task[h])
    <3>1. PICK h \in Handlers : At(h, "saving") /\ Write(task[h])
      BY <2>3
    <3>2. SUFFICES ASSUME task[h].user \in Users =>
                             /\ task[h].selected = row[task[h].user]
                             /\ ~(task[h].admins > Cardinality(EnabledAdmins))
                   PROVE  FALSE
      BY <3>1
    <3>3. task[h].op \in {"update", "delete"} /\ LosesAdmin(task[h])
            => \E v \in Users \ {task[h].user} : EnabledAdmin(row[v])
      <4>1. SUFFICES ASSUME task[h].op \in {"update", "delete"}, LosesAdmin(task[h])
                     PROVE  ~(Cardinality(EnabledAdmins) <= 1)
        BY Another
      <4>2. task[h].user \in Users /\ task[h].admins > 1 /\ task[h].admins \in Nat
        BY <2>1, <3>1, <4>1 DEF TypeInv, SoloInv, Locals, Shaped, Shape, Task, At
      <4>3. QED  BY <3>2, <4>2, CountType
    <3>4. QED  BY <2>1, <3>1, <3>2, <3>3, WriteKeepsAdmin
  <2>4. QED  BY <2>1, <2>2, <2>3, WhoWrites
<1>2. QED
  BY <1>1, TypeInvInit, TypeInvNext, SoloInvInit, SoloInvNext, PTL
  DEF Spec, AdminRemains

(* A start that ends with a configured administrator leaves the account of *)
(* that name there, and restored when it is the seeded one, also when      *)
(* requests overlap later (EnsureBuiltInAdminAsync,                        *)
(* DbLocalUserService.cs:48-99).                                           *)
THEOREM FallbackRestored == Spec => StartRestores
<1> DEFINE Restores == server = "starting" /\ server' = "serving"
                       /\ configured # NoName => FallbackReady(configured)'
<1>1. TypeInv /\ SoloInv /\ [Next]_vars => [Restores]_vars
  <2>1. SUFFICES ASSUME TypeInv, SoloInv, [Next]_vars, server = "starting",
                        server' = "serving", configured # NoName
                 PROVE  FallbackReady(configured)'
    OBVIOUS
  <2>2. PICK h \in Handlers : \/ SelectConfigured(h) /\ Complete(h)
                              \/ Save(h) /\ task[h].op = "ensure"
    BY <2>1
    DEF Next, vars, Start, CreateUser, UpdateUser, DeleteUser, ResetPassword,
        EnsureBuiltInAdmin, Begin, Run, Select, SelectConfigured, CheckName,
        CountAdmins, Save, Break, StartWithout, Restart, Complete
  <2>3. CASE SelectConfigured(h) /\ Complete(h)
    <3>1. PICK u \in Users : row[u].name = configured /\ ~row[u].seeded
      BY <2>1, <2>3 DEF SelectConfigured
    <3>2. row' = row /\ configured' = configured
      BY <2>3 DEF SelectConfigured
    <3>3. QED  BY <3>1, <3>2 DEF FallbackReady
  <2>4. CASE Save(h) /\ task[h].op = "ensure"
    <3>1. /\ task[h].form = BuiltIn(configured) /\ configured' = configured
          /\ At(h, "saving") /\ Calm /\ Write(task[h])
      BY <2>1, <2>4 DEF TypeInv, Configured, Save, Calm
    <3>2. \E u \in Users : row'[u] = BuiltIn(configured)
      <4>1. CASE Inserts(task[h])
        BY <2>1, <3>1, <4>1 DEF Write, TypeInv
      <4>2. CASE ~Inserts(task[h])
        <5>1. task[h].user # NoUser
          BY <4>2 DEF Inserts
        <5>2. /\ task[h].user \in Users
              /\ Result(row[task[h].user], task[h]) = BuiltIn(configured)
          BY <2>1, <2>4, <3>1, <5>1, SavedRow
        <5>3. QED  BY <2>1, <3>1, <4>2, <5>2 DEF Write, TypeInv
      <4>3. QED  BY <4>1, <4>2
    <3>3. QED  BY <3>1, <3>2 DEF FallbackReady, BuiltIn
  <2>5. QED  BY <2>2, <2>3, <2>4
<1>2. QED
  BY <1>1, TypeInvInit, TypeInvNext, SoloInvInit, SoloInvNext, PTL
  DEF Spec, StartRestores

-----------------------------------------------------------------------------
(* The refinement of UserDirectory.  A row is absent or has a name that no *)
(* other row has, and an operation asks for what a form may contain.       *)

NamedRows == \A u \in Users : row[u].name = NoName => row[u] = NoRow

UniqueNames ==
  \A u, v \in Users : row[u].name = row[v].name /\ row[u].name # NoName => u = v

Asked(t) == t.op \in {"create", "update"} => t.form \in Forms

NameInv == NamedRows /\ UniqueNames /\ \A h \in Handlers : Asked(task[h])

LEMMA FormRows ==
  /\ \A f \in Forms : f.name \in Names /\ f.name # NoName /\ f # NoRow
  /\ \A n \in Names : BuiltIn(n).name = n /\ n # NoName
<1>1. ASSUME NEW f \in Forms PROVE f.name \in Names /\ f.name # NoName /\ f # NoRow
  <2>1. f.name \in Names
    BY <1>1 DEF Forms
  <2>2. QED  BY <2>1, ConstantTypes, NamesAssumption
<1>2. \A n \in Names : BuiltIn(n).name = n /\ n # NoName
  BY NamesAssumption DEF BuiltIn
<1>3. QED  BY <1>1, <1>2

LEMMA NameInvInit == Init => NameInv
BY ConstantTypes DEF Init, NameInv, NamedRows, UniqueNames, Asked

(* An operation begins with a form, and keeps it until it is over.         *)
LEMMA StartAsks ==
  ASSUME TypeInv, NameInv, NEW h \in Handlers, Start(h)
  PROVE  row' = row /\ \A g \in Handlers : Asked(task'[g])
<1>1. ASSUME NEW op, NEW u, NEW f, Begin(h, op, u, f),
             op \in {"create", "update"} => f \in Forms
      PROVE  row' = row /\ \A g \in Handlers : Asked(task'[g])
  <2>1. /\ task'[h].op = op /\ task'[h].form = f /\ row' = row
        /\ \A g \in Handlers \ {h} : task'[g] = task[g]
    BY <1>1 DEF Begin, Set, TypeInv
  <2>2. QED  BY <1>1, <2>1 DEF NameInv, Asked
<1>2. CASE CreateUser(h)
  BY <1>1, <1>2 DEF CreateUser
<1>3. CASE UpdateUser(h)
  BY <1>1, <1>3 DEF UpdateUser, Edits
<1>4. CASE DeleteUser(h)
  BY <1>1, <1>4 DEF DeleteUser
<1>5. CASE ResetPassword(h)
  BY <1>1, <1>5 DEF ResetPassword
<1>6. CASE EnsureBuiltInAdmin(h)
  BY <1>1, <1>6 DEF EnsureBuiltInAdmin
<1>7. QED  BY <1>2, <1>3, <1>4, <1>5, <1>6 DEF Start

LEMMA RunKeepsForm ==
  ASSUME TypeInv, NEW h \in Handlers, Run(h)
  PROVE  \/ Set(h, Idle)
         \/ \E t \in Task : /\ Set(h, t) /\ t.op = task[h].op
                            /\ t.form = task[h].form
<1> DEFINE t == task[h]
<1>1. t \in Task /\ Shape(t)
  BY DEF TypeInv, Shaped
<1>2. ASSUME NEW s \in Steps
      PROVE  LET new == [t EXCEPT !.step = s]
             IN  new \in Task /\ new.op = t.op /\ new.form = t.form
  BY <1>1 DEF Task
<1>3. CASE Select(h) /\ Selected(h)
  <2> DEFINE at == [t EXCEPT !.selected = row[t.user]]
  <2>1. t.op \in {"update", "delete", "reset"} /\ t.user \in Users
    BY <1>1, <1>3 DEF Select, At, Shape
  <2>2. at \in Task /\ at.op = t.op /\ at.form = t.form
    BY <1>1, <2>1 DEF Task, TypeInv
  <2>3. Set(h, [at EXCEPT !.step =
            CASE at.op = "update" -> "checking"
              [] at.op = "delete" -> AfterCheck(at)
              [] at.op = "reset"  -> "saving"])
    BY <1>3 DEF Selected
  <2> HIDE DEF at
  <2>4. PICK s \in Steps : Set(h, [at EXCEPT !.step = s])
    BY <2>1, <2>2, <2>3 DEF AfterCheck, Steps
  <2>5. QED  BY <2>2, <2>4 DEF Task
<1>4. CASE SelectConfigured(h)
  <2>1. CASE GoTo(h, "saving")
    BY <1>2, <2>1 DEF GoTo, Steps
  <2>2. ASSUME NEW u \in Users,
               Set(h, [t EXCEPT !.step = "saving", !.user = u,
                                !.selected = row[u]])
        PROVE  \E new \in Task : /\ Set(h, new) /\ new.op = t.op
                                 /\ new.form = t.form
    <3> DEFINE new == [t EXCEPT !.step = "saving", !.user = u,
                                !.selected = row[u]]
    <3>1. new \in Task
      BY <1>1 DEF Task, TypeInv, Steps
    <3>2. new.op = t.op /\ new.form = t.form
      BY <1>1 DEF Task
    <3>3. QED  BY <2>2, <3>1, <3>2
  <2>3. QED  BY <1>4, <2>1, <2>2 DEF SelectConfigured, Complete
<1>5. CASE CheckName(h)
  BY <1>2, <1>5 DEF CheckName, GoTo, AfterCheck, Steps
<1>9. CASE CountAdmins(h)
  <2> DEFINE new == [t EXCEPT !.step = "saving", !.admins = Cardinality(EnabledAdmins)]
  <2>1. new \in Task /\ new.op = t.op /\ new.form = t.form
    BY <1>1, CountType DEF Task, Steps
  <2>2. Set(h, Idle) \/ Set(h, new)
    BY <1>9 DEF CountAdmins
  <2>3. QED  BY <2>1, <2>2
<1>6. CASE Break(h) /\ Again(h)
  <2> DEFINE new == [t EXCEPT !.step = FirstStep(t.op), !.selected = NoRow,
                              !.user = IF t.op = "ensure" THEN NoUser ELSE @,
                              !.admins = 0, !.tries = @ + 1]
  <2>1. new \in Task
    <3>1. t.tries \in Nat /\ t.tries + 1 \in Nat
      BY <1>1 DEF Task
    <3>2. QED  BY <1>1, <3>1, ConstantTypes DEF Task, FirstStep, Steps
  <2>2. new.op = t.op /\ new.form = t.form
    BY <1>1 DEF Task
  <2>3. Set(h, new)
    BY <1>6 DEF Again
  <2>4. QED  BY <2>1, <2>2, <2>3
<1>7. QED
  BY <1>3, <1>4, <1>5, <1>6, <1>9 DEF Run, Select, Save, Complete, Break

(* A save over a row it selected, column by column.                        *)
LEMMA SavedColumns ==
  ASSUME TypeInv, SoloInv, NameInv, Calm, NEW h \in Handlers, At(h, "saving"),
         task[h].user # NoUser
  PROVE  LET t == task[h]
             r == row[t.user]
             new == Result(r, t)
         IN  /\ t.user \in Users /\ r \in Row /\ r # NoRow /\ r.name \in Names
             /\ t.op \in {"update", "delete", "reset", "ensure"}
             /\ t.op = "update" =>
                   /\ t.form \in Forms
                   /\ new = [r EXCEPT !.name = t.form.name,
                                      !.roles = t.form.roles,
                                      !.disabled = t.form.disabled]
             /\ t.op = "delete" => new = NoRow
             /\ t.op = "reset" => /\ t.form.password \in Passwords
                                  /\ new = [r EXCEPT !.password = t.form.password]
             /\ t.op = "ensure" => /\ r.name = configured /\ r.seeded
                                   /\ new = BuiltIn(configured)
<1> DEFINE t == task[h]
           r == row[t.user]
           new == Result(r, t)
<1>1. /\ t \in Task /\ Shape(t) /\ Locals(t) /\ Configured(t) /\ Asked(t)
      /\ t.user \in Users /\ r = t.selected /\ r \in Row
  BY SavedRow DEF TypeInv, SoloInv, NameInv, Shaped, Task
<1>2. t.op \in {"update", "delete", "reset", "ensure"} /\ r # NoRow
  BY <1>1 DEF Shape, Task, Ops, At
<1>3. r.name \in Names
  BY <1>1, <1>2 DEF NameInv, NamedRows, Row
<1>4. CASE t.op = "update"
  <2>1. new = Edited(r, t)
    BY <1>4 DEF Result
  <2>2. /\ Column(r.name, t.selected.name, t.form.name) = t.form.name
        /\ Column(r.roles, t.selected.roles, t.form.roles) = t.form.roles
        /\ Column(r.disabled, t.selected.disabled, t.form.disabled)
              = t.form.disabled
    BY <1>1 DEF Column
  <2>3. new = [r EXCEPT !.name = t.form.name, !.roles = t.form.roles,
                        !.disabled = t.form.disabled]
    BY <2>1, <2>2 DEF Edited
  <2>4. QED  BY <1>1, <1>2, <1>3, <1>4, <2>3 DEF Asked
<1>5. CASE t.op = "delete"
  BY <1>1, <1>2, <1>3, <1>5 DEF Result
<1>6. CASE t.op = "reset"
  <2>1. new = [r EXCEPT !.password = t.form.password]
    BY <1>6 DEF Result
  <2>2. t.form.password \in Passwords
    BY <1>1 DEF Task, Row
  <2>3. QED  BY <1>1, <1>2, <1>3, <1>6, <2>1, <2>2
<1>7. CASE t.op = "ensure"
  <2>1. new = BuiltIn(configured)
    BY <1>7, SavedRow
  <2>2. r.name = configured /\ r.seeded
    BY <1>1, <1>7 DEF Locals
  <2>3. QED  BY <1>1, <1>2, <1>3, <1>7, <2>1, <2>2
<1>8. QED  BY <1>2, <1>4, <1>5, <1>6, <1>7

(* A write puts one row in place of another, under a name that is free.    *)
Replaces(u, new) ==
  /\ u \in Users /\ new \in Row
  /\ row' = [row EXCEPT ![u] = new]
  /\ new = NoRow \/ (new.name \in Names /\ ~Taken(new.name, u))

LEMMA WriteReplaces ==
  ASSUME TypeInv, SoloInv, NameInv, Calm, NEW h \in Handlers, At(h, "saving"),
         Write(task[h])
  PROVE  LET t == task[h]
         IN  \/ /\ Inserts(t) /\ t.op \in {"create", "ensure"}
                /\ t.form.name \in Names /\ ~Taken(t.form.name, NoUser)
                /\ \E u \in Users : row[u] = NoRow /\ Replaces(u, t.form)
             \/ /\ ~Inserts(t)
                /\ Replaces(t.user, Result(row[t.user], t))
<1> DEFINE t == task[h]
           new == Result(row[t.user], t)
<1>1. t \in Shaped /\ t.form \in Row /\ Configured(t) /\ Asked(t)
  BY DEF TypeInv, NameInv, Shaped, Task
<1>2. CASE Inserts(t)
  <2>1. t.op \in {"create", "ensure"}
    BY <1>1, <1>2, UsersAssumption DEF Inserts, Shaped, Shape, Task, Ops, At
  <2>2. t.form.name \in Names
    BY <1>1, <2>1, FormRows DEF Asked, Configured, TypeInv
  <2>3. ~Taken(t.form.name, NoUser)
    BY <1>2 DEF Write, Savable
  <2>4. \A u \in Users : ~Taken(t.form.name, u)
    BY <2>3, UsersAssumption DEF Taken
  <2>5. PICK u \in Users : row[u] = NoRow /\ row' = [row EXCEPT ![u] = t.form]
    BY <1>2 DEF Write
  <2>6. QED  BY <1>1, <1>2, <2>1, <2>2, <2>3, <2>4, <2>5 DEF Replaces
<1>3. CASE ~Inserts(t)
  <2>1. t.user # NoUser
    BY <1>3 DEF Inserts
  <2>2. /\ t.user \in Users /\ row[t.user] \in Row /\ row[t.user].name \in Names
        /\ t.op \in {"update", "delete", "reset", "ensure"}
    BY <2>1, SavedColumns
  <2>3. new \in Row
    BY <1>1, <2>2, ResultType
  <2>4. row' = [row EXCEPT ![t.user] = new]
    BY <1>3 DEF Write
  <2>5. new = NoRow \/ ~Taken(new.name, t.user)
    BY <1>3 DEF Write, Savable
  <2>6. new = NoRow \/ new.name \in Names
    <3>1. CASE t.op = "update"
      <4>1. t.form.name \in Names
        BY <2>1, <3>1, SavedColumns, FormRows
      <4>2. new = [row[t.user] EXCEPT !.name = t.form.name,
                                      !.roles = t.form.roles,
                                      !.disabled = t.form.disabled]
        BY <2>1, <3>1, SavedColumns
      <4>3. QED  BY <2>2, <4>1, <4>2 DEF Row
    <3>2. CASE t.op = "delete"
      BY <2>1, <3>2, SavedColumns
    <3>3. CASE t.op = "reset"
      <4>1. new = [row[t.user] EXCEPT !.password = t.form.password]
        BY <2>1, <3>3, SavedColumns
      <4>2. QED  BY <2>2, <4>1 DEF Row
    <3>4. CASE t.op = "ensure"
      <4>1. new = BuiltIn(configured) /\ configured \in Names
        BY <2>1, <2>2, <3>4, SavedColumns
      <4>2. QED  BY <4>1, FormRows
    <3>5. QED  BY <2>2, <3>1, <3>2, <3>3, <3>4
  <2>7. QED  BY <1>3, <2>2, <2>3, <2>4, <2>5, <2>6 DEF Replaces
<1>4. QED  BY <1>2, <1>3

LEMMA ReplaceKeepsNames ==
  ASSUME TypeInv, NamedRows, UniqueNames, NEW u, NEW new, Replaces(u, new)
  PROVE  NamedRows' /\ UniqueNames'
<1>1. /\ u \in Users /\ row'[u] = new
      /\ \A v \in Users \ {u} : row'[v] = row[v]
  BY DEF Replaces, TypeInv
<1>2. NamedRows'
  BY <1>1, NamesAssumption DEF Replaces, NamedRows
<1>3. \A v \in Users \ {u} : new.name # NoName => row[v].name # new.name
  BY ConstantTypes DEF Replaces, Taken
<1>4. UniqueNames'
  BY <1>1, <1>3 DEF UniqueNames
<1>5. QED  BY <1>2, <1>4

LEMMA NameInvNext ==
  ~Overlap /\ TypeInv /\ SoloInv /\ NameInv /\ [Next]_vars => NameInv'
<1>1. SUFFICES ASSUME ~Overlap, TypeInv, SoloInv, NameInv, [Next]_vars
               PROVE  NameInv'
  OBVIOUS
<1>2. NamedRows' /\ UniqueNames'
  <2>1. CASE row' = row
    BY <1>1, <2>1 DEF NameInv, NamedRows, UniqueNames
  <2>2. ASSUME NEW h \in Handlers, At(h, "saving"), Write(task[h])
        PROVE  NamedRows' /\ UniqueNames'
    <3>1. \E u, new : Replaces(u, new)
      BY <1>1, <2>2, WriteReplaces DEF Calm
    <3>2. QED  BY <1>1, <3>1, ReplaceKeepsNames DEF NameInv
  <2>3. QED  BY <1>1, <2>1, <2>2, WhoWrites
<1>3. \A h \in Handlers : Asked(task'[h])
  <2>1. CASE \E h \in Handlers : Start(h)
    BY <1>1, <2>1, StartAsks
  <2>2. ASSUME NEW h \in Handlers, Run(h)
        PROVE  \A g \in Handlers : Asked(task'[g])
    <3>1. ASSUME NEW t, Set(h, t)
          PROVE  task'[h] = t /\ \A g \in Handlers \ {h} : task'[g] = task[g]
      BY <1>1, <3>1 DEF Set, TypeInv
    <3>2. Asked(task'[h])
      BY <1>1, <2>2, <3>1, RunKeepsForm, ConstantTypes DEF NameInv, Asked
    <3>3. \A g \in Handlers \ {h} : task'[g] = task[g]
      BY <2>2, <1>1, <3>1, RunKeepsForm
    <3>4. QED  BY <1>1, <3>2, <3>3 DEF NameInv
  <2>3. CASE StartWithout \/ UNCHANGED vars
    BY <1>1, <2>3 DEF StartWithout, vars, NameInv
  <2>4. CASE Restart
    BY <2>4, ConstantTypes DEF Restart, Asked
  <2>5. QED  BY <1>1, <2>1, <2>2, <2>3, <2>4 DEF Next
<1>4. QED  BY <1>2, <1>3 DEF NameInv, Asked

-----------------------------------------------------------------------------
(* The directory that the rows stand for.                                  *)

Entry(r) == [password |-> r.password, roles |-> r.roles,
             disabled |-> r.disabled, seeded |-> r.seeded]

LEMMA EntryEdited ==
  ASSUME NEW r, NEW roles, NEW disabled
  PROVE  [Entry(r) EXCEPT !.roles = roles, !.disabled = disabled]
             = [password |-> r.password, roles |-> roles,
                disabled |-> disabled, seeded |-> r.seeded]
<1>1. [Entry(r) EXCEPT !.roles = roles]
          = [password |-> r.password, roles |-> roles,
             disabled |-> r.disabled, seeded |-> r.seeded]
  BY DEF Entry
<1>2. [[password |-> r.password, roles |-> roles,
        disabled |-> r.disabled, seeded |-> r.seeded] EXCEPT !.disabled = disabled]
          = [password |-> r.password, roles |-> roles,
             disabled |-> disabled, seeded |-> r.seeded]
  OBVIOUS
<1>3. QED  BY <1>1, <1>2, Zenon

(* Names being unique, an account is the row of its name.                  *)
LEMMA AccountsAre ==
  ASSUME UniqueNames, NEW n \in Names
  PROVE  /\ \A u \in Users : row[u].name = n => Accounts[n] = {Entry(row[u])}
         /\ ~Taken(n, NoUser) => Accounts[n] = {}
<1>1. ASSUME NEW u \in Users, row[u].name = n
      PROVE  Accounts[n] = {Entry(row[u])}
  <2>1. u \in NameHolder(n) /\ NameHolder(n) = {u}
    BY <1>1, NamesAssumption DEF UniqueNames, NameHolder
  <2>2. (CHOOSE v \in NameHolder(n) : TRUE) = u
    BY <2>1
  <2>3. AccountOf(n) = Entry(row[u])
    BY <2>2 DEF AccountOf, Entry
  <2>4. QED  BY <2>1, <2>3 DEF Accounts
<1>2. ASSUME ~Taken(n, NoUser) PROVE Accounts[n] = {}
  BY <1>2, UsersAssumption DEF Accounts, NameHolder, Taken
<1>3. QED  BY <1>1, <1>2

(* What replacing a row does to the directory.                             *)
LEMMA ReplaceMaps ==
  ASSUME TypeInv, NamedRows, UniqueNames, NEW u, NEW new, Replaces(u, new),
         NEW n \in Names
  PROVE  Accounts'[n] = IF new.name = n THEN {Entry(new)}
                        ELSE IF row[u].name = n THEN {} ELSE Accounts[n]
<1>1. /\ u \in Users /\ row'[u] = new
      /\ \A v \in Users \ {u} : row'[v] = row[v]
  BY DEF Replaces, TypeInv
<1>2. UniqueNames'
  BY ReplaceKeepsNames
<1>3. /\ \A v \in Users : row'[v].name = n => Accounts'[n] = {Entry(row'[v])}
      /\ (\A v \in Users : row'[v].name # n) => Accounts'[n] = {}
  <2>1. ASSUME NEW v \in Users, row'[v].name = n
        PROVE  Accounts'[n] = {Entry(row'[v])}
    <3>1. NameHolder(n)' = {v}
      BY <1>2, <2>1, NamesAssumption DEF UniqueNames, NameHolder
    <3>2. (CHOOSE w \in NameHolder(n)' : TRUE) = v
      BY <3>1
    <3>3. AccountOf(n)' = Entry(row'[v])
      BY <3>2 DEF AccountOf, Entry
    <3>4. QED  BY <3>1, <3>3 DEF Accounts
  <2>2. ASSUME \A v \in Users : row'[v].name # n PROVE Accounts'[n] = {}
    BY <2>2 DEF Accounts, NameHolder
  <2>3. QED  BY <2>1, <2>2
<1>4. CASE new.name = n
  BY <1>1, <1>3, <1>4
<1>5. CASE new.name # n /\ row[u].name = n
  <2>1. \A v \in Users : row'[v].name # n
    BY <1>1, <1>5, NamesAssumption DEF UniqueNames
  <2>2. QED  BY <1>3, <1>5, <2>1
<1>6. CASE new.name # n /\ row[u].name # n
  <2>1. CASE \E v \in Users : row[v].name = n
    <3>1. PICK v \in Users : row[v].name = n
      BY <2>1
    <3>2. row'[v] = row[v]
      BY <1>1, <1>6, <3>1
    <3>3. Accounts[n] = {Entry(row[v])}
      BY <3>1, AccountsAre
    <3>4. Accounts'[n] = {Entry(row'[v])}
      BY <1>3, <3>1, <3>2
    <3>5. QED  BY <1>6, <3>2, <3>3, <3>4
  <2>2. CASE \A v \in Users : row[v].name # n
    <3>1. Accounts[n] = {}
      BY <2>2, AccountsAre DEF Taken
    <3>2. \A v \in Users : row'[v].name # n
      BY <1>1, <1>6, <2>2
    <3>3. QED  BY <1>3, <1>6, <3>1, <3>2
  <2>3. QED  BY <2>1, <2>2
<1>7. QED  BY <1>4, <1>5, <1>6

LEMMA DirectoryAdmin ==
  TypeInv /\ NamedRows /\ UniqueNames =>
      (Directory!HasAdmin(Accounts) <=> EnabledAdmins # {})
<1> SUFFICES ASSUME TypeInv, NamedRows, UniqueNames
             PROVE  Directory!HasAdmin(Accounts) <=> EnabledAdmins # {}
  OBVIOUS
<1>1. ASSUME NEW u \in Users, EnabledAdmin(row[u])
      PROVE  Directory!HasAdmin(Accounts)
  <2>1. row[u].name \in Names
    BY <1>1, ConstantTypes DEF TypeInv, NamedRows, Row
  <2>2. Accounts[row[u].name] = {Entry(row[u])}
    BY <2>1, AccountsAre
  <2>3. /\ Entry(row[u]) \in Accounts[row[u].name]
        /\ "Admin" \in Entry(row[u]).roles /\ ~Entry(row[u]).disabled
    BY <1>1, <2>2 DEF EnabledAdmin, Entry
  <2>4. QED  BY <2>1, <2>3 DEF Directory!HasAdmin
<1>2. ASSUME Directory!HasAdmin(Accounts) PROVE \E u \in Users : EnabledAdmin(row[u])
  <2>1. PICK n \in Names : \E a \in Accounts[n] : "Admin" \in a.roles /\ ~a.disabled
    BY <1>2 DEF Directory!HasAdmin
  <2>2. PICK u \in Users : row[u].name = n
    BY <2>1 DEF Accounts, NameHolder
  <2>3. Accounts[n] = {Entry(row[u])}
    BY <2>2, AccountsAre
  <2>4. QED  BY <2>1, <2>3 DEF EnabledAdmin, Entry
<1>3. QED  BY <1>1, <1>2 DEF EnabledAdmins

(* A write makes the directory what one of its operations makes it.        *)
LEMMA BecomesFollows ==
  ASSUME TypeInv, TypeInv', NameInv, NameInv', NEW f, Accounts' = f,
         EnabledAdmins # {} => EnabledAdmins' # {}
  PROVE  Directory!Becomes(f)
<1>1. Directory!HasAdmin(Accounts) <=> EnabledAdmins # {}
  BY DirectoryAdmin DEF NameInv
<1>2. (Directory!HasAdmin(Accounts) <=> EnabledAdmins # {})'
  BY DirectoryAdmin, PTL DEF NameInv
<1>3. Directory!HasAdmin(Accounts)' <=> Directory!HasAdmin(f)
  BY DEF Directory!HasAdmin
<1>4. QED  BY <1>1, <1>2, <1>3 DEF Directory!Becomes

LEMMA InsertMaps ==
  ASSUME TypeInv, SoloInv, NameInv, TypeInv', NameInv', ~Overlap,
         NEW h \in Handlers, At(h, "saving"), Write(task[h]), Inserts(task[h])
  PROVE  Directory!Next
<1> DEFINE t == task[h]
           n == t.form.name
<1>1. /\ t.op \in {"create", "ensure"} /\ n \in Names /\ ~Taken(n, NoUser)
  BY WriteReplaces DEF Calm
<1>2. PICK u \in Users : row[u] = NoRow /\ Replaces(u, t.form)
  BY WriteReplaces DEF Calm
<1>3. Accounts[n] = {}
  BY <1>1, AccountsAre DEF NameInv
<1>4. Accounts' = [Accounts EXCEPT ![n] = {Entry(t.form)}]
  <2>1. ASSUME NEW m \in Names
        PROVE  Accounts'[m] = IF m = n THEN {Entry(t.form)} ELSE Accounts[m]
    <3>1. row[u].name # m
      BY <1>2, ConstantTypes, NamesAssumption
    <3>2. NamedRows /\ UniqueNames
      BY DEF NameInv
    <3>3. Accounts'[m] = IF n = m THEN {Entry(t.form)}
                         ELSE IF row[u].name = m THEN {} ELSE Accounts[m]
      BY <1>2, <3>2, ReplaceMaps, ZenonT(60)
    <3>4. QED  BY <3>1, <3>3
  <2>2. QED  BY <1>1, <2>1 DEF Accounts
<1>5. Directory!Becomes([Accounts EXCEPT ![n] = {Entry(t.form)}])
  BY <1>4, BecomesFollows, SerialKeepsAdmin
<1>6. CASE t.op = "create"
  <2>1. t.form \in Forms
    BY <1>6 DEF NameInv, Asked
  <2>2. Entry(t.form) \in Directory!Account /\ ~Entry(t.form).seeded
    BY <2>1 DEF Forms, Entry, Directory!Account
  <2>3. Directory!Add(n)
    BY <1>3, <1>5, <2>2 DEF Directory!Add
  <2>4. QED  BY <1>1, <2>3 DEF Directory!Next
<1>7. CASE t.op = "ensure"
  <2>1. Entry(t.form) = Directory!BuiltInAccount
    <3>1. t.form = BuiltIn(configured)
      BY <1>7 DEF TypeInv, Configured
    <3>2. QED  BY <3>1 DEF BuiltIn, Entry, Directory!BuiltInAccount
  <2>2. Directory!Restore(n)
    BY <1>3, <1>5, <2>1 DEF Directory!Restore
  <2>3. QED  BY <1>1, <2>2 DEF Directory!Next
<1>8. QED  BY <1>1, <1>6, <1>7

LEMMA SaveMaps ==
  ASSUME TypeInv, SoloInv, NameInv, TypeInv', NameInv', ~Overlap,
         NEW h \in Handlers, At(h, "saving"), Write(task[h]), ~Inserts(task[h])
  PROVE  Directory!Next
<1> DEFINE t == task[h]
           r == row[t.user]
           new == Result(r, t)
           n == r.name
           a == Entry(r)
<1>1. /\ t.user \in Users /\ r \in Row /\ n \in Names
      /\ t.op \in {"update", "delete", "reset", "ensure"}
  BY SavedColumns DEF Calm, Inserts
<1>2. Replaces(t.user, new)
  BY WriteReplaces DEF Calm
<1>3. Accounts[n] = {a}
  BY <1>1, AccountsAre DEF NameInv
<1>4. \A m \in Names :
          Accounts'[m] = IF new.name = m THEN {Entry(new)}
                         ELSE IF n = m THEN {} ELSE Accounts[m]
  BY <1>2, ReplaceMaps DEF NameInv
<1>5. ASSUME NEW f, Accounts' = f PROVE Directory!Becomes(f)
  BY <1>5, BecomesFollows, SerialKeepsAdmin
<1>6. Accounts' = [m \in Names |-> Accounts'[m]]
  BY DEF Accounts
<1>7. DOMAIN Accounts = Names
  BY DEF Accounts
<1>8. CASE t.op = "update"
  <2> DEFINE m == t.form.name
             b == [a EXCEPT !.roles = t.form.roles, !.disabled = t.form.disabled]
             f == [Accounts EXCEPT ![n] = {}, ![m] = {b}]
  <2>1. /\ t.form \in Forms
        /\ new = [r EXCEPT !.name = m, !.roles = t.form.roles,
                           !.disabled = t.form.disabled]
    BY <1>8, SavedColumns DEF Calm, Inserts
  <2>2. m \in Names /\ new.name = m /\ Entry(new) = b
    <3>1. m \in Names
      BY <2>1, FormRows
    <3>2. /\ new.name = m /\ new.password = r.password /\ new.seeded = r.seeded
          /\ new.roles = t.form.roles /\ new.disabled = t.form.disabled
      BY <1>1, <2>1 DEF Row
    <3>3. Entry(new) = b
      <4>1. Entry(new) = [password |-> r.password, roles |-> t.form.roles,
                          disabled |-> t.form.disabled, seeded |-> r.seeded]
        BY <3>2 DEF Entry
      <4>2. b = [password |-> r.password, roles |-> t.form.roles,
                 disabled |-> t.form.disabled, seeded |-> r.seeded]
        BY EntryEdited, ZenonT(60)
      <4>3. QED  BY <4>1, <4>2
    <3>4. QED  BY <3>1, <3>2, <3>3
  <2>3. Accounts' = f
    <3> DEFINE value(k) == IF k = m THEN {b} ELSE IF k = n THEN {} ELSE Accounts[k]
    <3>1. ASSUME NEW k \in Names PROVE Accounts'[k] = value(k)
      BY <1>4, <2>2
    <3>2. Accounts' = [k \in Names |-> value(k)]
      BY <1>6, <3>1
    <3>3. f = [k \in Names |-> value(k)]
      BY <1>7 DEF Accounts
    <3>4. QED  BY <3>2, <3>3
  <2>4. m = n \/ Accounts[m] = {}
    <3>1. SUFFICES ASSUME m # n PROVE Accounts[m] = {}
      OBVIOUS
    <3>2. ~Taken(m, t.user)
      BY <1>2, <2>2, NamesAssumption, ConstantTypes DEF Replaces
    <3>3. ~Taken(m, NoUser)
      BY <3>1, <3>2, UsersAssumption DEF Taken
    <3>4. QED  BY <2>2, <3>3, AccountsAre DEF NameInv
  <2>5. /\ t.form.roles \in {NormalizeRoles(c) : c \in RoleChoices}
        /\ t.form.disabled \in BOOLEAN
    BY <2>1 DEF Forms
  <2>6. Directory!Becomes(f)
    BY <1>5, <2>3
  <2>7. Directory!Change(n, m)
    BY <1>3, <2>4, <2>5, <2>6 DEF Directory!Change
  <2>8. QED  BY <1>1, <2>2, <2>7 DEF Directory!Next
<1>9. CASE t.op = "delete"
  <2>1. new = NoRow /\ new.name \notin Names
    BY <1>9, SavedColumns, ConstantTypes, NamesAssumption DEF Calm, Inserts
  <2>2. Accounts' = [Accounts EXCEPT ![n] = {}]
    BY <1>4, <1>6, <1>7, <2>1 DEF Accounts
  <2>3. Directory!Remove(n)
    BY <1>5, <2>2 DEF Directory!Remove
  <2>4. QED  BY <1>1, <2>3 DEF Directory!Next
<1>10. CASE t.op = "reset"
  <2> DEFINE b == [a EXCEPT !.password = t.form.password]
  <2>1. /\ t.form.password \in Passwords
        /\ new = [r EXCEPT !.password = t.form.password]
    BY <1>10, SavedColumns DEF Calm, Inserts
  <2>2. new.name = n /\ Entry(new) = b
    BY <1>1, <2>1 DEF Row, Entry
  <2>3. Accounts' = [Accounts EXCEPT ![n] = {b}]
    BY <1>4, <1>6, <1>7, <2>2 DEF Accounts
  <2>4. Directory!Becomes([Accounts EXCEPT ![n] = {b}])
    BY <1>5, <2>3
  <2>5. Directory!SetPassword(n)
    BY <1>3, <2>1, <2>4 DEF Directory!SetPassword
  <2>6. QED  BY <1>1, <2>5 DEF Directory!Next
<1>11. CASE t.op = "ensure"
  <2>1. n = configured /\ r.seeded /\ new = BuiltIn(configured)
    BY <1>11, SavedColumns DEF Calm, Inserts
  <2>2. new.name = n /\ Entry(new) = Directory!BuiltInAccount /\ a.seeded
    BY <2>1 DEF BuiltIn, Entry, Directory!BuiltInAccount
  <2>3. Accounts' = [Accounts EXCEPT ![n] = {Directory!BuiltInAccount}]
    <3>1. \A m \in Names :
              Accounts'[m] = IF n = m THEN {Directory!BuiltInAccount}
                             ELSE Accounts[m]
      BY <1>4, <2>2
    <3>2. QED  BY <1>6, <1>7, <3>1 DEF Accounts
  <2>4. Directory!Becomes([Accounts EXCEPT ![n] = {Directory!BuiltInAccount}])
    BY <1>5, <2>3
  <2>5. Directory!Restore(n)
    BY <1>3, <2>2, <2>4 DEF Directory!Restore
  <2>6. QED  BY <1>1, <2>5 DEF Directory!Next
<1>12. QED  BY <1>1, <1>8, <1>9, <1>10, <1>11

LEMMA DirectoryStep ==
  ~Overlap /\ TypeInv /\ SoloInv /\ NameInv /\ [Next]_vars
      => [Directory!Next]_Accounts
<1>1. SUFFICES ASSUME ~Overlap, TypeInv, SoloInv, NameInv, [Next]_vars
               PROVE  [Directory!Next]_Accounts
  OBVIOUS
<1>2. TypeInv' /\ NameInv'
  BY <1>1, TypeInvNext, NameInvNext
<1>3. CASE row' = row
  BY <1>3 DEF Accounts, NameHolder, AccountOf
<1>4. ASSUME NEW h \in Handlers, At(h, "saving"), Write(task[h])
      PROVE  Directory!Next
  BY <1>1, <1>2, <1>4, InsertMaps, SaveMaps
<1>5. QED  BY <1>1, <1>3, <1>4, WhoWrites

(* When operations do not overlap, each has the effect of one atomic       *)
(* operation of UserDirectory, once or not at all, for any number of       *)
(* accounts, retries, lost answers and restarts under any configuration.   *)
THEOREM ImplementsDirectory == ASSUME ~Overlap PROVE Spec => DirectorySpec
<1>1. Init => Directory!Init
  BY ConstantTypes, NamesAssumption
  DEF Init, Directory!Init, Accounts, NameHolder
<1>2. QED
  BY <1>1, TypeInvInit, TypeInvNext, SoloInvInit, SoloInvNext, NameInvInit,
     NameInvNext, DirectoryStep, PTL
  DEF Spec, DirectorySpec, Directory!Spec
=============================================================================
