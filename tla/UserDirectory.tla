--------------------------- MODULE UserDirectory ---------------------------
(***************************************************************************)
(* What the administration of local accounts promises, one atomic step per *)
(* operation (UsersController, FEATURES.md:57): an account is known by its *)
(* name, which no other has; nobody takes the last enabled administrator   *)
(* away; the built-in administrator is added or restored when the          *)
(* application starts, but never takes an account over.                    *)
(***************************************************************************)
EXTENDS Integers

CONSTANTS
    Names,              \* the names an account may have
    RoleSets,           \* the sets of roles an account may be given
    Passwords,          \* password hashes
    ConfiguredPassword  \* that of the built-in administrator

VARIABLE
    account     \* account[n]: the set of the account named n, or {}

Account == [password: Passwords, roles: RoleSets, disabled: BOOLEAN,
            seeded: BOOLEAN]

BuiltInAccount == [password |-> ConfiguredPassword, roles |-> {"Admin", "User"},
                   disabled |-> FALSE, seeded |-> TRUE]

HasAdmin(accounts) ==
    \E n \in Names : \E a \in accounts[n] : "Admin" \in a.roles /\ ~a.disabled

Becomes(accounts) ==
    /\ HasAdmin(account) => HasAdmin(accounts)
    /\ account' = accounts

Add(n) ==
    /\ account[n] = {}
    /\ \E a \in Account : ~a.seeded /\ Becomes([account EXCEPT ![n] = {a}])

(* The edit of an account, under its name or a new one.                    *)
Change(n, m) ==
    /\ m = n \/ account[m] = {}
    /\ \E a \in account[n], roles \in RoleSets, disabled \in BOOLEAN :
          Becomes([account EXCEPT
              ![n] = {},
              ![m] = {[a EXCEPT !.roles = roles, !.disabled = disabled]}])

SetPassword(n) ==
    \E a \in account[n], p \in Passwords :
        Becomes([account EXCEPT ![n] = {[a EXCEPT !.password = p]}])

Remove(n) == Becomes([account EXCEPT ![n] = {}])

Restore(n) ==
    /\ \A a \in account[n] : a.seeded
    /\ Becomes([account EXCEPT ![n] = {BuiltInAccount}])

Init == account = [n \in Names |-> {}]

Next ==
    \E n \in Names :
        \/ Add(n) \/ SetPassword(n) \/ Remove(n) \/ Restore(n)
        \/ \E m \in Names : Change(n, m)

Spec == Init /\ [][Next]_account
=============================================================================
