-------------------------------- MODULE Accounts --------------------------------
(***************************************************************************)
(* The accounts of an organisation and the administrators' requests that   *)
(* change them (routes/admin.ts, db/userRepository.ts,                     *)
(* middleware/requireRole.ts, scripts/seed-admin.mjs).                     *)
(*                                                                         *)
(* A request is authorised, its body is awaited, and then its handler runs *)
(* to the end without an await: what it was authorised by may have changed *)
(* meanwhile, the actor's own account included.                            *)
(***************************************************************************)
EXTENDS Naturals

CONSTANTS
    Users,  \* email addresses, one account each
    Calls   \* requests under way together

VARIABLES
    users,  \* row of each address; status "none" is no row
    calls   \* authorised requests whose body is awaited

acctVars == <<users, calls>>

\* support and readonly are user here: nothing asks for them.
Roles == {"user", "admin"}
Statuses == {"active", "suspended", "deleted"}
Row(status, role) == [status |-> status, role |-> role]
NoRow == Row("none", "user")

\* What CreateUserSchema, UpdateRoleSchema, UpdateStatusSchema and the parsed
\* sheet of an import may ask for.
Bodies ==
    [kind : {"role"}, of : Users, value : Roles]
        \cup [kind : {"status"}, of : Users, value : Statuses]
        \cup [kind : {"create"}, of : Users, value : Roles]
        \cup [kind : {"import"}, of : SUBSET Users, value : Roles]

NoCallYet == [by |-> "nobody"]

\* requireRole("admin")
MayAdminister(u) == users[u] = Row("active", "admin")

\* MUTANT: administrators are counted whatever their status.
OthersOfAnyStatus(u) == \E v \in Users \ {u} : users[v].role = "admin" /\ users[v].status # "none"

\* assertNotLastActiveAdmin
OthersRemain(u) == \E v \in Users \ {u} : MayAdminister(v)

\* A change of an active administrator to anything else, checked in the
\* transaction that writes it.
MayBecome(u, row) ==
    users[u].status # "none" /\ (MayAdminister(u) /\ row # users[u] => OthersRemain(u))

\* An address without an account, or whose account is deleted, is provisioned.
Free(u) == users[u].status \in {"none", "deleted"}

AcctInit ==
    /\ users \in [Users -> {NoRow} \cup [status : Statuses, role : Roles]]
    /\ \E u \in Users : MayAdminister(u)
    /\ calls = [c \in Calls |-> NoCallYet]

-----------------------------------------------------------------------------

Authorize(c) ==
    /\ calls[c] = NoCallYet
    /\ \E u \in Users, b \in Bodies :
         MayAdminister(u) /\ calls' = [calls EXCEPT ![c] = [by |-> u, body |-> b]]
    /\ UNCHANGED users

\* The handler returns; a body that is invalid, a missing account, a refusal
\* and a failing write leave the table alone.
Done(c) == calls' = [calls EXCEPT ![c] = NoCallYet]

Refused(c) ==
    /\ calls[c] # NoCallYet
    /\ Done(c) /\ UNCHANGED users

\* PATCH /users/:id/role
PatchRole(c) ==
    /\ calls[c] # NoCallYet /\ calls[c].body.kind = "role"
    /\ LET asked == calls[c].body
           row == [users[asked.of] EXCEPT !.role = asked.value]
       IN  MayBecome(asked.of, row) /\ users' = [users EXCEPT ![asked.of] = row]
    /\ Done(c)

\* PATCH /users/:id/status; nobody deactivates the own account.
PatchStatus(c) ==
    /\ calls[c] # NoCallYet /\ calls[c].body.kind = "status"
    /\ LET asked == calls[c].body
           row == [users[asked.of] EXCEPT !.status = asked.value]
       IN  /\ asked.of = calls[c].by => asked.value = "active"
           /\ MayBecome(asked.of, row) /\ users' = [users EXCEPT ![asked.of] = row]
    /\ Done(c)

\* POST /users
CreateUser(c) ==
    /\ calls[c] # NoCallYet /\ calls[c].body.kind = "create"
    /\ Free(calls[c].body.of)
    /\ users' = [users EXCEPT ![calls[c].body.of] = Row("active", calls[c].body.value)]
    /\ Done(c)

\* POST /users/import: what is free is provisioned, in one transaction.
Import(c) ==
    /\ calls[c] # NoCallYet /\ calls[c].body.kind = "import"
    /\ users' = [u \in Users |-> IF u \in calls[c].body.of /\ Free(u)
                                 THEN Row("active", calls[c].body.value) ELSE users[u]]
    /\ Done(c)

\* seed-admin.mjs, a process of its own.
SeedAdmin(u) ==
    /\ users[u] = NoRow
    /\ users' = [users EXCEPT ![u] = Row("active", "admin")]
    /\ UNCHANGED calls

AcctNext ==
    \/ \E c \in Calls :
         Authorize(c) \/ Refused(c) \/ PatchRole(c) \/ PatchStatus(c) \/ CreateUser(c) \/ Import(c)
    \/ \E u \in Users : SeedAdmin(u)

AcctSpec == AcctInit /\ [][AcctNext]_acctVars

-----------------------------------------------------------------------------

AcctTypeOK ==
    /\ users \in [Users -> {NoRow} \cup [status : Statuses, role : Roles]]
    /\ calls \in [Calls -> {NoCallYet} \cup [by : Users, body : Bodies]]

\* Whatever requests were authorised before one another's writes, an active
\* administrator remains (db/userRepository.ts:172-180).
AdminRemains == \E u \in Users : MayAdminister(u)
=================================================================================
