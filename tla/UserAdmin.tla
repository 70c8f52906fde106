------------------------------ MODULE UserAdmin ------------------------------
(***************************************************************************)
(* Roles and bans: the handlers of internal/handlers/admin/user.go, the    *)
(* gate of internal/middleware/ban.go that lifts bans which ran out, the   *)
(* deletion of one's own account in internal/handlers/user/account.go, and *)
(* the rows of internal/models/user.go they read and write.                *)
(*                                                                         *)
(* A handler reads the target's row, decides, writes with an UPDATE that   *)
(* repeats none of its conditions, and removes the row from the user       *)
(* cache.  Each of these is a step, and other handlers run in between.     *)
(* The middleware's read of the operator's own row and the handler's read  *)
(* of the target are one step: nothing is written between them, and an     *)
(* operator who is demoted after either read has the same request under    *)
(* way.  The user cache is kept to what UserCache says of it: a row that   *)
(* the gate loads while the cache is invalidated may or may not be stored, *)
(* whoever asks meanwhile is answered with that row, and a login stores    *)
(* the row it read whatever happened since (internal/handlers/auth).       *)
(*                                                                         *)
(* A ban is its unban_at, and so is the ban in a copy of the row: each     *)
(* copy runs out at its own time.                                          *)
(***************************************************************************)
EXTENDS Naturals

CONSTANTS
    Users, Requests, NoUser,
    Horizon,                \* the last instant that is looked at, a number
    NoCopy                  \* the user cache has no copy of the row; not a number

RoleUser == 0
RoleAdmin == 1
RoleSuperAdmin == 2

NotBanned == 0
Never == Horizon + 1                \* the unban_at of a permanent ban
Bans == NotBanned .. Never

Lifting == {"unban", "auto"}
Removing == {"delete", "leave"}
Ops == Lifting \cup Removing \cup {"promote", "demote", "ban", "gate"}

VARIABLES
    present, role, ban,     \* table users: the uids that have a row, two columns
    now,                    \* the instant that unban_at is compared with
    cached,                 \* user cache: the ban in the copy of a row
    at, op, target, snap,   \* request: next step, handler, target, row it loaded
    late,                   \* history: requests about to write whose target
                            \* another request has written since they read it
    stands                  \* history: users whose ban nothing that could lift it
                            \* was under way for when its handler returned

rows   == <<present, role, ban>>
locals == <<at, op, target, snap>>
vars   == <<rows, now, cached, locals, late, stands>>

Active(b) == b > now                            \* CheckBanned
Lapsed(b) == b # NotBanned /\ ~Active(b)        \* IsBanned, but not CheckBanned

TypeOK ==
    /\ present \subseteq Users
    /\ role \in [Users -> RoleUser .. RoleSuperAdmin]
    /\ ban \in [Users -> Bans]
    /\ now \in 0 .. Horizon
    /\ cached \in [Users -> Bans \cup {NoCopy}]
    /\ at \in [Requests -> {"idle", "write", "invalidate", "store", "decide", "login"}]
    /\ op \in [Requests -> Ops]
    /\ target \in [Requests -> Users \cup {NoUser}]
    /\ snap \in [Requests -> Bans]
    /\ late \subseteq Requests
    /\ stands \subseteq Users

Init ==
    /\ present = Users
    /\ role \in [Users -> RoleUser .. RoleSuperAdmin]
    /\ ban = [u \in Users |-> NotBanned]
    /\ now = 0
    /\ cached = [u \in Users |-> NoCopy]
    /\ at = [r \in Requests |-> "idle"]
    /\ op = [r \in Requests |-> "gate"]
    /\ target = [r \in Requests |-> NoUser]
    /\ snap = [r \in Requests |-> NotBanned]
    /\ late = {}
    /\ stands = {}

Return(r) ==
    /\ at' = [at EXCEPT ![r] = "idle"]
    /\ op' = [op EXCEPT ![r] = "gate"]
    /\ target' = [target EXCEPT ![r] = NoUser]
    /\ snap' = [snap EXCEPT ![r] = NotBanned]

(***************************************************************************)
(* The handlers                                                            *)
(***************************************************************************)

\* The rights the two middlewares of the route ask of the operator.
MayAsk(o, o_op) ==
    /\ o \in present
    /\ role[o] >= IF o_op \in {"ban", "unban"} THEN RoleAdmin ELSE RoleSuperAdmin

\* Mutants: SetUserRole without its test of the ban, or of a super admin.
MayDoUnchecked(o_op, u) ==
    CASE o_op = "promote" -> role[u] = RoleUser
      [] o_op = "demote"  -> role[u] = RoleAdmin
      [] o_op \in {"ban", "delete"} -> role[u] < RoleAdmin /\ (o_op = "ban" => ~Active(ban[u]))
      [] o_op = "unban"   -> ban[u] # NotBanned

MayDoAnyRole(o_op, u) ==
    CASE o_op = "promote" -> role[u] # RoleAdmin /\ ~Active(ban[u])
      [] o_op = "demote"  -> role[u] # RoleUser
      [] o_op \in {"ban", "delete"} -> role[u] < RoleAdmin /\ (o_op = "ban" => ~Active(ban[u]))
      [] o_op = "unban"   -> ban[u] # NotBanned

\* The row of the target passes the tests of the handler, and it has
\* something to change.
MayDo(o_op, u) ==
    CASE o_op = "promote" -> role[u] = RoleUser /\ ~Active(ban[u])
      [] o_op = "demote"  -> role[u] = RoleAdmin
      [] o_op = "ban"     -> role[u] < RoleAdmin /\ ~Active(ban[u])
      [] o_op = "delete"  -> role[u] < RoleAdmin
      [] o_op = "unban"   -> ban[u] # NotBanned

\* Operator o sends a request that passes its checks; others change nothing.
Check(r, o, u, o_op) ==
    /\ at[r] = "idle"
    /\ MayAsk(o, o_op)
    /\ o # u \/ o_op = "unban"
    /\ u \in present
    /\ MayDo(o_op, u)
    /\ at' = [at EXCEPT ![r] = "write"]
    /\ op' = [op EXCEPT ![r] = o_op]
    /\ target' = [target EXCEPT ![r] = u]
    /\ UNCHANGED <<rows, now, cached, snap, late, stands>>

\* DeleteAccount: the password and the mailed code of u are right.
Leave(r, u) ==
    /\ at[r] = "idle"
    /\ u \in present
    /\ at' = [at EXCEPT ![r] = "write"]
    /\ op' = [op EXCEPT ![r] = "leave"]
    /\ target' = [target EXCEPT ![r] = u]
    /\ UNCHANGED <<rows, now, cached, snap, late, stands>>

\* Update, of SetUserRole.
UpdateRole(r) ==
    /\ op[r] \in {"promote", "demote"}
    /\ role' = [role EXCEPT ![target[r]] = IF op[r] = "promote" THEN RoleAdmin ELSE RoleUser]
    /\ UNCHANGED <<present, ban, stands>>

\* Ban, of BanUser: for some days, or for good.
Ban(r) ==
    /\ op[r] = "ban"
    /\ \E b \in now + 1 .. Never : ban' = [ban EXCEPT ![target[r]] = b]
    /\ stands' = stands \ {target[r]}
    /\ UNCHANGED <<present, role>>

\* Unban, of UnbanUser and of the gate.
Unban(r) ==
    /\ op[r] \in Lifting
    /\ ban' = [ban EXCEPT ![target[r]] = NotBanned]
    /\ stands' = IF op[r] = "unban" THEN stands \ {target[r]} ELSE stands
    /\ UNCHANGED <<present, role>>

\* Delete, of DeleteUser and DeleteAccount.
Delete(r) ==
    /\ op[r] \in Removing
    /\ present' = present \ {target[r]}
    /\ stands' = stands \ {target[r]}
    /\ UNCHANGED <<role, ban>>

\* The statement of request r, WHERE uid = its target.
Apply(r) ==
    /\ target[r] \in present
    /\ UpdateRole(r) \/ Ban(r) \/ Unban(r) \/ Delete(r)
    /\ late' = (late \cup {q \in Requests : at[q] = "write" /\ target[q] = target[r]}) \ {r}

Write(r) ==
    /\ at[r] = "write"
    /\ Apply(r)
    /\ at' = [at EXCEPT ![r] = "invalidate"]
    /\ UNCHANGED <<now, cached, op, target, snap>>

\* No row matched, or the statement reports an error, which may be raised
\* after it was applied: the handler returns without touching the cache.
WriteFails(r) ==
    /\ at[r] = "write"
    /\ Apply(r) \/ (late' = late \ {r} /\ UNCHANGED <<rows, stands>>)
    /\ Return(r)
    /\ UNCHANGED <<now, cached>>

\* A copy that the gate would lift a ban for before the ban of u runs out.
Misleads(b, u) == b \in NotBanned + 1 .. ban[u] - 1

\* The ban of u is on, no lifting of the gate is under way, and nobody who
\* read the row earlier holds a ban in it that ends sooner.
Unchallenged(u) ==
    /\ u \in present /\ Active(ban[u])
    /\ \A q \in Requests : target[q] = u =>
          ~(at[q] = "write" /\ op[q] = "auto") /\ ~Misleads(snap[q], u)

\* Mutant: the copy stays in the cache.
KeepCopy(u) == cached

\* The copy of u is removed from the cache.
DropCopy(u) == [cached EXCEPT ![u] = NoCopy]

Invalidate(r) ==
    /\ at[r] = "invalidate"
    /\ cached' = DropCopy(target[r])
    /\ stands' = IF op[r] = "ban" /\ Unchallenged(target[r]) THEN stands \cup {target[r]} ELSE stands
    /\ Return(r)
    /\ UNCHANGED <<rows, now, late>>

(***************************************************************************)
(* The gate: a request of user u passes BanCheckMiddleware                 *)
(***************************************************************************)

\* Request r holds ban b of the row of u.
Hold(r, u, b, step) ==
    /\ at' = [at EXCEPT ![r] = step]
    /\ target' = [target EXCEPT ![r] = u]
    /\ snap' = [snap EXCEPT ![r] = b]
    /\ UNCHANGED <<rows, now, cached, op, late, stands>>

\* GetOrLoad finds a copy.
GateHit(r, u) ==
    /\ at[r] = "idle"
    /\ cached[u] # NoCopy
    /\ Hold(r, u, cached[u], "decide")

Loading(q, u) == at[q] = "store" /\ target[q] = u

\* It does not, and nobody is loading the row.
GateLoad(r, u) ==
    /\ at[r] = "idle"
    /\ cached[u] = NoCopy
    /\ u \in present
    /\ \A q \in Requests : ~Loading(q, u)
    /\ Hold(r, u, ban[u], "store")

\* It joins the request that has loaded the row.
GateJoin(r, u) ==
    /\ at[r] = "idle"
    /\ cached[u] = NoCopy
    /\ \E q \in Requests : Loading(q, u) /\ Hold(r, u, snap[q], "decide")

\* The version of the cache was the same, or not.
GateStore(r) ==
    /\ at[r] = "store"
    /\ cached' \in {cached, [cached EXCEPT ![target[r]] = snap[r]]}
    /\ at' = [at EXCEPT ![r] = "decide"]
    /\ UNCHANGED <<rows, now, op, target, snap, late, stands>>

\* Refused or admitted; a ban that ran out is lifted by a goroutine, whatever
\* the row has become when it gets there.
Decide(r) ==
    /\ at[r] = "decide"
    /\ IF Lapsed(snap[r])
       THEN /\ at' = [at EXCEPT ![r] = "write"]
            /\ op' = [op EXCEPT ![r] = "auto"]
            /\ snap' = [snap EXCEPT ![r] = NotBanned]
            /\ UNCHANGED target
       ELSE Return(r)
    /\ UNCHANGED <<rows, now, cached, late, stands>>

(***************************************************************************)
(* Login                                                                   *)
(***************************************************************************)

\* The row is read first, then the password is verified and tokens are made.
LoginLoad(r, u) ==
    /\ at[r] = "idle"
    /\ u \in present
    /\ Hold(r, u, ban[u], "login")

\* The row that was read is cached, unless the login is refused.
LoginEnds(r) ==
    /\ at[r] = "login"
    /\ cached' \in {cached, [cached EXCEPT ![target[r]] = snap[r]]}
    /\ Return(r)
    /\ UNCHANGED <<rows, now, late, stands>>

(***************************************************************************)
(* Time                                                                    *)
(***************************************************************************)

\* Bans run out, in the row and in each copy of it at its own unban_at.
Tick ==
    /\ now < Horizon
    /\ now' = now + 1
    /\ stands' = {u \in stands : ban[u] > now + 1}
    /\ UNCHANGED <<rows, cached, locals, late>>

\* The entry's TTL runs out, or another entry takes its place.
Evict(u) ==
    /\ cached[u] # NoCopy
    /\ cached' = [cached EXCEPT ![u] = NoCopy]
    /\ UNCHANGED <<rows, now, locals, late, stands>>

RequestStep(r) ==
    \/ Write(r) \/ WriteFails(r) \/ Invalidate(r)
    \/ GateStore(r) \/ Decide(r) \/ LoginEnds(r)

Arrive(r) ==
    \/ \E o, u \in Users, o_op \in Ops \ {"auto", "gate", "leave"} : Check(r, o, u, o_op)
    \/ \E u \in Users : Leave(r, u) \/ GateHit(r, u) \/ GateLoad(r, u) \/ GateJoin(r, u) \/ LoginLoad(r, u)

Next ==
    \/ \E r \in Requests : Arrive(r) \/ RequestStep(r)
    \/ \E u \in Users : Evict(u)
    \/ Tick

Spec == Init /\ [][Next]_vars

(***************************************************************************)
(* Properties                                                              *)
(***************************************************************************)

\* The row of u goes because u asked for it.
LeavesNow(u) ==
    \E r \in Requests : at[r] = "write" /\ op[r] = "leave" /\ target[r] = u /\ present' = present \ {u}

\* Whatever requests overlap, and although no UPDATE repeats the test of the
\* role, a super administrator is never demoted or banned, and deleted only
\* by his own request.
SuperStands ==
    [][\A u \in present : role[u] = RoleSuperAdmin =>
          \/ u \in present' /\ role'[u] = RoleSuperAdmin /\ ~Active(ban'[u])
          \/ LeavesNow(u)]_vars

BannedAdmin(u) == role[u] >= RoleAdmin /\ Active(ban[u])

\* An administrator is deleted, or is banned while being one, only by a
\* request that read the row before another request wrote it.  The checks of
\* SetUserRole, BanUser and DeleteUser are enough for every other schedule.
ChecksHold ==
    [][\A u \in present :
          (u \notin present' /\ role[u] >= RoleAdmin /\ ~LeavesNow(u)) \/ (BannedAdmin(u)' /\ ~BannedAdmin(u))
              => \E r \in late : target[r] = u]_vars

\* A ban stands until it runs out, is replaced or is lifted by UnbanUser, if
\* nothing of an earlier ban was under way when BanUser returned: no lifting of
\* the gate, and no login or request that had read a ban which ends sooner.
BanStands == \A u \in stands : u \in present /\ Active(ban[u])

\* What the comment in BanCheckMiddleware says of the automatic lifting: the
\* ban it lifts is one that ran out, and the others are lifted by UnbanUser.
AutoLiftsLapsed ==
    [][\A u \in Users : Active(ban[u]) /\ ban'[u] = NotBanned =>
          \E r \in Requests : at[r] = "write" /\ op[r] = "unban" /\ target[r] = u]_vars
=============================================================================
