------------------------------ MODULE UserCache ------------------------------
(***************************************************************************)
(* The in-memory user cache of internal/cache/user.go together with the   *)
(* code that races on it: requests that read a user through GetOrLoad,     *)
(* handlers that update the users table and then call Invalidate, and the  *)
(* login handler, which stores the row it read with an unconditional Set.  *)
(*                                                                         *)
(* A users row is abstracted to the number of committed updates it has     *)
(* seen; a cache entry remembers the number it was read at.  Every lock    *)
(* region, atomic access and SQL statement is one step, so the gaps        *)
(* between them are visible:                                               *)
(*   - between the removal and the version increment of Invalidate,        *)
(*   - between the version comparison and the Set of GetOrLoad,            *)
(*   - between the commit of an update and its Invalidate.                 *)
(*                                                                         *)
(* A lookup that hits changes nothing but the recency order, and the       *)
(* least recently used victim is abstracted to any other entry.            *)
(***************************************************************************)
EXTENDS Integers, FiniteSets

CONSTANTS
    Users,      \* uids
    Requests,   \* goroutines that call GetOrLoad
    Writers,    \* handlers that update a user and invalidate the entry
    Logins,     \* goroutines in the login handler
    MaxSize,    \* capacity of the LRU
    MaxWrites,  \* bound: committed updates of one users row
    NoUser, NoRequest, NoEntry

NoRow == -1     \* "no row": nothing read yet, or the read failed

Entry == [ver : Nat, expired : BOOLEAN]

ASSUME MaxSizeAssumption == MaxSize \in Nat \ {0}
ASSUME MaxWritesAssumption == MaxWrites \in Nat
ASSUME NullAssumption == /\ NoUser \notin Users
                         /\ NoRequest \notin Requests
                         /\ NoEntry \notin Entry

VARIABLES
    row,          \* users table: updates committed to each row
    cache,        \* UserCache.cache
    version,      \* UserCache.version
    flight,       \* UserCache.sf: the request that leads the load of a uid
    pc, uid,      \* requests: next step, user asked for
    before, val,  \* requests: versionBefore and the row the loader returned
    wpc, wuid, wver,   \* writers: next step, user, update it committed
    lpc, luid, lval,   \* logins: next step, user, row it read
    invalidated,  \* history: latest update whose Invalidate has returned
    staleFills    \* history: older rows loaders stored since that return

reqVars   == <<pc, uid, before, val>>
writeVars == <<wpc, wuid, wver>>
loginVars == <<lpc, luid, lval>>
history   == <<invalidated, staleFills>>
vars == <<row, cache, version, flight, reqVars, writeVars, loginVars, history>>

PCs == {"idle", "recheck1", "join", "wait", "get2", "recheck2", "snapshot",
        "load", "compare", "fill", "finish"}

TypeOK ==
    /\ row \in [Users -> Nat]
    /\ cache \in [Users -> Entry \cup {NoEntry}]
    /\ version \in Nat
    /\ flight \in [Users -> Requests \cup {NoRequest}]
    /\ pc \in [Requests -> PCs]
    /\ uid \in [Requests -> Users \cup {NoUser}]
    /\ before \in [Requests -> Nat]
    /\ val \in [Requests -> Nat \cup {NoRow}]
    /\ wpc \in [Writers -> {"idle", "remove", "bump"}]
    /\ wuid \in [Writers -> Users \cup {NoUser}]
    /\ wver \in [Writers -> Nat]
    /\ lpc \in [Logins -> {"idle", "set"}]
    /\ luid \in [Logins -> Users \cup {NoUser}]
    /\ lval \in [Logins -> Nat]
    /\ invalidated \in [Users -> Nat]
    /\ staleFills \in [Users -> Nat]

Init ==
    /\ row = [u \in Users |-> 0]
    /\ cache = [u \in Users |-> NoEntry]
    /\ version = 0
    /\ flight = [u \in Users |-> NoRequest]
    /\ pc = [r \in Requests |-> "idle"]
    /\ uid = [r \in Requests |-> NoUser]
    /\ before = [r \in Requests |-> 0]
    /\ val = [r \in Requests |-> NoRow]
    /\ wpc = [w \in Writers |-> "idle"]
    /\ wuid = [w \in Writers |-> NoUser]
    /\ wver = [w \in Writers |-> 0]
    /\ lpc = [l \in Logins |-> "idle"]
    /\ luid = [l \in Logins |-> NoUser]
    /\ lval = [l \in Logins |-> 0]
    /\ invalidated = [u \in Users |-> 0]
    /\ staleFills = [u \in Users |-> 0]

(***************************************************************************)
(* The cache itself                                                        *)
(***************************************************************************)

Held == {u \in Users : cache[u] # NoEntry}

\* Mutant: the TTL is not looked at.
ServableForever(u) == cache[u] # NoEntry

\* Get returns the entry of u: it is present and within its TTL.
Servable(u) == cache[u] # NoEntry /\ ~cache[u].expired

\* Set: store row v of u; a full LRU evicts another entry.
Add(u, v) ==
    LET stored == [cache EXCEPT ![u] = [ver |-> v, expired |-> FALSE]]
    IN IF Cardinality(Held \cup {u}) <= MaxSize
       THEN cache' = stored
       ELSE \E victim \in Held \ {u} :
                cache' = [stored EXCEPT ![victim] = NoEntry]

\* Time passes and the entry of u outlives the TTL.  It stays in the LRU
\* until a Get finds it.
Expire(u) ==
    /\ Servable(u)
    /\ cache' = [cache EXCEPT ![u].expired = TRUE]
    /\ UNCHANGED <<row, version, flight, reqVars, writeVars, loginVars, history>>

(***************************************************************************)
(* GetOrLoad                                                               *)
(***************************************************************************)

\* The first Get misses, or captures an entry past its TTL.
Start(r, u) ==
    /\ pc[r] = "idle"
    /\ ~Servable(u)
    /\ pc' = [pc EXCEPT ![r] = IF cache[u] = NoEntry THEN "join" ELSE "recheck1"]
    /\ uid' = [uid EXCEPT ![r] = u]
    /\ UNCHANGED <<row, cache, version, flight, before, val, writeVars,
                   loginVars, history>>

\* Get, second look under the write lock at an entry that was past its TTL:
\* another goroutine has refreshed it, or it is removed.
RecheckHit(r) ==
    /\ pc[r] \in {"recheck1", "recheck2"}
    /\ Servable(uid[r])
    /\ IF pc[r] = "recheck1"
       THEN /\ pc' = [pc EXCEPT ![r] = "idle"]
            /\ uid' = [uid EXCEPT ![r] = NoUser]
            /\ UNCHANGED val
       ELSE /\ pc' = [pc EXCEPT ![r] = "finish"]
            /\ val' = [val EXCEPT ![r] = cache[uid[r]].ver]
            /\ UNCHANGED uid
    /\ UNCHANGED <<row, cache, version, flight, before, writeVars, loginVars,
                   history>>

RecheckRemove(r) ==
    /\ pc[r] \in {"recheck1", "recheck2"}
    /\ ~Servable(uid[r])
    /\ cache' = [cache EXCEPT ![uid[r]] = NoEntry]
    /\ pc' = [pc EXCEPT ![r] = IF pc[r] = "recheck1" THEN "join" ELSE "snapshot"]
    /\ UNCHANGED <<row, version, flight, uid, before, val, writeVars, loginVars,
                   history>>

\* Mutant: no singleflight, every request loads.
JoinAlone(r) ==
    /\ pc[r] = "join"
    /\ flight' = [flight EXCEPT ![uid[r]] = r]
    /\ pc' = [pc EXCEPT ![r] = "get2"]
    /\ UNCHANGED <<row, cache, version, uid, before, val, writeVars, loginVars,
                   history>>

\* sf.Do: lead the load of this uid, or wait for the one in flight.
Join(r) ==
    /\ pc[r] = "join"
    /\ IF flight[uid[r]] = NoRequest
       THEN /\ flight' = [flight EXCEPT ![uid[r]] = r]
            /\ pc' = [pc EXCEPT ![r] = "get2"]
       ELSE /\ pc' = [pc EXCEPT ![r] = "wait"]
            /\ UNCHANGED flight
    /\ UNCHANGED <<row, cache, version, uid, before, val, writeVars, loginVars,
                   history>>

\* The second Get, inside the flight.
GetAgain(r) ==
    /\ pc[r] = "get2"
    /\ IF Servable(uid[r])
       THEN /\ pc' = [pc EXCEPT ![r] = "finish"]
            /\ val' = [val EXCEPT ![r] = cache[uid[r]].ver]
       ELSE /\ pc' = [pc EXCEPT ![r] = IF cache[uid[r]] = NoEntry
                                       THEN "snapshot" ELSE "recheck2"]
            /\ UNCHANGED val
    /\ UNCHANGED <<row, cache, version, flight, uid, before, writeVars,
                   loginVars, history>>

\* Mutant: the cancelled leader returns and leaves its flight behind.
CancelledForgets(r) ==
    /\ pc[r] = "snapshot"
    /\ pc' = [pc EXCEPT ![r] = "idle"]
    /\ uid' = [uid EXCEPT ![r] = NoUser]
    /\ UNCHANGED <<row, cache, version, flight, before, val, writeVars, loginVars,
                   history>>

\* The leader's context is already cancelled: the flight ends with an error.
Cancelled(r) ==
    /\ pc[r] = "snapshot"
    /\ pc' = [pc EXCEPT ![r] = "finish"]
    /\ UNCHANGED <<row, cache, version, flight, uid, before, val, writeVars,
                   loginVars, history>>

Snapshot(r) ==
    /\ pc[r] = "snapshot"
    /\ before' = [before EXCEPT ![r] = version]
    /\ pc' = [pc EXCEPT ![r] = "load"]
    /\ UNCHANGED <<row, cache, version, flight, uid, val, writeVars, loginVars,
                   history>>

\* The loader (UserRepository.FindByUID) reads the row.
Load(r) ==
    /\ pc[r] = "load"
    /\ val' = [val EXCEPT ![r] = row[uid[r]]]
    /\ pc' = [pc EXCEPT ![r] = "compare"]
    /\ UNCHANGED <<row, cache, version, flight, uid, before, writeVars,
                   loginVars, history>>

\* The loader fails, or the user does not exist: nothing is cached.
LoadFails(r) ==
    /\ pc[r] = "load"
    /\ pc' = [pc EXCEPT ![r] = "finish"]
    /\ UNCHANGED <<row, cache, version, flight, uid, before, val, writeVars,
                   loginVars, history>>

\* The version is compared outside the lock that Fill takes.
Compare(r) ==
    /\ pc[r] = "compare"
    /\ pc' = [pc EXCEPT ![r] = IF version = before[r] THEN "fill" ELSE "finish"]
    /\ UNCHANGED <<row, cache, version, flight, uid, before, val, writeVars,
                   loginVars, history>>

Fill(r) ==
    /\ pc[r] = "fill"
    /\ Add(uid[r], val[r])
    /\ staleFills' = IF val[r] < invalidated[uid[r]]
                     THEN [staleFills EXCEPT ![uid[r]] = @ + 1]
                     ELSE staleFills
    /\ pc' = [pc EXCEPT ![r] = "finish"]
    /\ UNCHANGED <<row, version, flight, uid, before, val, writeVars, loginVars,
                   invalidated>>

\* The flight is over: the leader and every request that joined it return.
Returning(r) == {r} \cup {q \in Requests : pc[q] = "wait" /\ uid[q] = uid[r]}

Finish(r) ==
    /\ pc[r] = "finish"
    /\ flight' = [flight EXCEPT ![uid[r]] = NoRequest]
    /\ pc' = [q \in Requests |-> IF q \in Returning(r) THEN "idle" ELSE pc[q]]
    /\ uid' = [q \in Requests |-> IF q \in Returning(r) THEN NoUser ELSE uid[q]]
    /\ before' = [before EXCEPT ![r] = 0]
    /\ val' = [val EXCEPT ![r] = NoRow]
    /\ UNCHANGED <<row, cache, version, writeVars, loginVars, history>>

(***************************************************************************)
(* Handlers that change a user: commit the update, then Invalidate.        *)
(***************************************************************************)

Write(w, u) ==
    /\ wpc[w] = "idle"
    /\ row[u] < MaxWrites
    /\ row' = [row EXCEPT ![u] = @ + 1]
    /\ wpc' = [wpc EXCEPT ![w] = "remove"]
    /\ wuid' = [wuid EXCEPT ![w] = u]
    /\ wver' = [wver EXCEPT ![w] = row[u] + 1]
    /\ UNCHANGED <<cache, version, flight, reqVars, loginVars, history>>

\* Invalidate, first half: remove the entry under the lock.
Remove(w) ==
    /\ wpc[w] = "remove"
    /\ cache' = [cache EXCEPT ![wuid[w]] = NoEntry]
    /\ wpc' = [wpc EXCEPT ![w] = "bump"]
    /\ UNCHANGED <<row, version, flight, reqVars, wuid, wver, loginVars, history>>

\* Mutant: Invalidate leaves the version alone.
BumpNothing(w) ==
    /\ wpc[w] = "bump"
    /\ IF wver[w] > invalidated[wuid[w]]
       THEN /\ invalidated' = [invalidated EXCEPT ![wuid[w]] = wver[w]]
            /\ staleFills' = [staleFills EXCEPT ![wuid[w]] = 0]
       ELSE UNCHANGED history
    /\ wpc' = [wpc EXCEPT ![w] = "idle"]
    /\ wuid' = [wuid EXCEPT ![w] = NoUser]
    /\ wver' = [wver EXCEPT ![w] = 0]
    /\ UNCHANGED <<row, cache, version, flight, reqVars, loginVars>>

\* Invalidate, second half: increment the version after the unlock; return.
Bump(w) ==
    /\ wpc[w] = "bump"
    /\ version' = version + 1
    /\ IF wver[w] > invalidated[wuid[w]]
       THEN /\ invalidated' = [invalidated EXCEPT ![wuid[w]] = wver[w]]
            /\ staleFills' = [staleFills EXCEPT ![wuid[w]] = 0]
       ELSE UNCHANGED history
    /\ wpc' = [wpc EXCEPT ![w] = "idle"]
    /\ wuid' = [wuid EXCEPT ![w] = NoUser]
    /\ wver' = [wver EXCEPT ![w] = 0]
    /\ UNCHANGED <<row, cache, flight, reqVars, loginVars>>

(***************************************************************************)
(* The login handler: read the row, verify, issue tokens, then Set.        *)
(***************************************************************************)

LoginRead(l, u) ==
    /\ lpc[l] = "idle"
    /\ lpc' = [lpc EXCEPT ![l] = "set"]
    /\ luid' = [luid EXCEPT ![l] = u]
    /\ lval' = [lval EXCEPT ![l] = row[u]]
    /\ UNCHANGED <<row, cache, version, flight, reqVars, writeVars, history>>

\* A wrong password, or tokens that cannot be issued, return before the Set.
LoginRejected(l) ==
    /\ lpc[l] = "set"
    /\ lpc' = [lpc EXCEPT ![l] = "idle"]
    /\ luid' = [luid EXCEPT ![l] = NoUser]
    /\ lval' = [lval EXCEPT ![l] = 0]
    /\ UNCHANGED <<row, cache, version, flight, reqVars, writeVars, history>>

LoginSet(l) ==
    /\ lpc[l] = "set"
    /\ Add(luid[l], lval[l])
    /\ lpc' = [lpc EXCEPT ![l] = "idle"]
    /\ luid' = [luid EXCEPT ![l] = NoUser]
    /\ lval' = [lval EXCEPT ![l] = 0]
    /\ UNCHANGED <<row, version, flight, reqVars, writeVars, history>>

(***************************************************************************)
(* The specification                                                       *)
(***************************************************************************)

RequestStep(r) ==
    \/ RecheckHit(r) \/ RecheckRemove(r) \/ Join(r) \/ GetAgain(r)
    \/ Cancelled(r) \/ Snapshot(r) \/ Load(r) \/ LoadFails(r)
    \/ Compare(r) \/ Fill(r) \/ Finish(r)

WriterStep(w) == Remove(w) \/ Bump(w)

LoginStep(l) == LoginRejected(l) \/ LoginSet(l)

Next ==
    \/ \E u \in Users : Expire(u)
    \/ \E r \in Requests : RequestStep(r) \/ \E u \in Users : Start(r, u)
    \/ \E w \in Writers : WriterStep(w) \/ \E u \in Users : Write(w, u)
    \/ \E l \in Logins : LoginStep(l) \/ \E u \in Users : LoginRead(l, u)

Spec == Init /\ [][Next]_vars

\* Goroutines that have begun run to their end, and time passes.  Nobody is
\* obliged to send a request, change a user or log in.
Fairness ==
    /\ \A r \in Requests : WF_vars(RequestStep(r))
    /\ \A w \in Writers : WF_vars(WriterStep(w))
    /\ \A l \in Logins : WF_vars(LoginStep(l))
    /\ \A u \in Users : WF_vars(Expire(u))

FairSpec == Spec /\ Fairness

(***************************************************************************)
(* Properties                                                              *)
(***************************************************************************)

\* The LRU never holds more users than its capacity, whatever mixture of
\* loader fills and login Sets runs (NewUserCache's maxSize).
SizeBound == Cardinality(Held) <= MaxSize

\* The version guard does what it was written for up to the comparison: a
\* loader that would pass the comparison now holds a row at least as new as
\* every update whose Invalidate has returned.
GuardSound ==
    \A r \in Requests :
        pc[r] = "compare" /\ before[r] = version => val[r] >= invalidated[uid[r]]

\* What remains of the comparison-to-Set race is bounded: because loads of a
\* user are merged into one flight, at most one loader can store an older row
\* after an Invalidate of that user returned.
OneStaleFill == \A u \in Users : staleFills[u] <= 1

\* Once updates have stopped, every entry Get would serve becomes and stays
\* the committed row: the races leave stale entries for at most a TTL.
EventuallyFresh ==
    <>[](\A u \in Users : Servable(u) => cache[u].ver = row[u])

\* No request is left behind in a flight: each GetOrLoad returns, whether its
\* leader hits, loads, fails or is cancelled.
RequestReturns ==
    \A r \in Requests : pc[r] # "idle" ~> pc[r] = "idle"

\* What the comments of GetOrLoad and Invalidate promise: after Invalidate has
\* returned, no loader result read before it sits in the cache.  Stated for
\* loaders alone (Logins = {}).
NoStaleAfterInvalidate ==
    \A u \in Users : cache[u] # NoEntry => cache[u].ver >= invalidated[u]
=============================================================================
