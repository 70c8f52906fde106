--------------------------- MODULE UserCacheProofs ---------------------------
(***************************************************************************)
(* What UserCache guarantees for every number of users, requests, writers  *)
(* and logins: types, and the two limits of the races around Invalidate.   *)
(***************************************************************************)
EXTENDS UserCache, FiniteSetTheorems, TLAPS

\* A request, writer or login that is under way works for an actual user,
\* and a row is compared and stored only after the loader returned one.
Bound ==
    /\ \A r \in Requests : pc[r] # "idle" => uid[r] \in Users
    /\ \A r \in Requests : pc[r] \in {"compare", "fill"} => val[r] \in Nat
    /\ \A w \in Writers : wpc[w] # "idle" => wuid[w] \in Users
    /\ \A l \in Logins : lpc[l] # "idle" => luid[l] \in Users

\* The cache keeps its type under a Set, which every filler uses.
LEMMA AddType ==
    ASSUME TypeOK, NEW u \in Users, NEW v \in Nat, Add(u, v)
    PROVE  cache' \in [Users -> Entry \cup {NoEntry}]
<1> DEFINE stored == [cache EXCEPT ![u] = [ver |-> v, expired |-> FALSE]]
<1>1. [ver |-> v, expired |-> FALSE] \in Entry
  BY DEF Entry
<1>2. stored \in [Users -> Entry \cup {NoEntry}]
  BY <1>1 DEF TypeOK
<1>3. CASE cache' = stored
  BY <1>2, <1>3
<1>4. CASE \E victim \in Held \ {u} : cache' = [stored EXCEPT ![victim] = NoEntry]
  <2> HIDE DEF stored
  <2>1. PICK victim \in Held \ {u} : cache' = [stored EXCEPT ![victim] = NoEntry]
    BY <1>4
  <2>2. QED BY <1>2, <2>1
<1>5. QED BY <1>3, <1>4 DEF Add

LEMMA TypeInit == Init => TypeOK /\ Bound
BY DEF Init, TypeOK, Bound, PCs, NoRow

\* The steps of a request keep the types.
LEMMA TypeRequest ==
    ASSUME TypeOK, Bound, NEW r \in Requests,
           RequestStep(r) \/ \E u \in Users : Start(r, u)
    PROVE  TypeOK' /\ Bound'
<1>1. CASE \E u \in Users : Start(r, u)
  BY <1>1 DEF Start, TypeOK, Bound, PCs, writeVars, loginVars, history
<1>2. CASE RecheckHit(r)
  BY <1>2 DEF RecheckHit, Servable, TypeOK, Bound, PCs, Entry, writeVars, loginVars, history
<1>3. CASE RecheckRemove(r)
  BY <1>3 DEF RecheckRemove, TypeOK, Bound, PCs, writeVars, loginVars, history
<1>4. CASE Join(r)
  BY <1>4 DEF Join, TypeOK, Bound, PCs, writeVars, loginVars, history
<1>5. CASE GetAgain(r)
  BY <1>5 DEF GetAgain, Servable, TypeOK, Bound, PCs, Entry, writeVars, loginVars, history
<1>6. CASE Cancelled(r) \/ LoadFails(r) \/ Compare(r)
  BY <1>6 DEF Cancelled, LoadFails, Compare, TypeOK, Bound, PCs, writeVars, loginVars, history
<1>7. CASE Snapshot(r)
  BY <1>7 DEF Snapshot, TypeOK, Bound, PCs, writeVars, loginVars, history
<1>8. CASE Load(r)
  BY <1>8 DEF Load, TypeOK, Bound, PCs, writeVars, loginVars, history
<1>9. CASE Fill(r)
  <2>1. uid[r] \in Users /\ val[r] \in Nat /\ Add(uid[r], val[r])
    BY <1>9 DEF Fill, Bound
  <2>2. cache' \in [Users -> Entry \cup {NoEntry}]
    BY <2>1, AddType
  <2>3. QED
    BY <1>9, <2>1, <2>2 DEF Fill, TypeOK, Bound, PCs, writeVars, loginVars
<1>10. CASE Finish(r)
  BY <1>10 DEF Finish, Returning, TypeOK, Bound, PCs, NoRow, writeVars, loginVars, history
<1>11. QED
  BY <1>1, <1>2, <1>3, <1>4, <1>5, <1>6, <1>7, <1>8, <1>9, <1>10 DEF RequestStep

\* So do expiry, the writers and the logins.
LEMMA TypeOthers ==
    ASSUME TypeOK, Bound,
           \/ \E u \in Users : Expire(u)
           \/ \E w \in Writers : WriterStep(w) \/ \E u \in Users : Write(w, u)
           \/ \E l \in Logins : LoginStep(l) \/ \E u \in Users : LoginRead(l, u)
           \/ UNCHANGED vars
    PROVE  TypeOK' /\ Bound'
<1>1. ASSUME NEW u \in Users, Expire(u)
      PROVE  TypeOK' /\ Bound'
  <2>1. cache[u] \in Entry
    BY <1>1 DEF Expire, Servable, TypeOK
  <2>2. [cache[u] EXCEPT !.expired = TRUE] \in Entry
    BY <2>1 DEF Entry
  <2>3. cache' = [cache EXCEPT ![u] = [cache[u] EXCEPT !.expired = TRUE]]
    BY <1>1 DEF Expire
  <2>4. cache' \in [Users -> Entry \cup {NoEntry}]
    BY <2>2, <2>3 DEF TypeOK
  <2>5. QED
    BY <1>1, <2>4 DEF Expire, TypeOK, Bound, reqVars, writeVars, loginVars, history
<1>2. ASSUME NEW w \in Writers, NEW u \in Users, Write(w, u)
      PROVE  TypeOK' /\ Bound'
  BY <1>2 DEF Write, TypeOK, Bound, reqVars, loginVars, history
<1>3. ASSUME NEW w \in Writers, Remove(w)
      PROVE  TypeOK' /\ Bound'
  BY <1>3 DEF Remove, TypeOK, Bound, reqVars, loginVars, history
<1>4. ASSUME NEW w \in Writers, Bump(w)
      PROVE  TypeOK' /\ Bound'
  BY <1>4 DEF Bump, TypeOK, Bound, reqVars, loginVars, history
<1>5. ASSUME NEW l \in Logins, NEW u \in Users, LoginRead(l, u)
      PROVE  TypeOK' /\ Bound'
  BY <1>5 DEF LoginRead, TypeOK, Bound, reqVars, writeVars, history
<1>6. ASSUME NEW l \in Logins, LoginRejected(l)
      PROVE  TypeOK' /\ Bound'
  BY <1>6 DEF LoginRejected, TypeOK, Bound, reqVars, writeVars, history
<1>7. ASSUME NEW l \in Logins, LoginSet(l)
      PROVE  TypeOK' /\ Bound'
  <2>1. luid[l] \in Users /\ lval[l] \in Nat /\ Add(luid[l], lval[l])
    BY <1>7 DEF LoginSet, Bound, TypeOK
  <2>2. cache' \in [Users -> Entry \cup {NoEntry}]
    BY <2>1, AddType
  <2>3. QED
    BY <1>7, <2>2 DEF LoginSet, TypeOK, Bound, reqVars, writeVars, history
<1>8. CASE UNCHANGED vars
  BY <1>8 DEF vars, TypeOK, Bound, reqVars, writeVars, loginVars, history
<1>9. QED
  BY <1>1, <1>2, <1>3, <1>4, <1>5, <1>6, <1>7, <1>8 DEF WriterStep, LoginStep

LEMMA TypeNext == TypeOK /\ Bound /\ [Next]_vars => TypeOK' /\ Bound'
BY TypeRequest, TypeOthers DEF Next

\* Type correctness of the cache and of everything that races on it.
THEOREM TypeCorrect == Spec => [](TypeOK /\ Bound)
<1>1. Init => TypeOK /\ Bound
  BY TypeInit
<1>2. TypeOK /\ Bound /\ [Next]_vars => TypeOK' /\ Bound'
  BY TypeNext
<1>3. QED BY <1>1, <1>2, PTL DEF Spec

(***************************************************************************)
(* The races around Invalidate.                                            *)
(***************************************************************************)

Leading == {"get2", "recheck2", "snapshot", "load", "compare", "fill", "finish"}

\* What makes GuardSound and OneStaleFill inductive:
\*   - the leader of a flight owns its entry of sf;
\*   - a snapshot of the version is never ahead of it, and the row read after
\*     an unchanged snapshot is as new as every returned Invalidate;
\*   - an Invalidate covers an update that was committed;
\*   - while an older row has been stored since the last Invalidate of u, the
\*     flight of u that may be running now holds a newer one.
Leads == \A r \in Requests : pc[r] \in Leading => flight[uid[r]] = r

SnapshotPast ==
    \A r \in Requests : pc[r] \in {"load", "compare"} => before[r] <= version

CommittedFirst ==
    /\ \A w \in Writers : wpc[w] # "idle" => wver[w] <= row[wuid[w]]
    /\ \A u \in Users : invalidated[u] <= row[u]

StaleOnce ==
    \A r \in Requests :
        pc[r] \in {"compare", "fill"} /\ staleFills[uid[r]] # 0
            => val[r] >= invalidated[uid[r]]

RaceInv ==
    /\ Leads
    /\ SnapshotPast
    /\ CommittedFirst
    /\ GuardSound
    /\ StaleOnce
    /\ OneStaleFill

LEMMA RaceInit == Init => RaceInv
BY DEF Init, RaceInv, Leads, Leading, SnapshotPast, CommittedFirst,
       GuardSound, StaleOnce, OneStaleFill

\* Two leaders of the same user are the same request.
LEMMA OneFlight ==
    ASSUME Leads, NEW r \in Requests, NEW q \in Requests,
           pc[r] \in Leading, pc[q] \in Leading, uid[r] = uid[q]
    PROVE  r = q
BY DEF Leads

LEMMA RaceRequest ==
    ASSUME TypeOK, Bound, RaceInv, NEW r \in Requests,
           RequestStep(r) \/ \E u \in Users : Start(r, u)
    PROVE  RaceInv'
<1> USE DEF RaceInv
<1>1. CASE \E u \in Users : Start(r, u)
  BY <1>1 DEF Start, TypeOK, Bound, PCs, writeVars, history, Leads, Leading,
              SnapshotPast, CommittedFirst, GuardSound, StaleOnce, OneStaleFill
<1>2. CASE RecheckHit(r)
  BY <1>2 DEF RecheckHit, TypeOK, Bound, PCs, writeVars, history, Leads, Leading,
              SnapshotPast, CommittedFirst, GuardSound, StaleOnce, OneStaleFill
<1>3. CASE RecheckRemove(r)
  BY <1>3 DEF RecheckRemove, TypeOK, Bound, PCs, writeVars, history, Leads, Leading,
              SnapshotPast, CommittedFirst, GuardSound, StaleOnce, OneStaleFill
<1>4. CASE Join(r)
  <2>1. Leads'
    BY <1>4, NullAssumption DEF Join, TypeOK, Bound, PCs, Leads, Leading
  <2>2. QED
    BY <1>4, <2>1 DEF Join, TypeOK, Bound, PCs, writeVars, history,
              SnapshotPast, CommittedFirst, GuardSound, StaleOnce, OneStaleFill
<1>5. CASE GetAgain(r)
  BY <1>5 DEF GetAgain, TypeOK, Bound, PCs, writeVars, history, Leads, Leading,
              SnapshotPast, CommittedFirst, GuardSound, StaleOnce, OneStaleFill
<1>6. CASE Cancelled(r) \/ LoadFails(r)
  BY <1>6 DEF Cancelled, LoadFails, TypeOK, Bound, PCs, writeVars, history, Leads,
              Leading, SnapshotPast, CommittedFirst, GuardSound, StaleOnce, OneStaleFill
<1>7. CASE Snapshot(r)
  BY <1>7 DEF Snapshot, TypeOK, Bound, PCs, writeVars, history, Leads, Leading,
              SnapshotPast, CommittedFirst, GuardSound, StaleOnce, OneStaleFill
<1>8. CASE Load(r)
  <2>1. uid[r] \in Users /\ row[uid[r]] >= invalidated[uid[r]]
    BY <1>8 DEF Load, Bound, CommittedFirst, TypeOK
  <2>2. QED
    BY <1>8, <2>1 DEF Load, TypeOK, Bound, PCs, writeVars, history, Leads, Leading,
              SnapshotPast, CommittedFirst, GuardSound, StaleOnce, OneStaleFill
<1>9. CASE Compare(r)
  BY <1>9 DEF Compare, TypeOK, Bound, PCs, writeVars, history, Leads, Leading,
              SnapshotPast, CommittedFirst, GuardSound, StaleOnce, OneStaleFill
<1>10. CASE Fill(r)
  <2>1. uid[r] \in Users /\ pc[r] = "fill" /\ val[r] \in Nat
    BY <1>10 DEF Fill, Bound
  <2>2. Leads' /\ SnapshotPast' /\ CommittedFirst' /\ GuardSound'
    BY <1>10 DEF Fill, TypeOK, PCs, writeVars, Leads, Leading, SnapshotPast,
                 CommittedFirst, GuardSound
  <2>3. OneStaleFill'
    BY <1>10, <2>1 DEF Fill, TypeOK, StaleOnce, OneStaleFill
  <2>4. ASSUME NEW q \in Requests, pc'[q] \in {"compare", "fill"},
               staleFills'[uid'[q]] # 0
        PROVE  val'[q] >= invalidated'[uid'[q]]
    <3>1. q # r /\ pc[q] \in {"compare", "fill"}
      BY <1>10, <2>4 DEF Fill, TypeOK
    <3>2. uid[q] # uid[r]
      BY <2>1, <3>1, OneFlight DEF Leading
    <3>3. QED
      BY <1>10, <2>1, <2>4, <3>1, <3>2 DEF Fill, TypeOK, Bound, StaleOnce
  <2>5. QED BY <2>2, <2>3, <2>4 DEF StaleOnce
<1>11. CASE Finish(r)
  <2>1. pc[r] = "finish" /\ uid[r] \in Users
    BY <1>11 DEF Finish, Bound
  <2>2. \A q \in Requests : pc'[q] # "idle" =>
            q # r /\ pc'[q] = pc[q] /\ uid'[q] = uid[q] /\ val'[q] = val[q]
              /\ before'[q] = before[q]
    BY <1>11 DEF Finish, Returning, TypeOK
  <2>3. Leads'
    <3>1. SUFFICES ASSUME NEW q \in Requests, pc'[q] \in Leading
                   PROVE  flight'[uid'[q]] = q
      BY DEF Leads
    <3>2. q # r /\ pc[q] \in Leading /\ uid'[q] = uid[q]
      BY <2>2, <3>1 DEF Leading
    <3>3. uid[q] # uid[r]
      BY <2>1, <3>2, OneFlight DEF Leading
    <3>4. QED
      BY <1>11, <2>1, <3>2, <3>3 DEF Finish, Leads, TypeOK
  <2>4. QED
    BY <1>11, <2>2, <2>3 DEF Finish, writeVars, history, SnapshotPast,
              CommittedFirst, GuardSound, StaleOnce, OneStaleFill
<1>12. QED
  BY <1>1, <1>2, <1>3, <1>4, <1>5, <1>6, <1>7, <1>8, <1>9, <1>10, <1>11 DEF RequestStep

LEMMA RaceWriter ==
    ASSUME TypeOK, Bound, RaceInv, NEW w \in Writers,
           WriterStep(w) \/ \E u \in Users : Write(w, u)
    PROVE  RaceInv'
<1> USE DEF RaceInv
<1>1. ASSUME NEW u \in Users, Write(w, u)
      PROVE  RaceInv'
  <2>1. CommittedFirst'
    BY <1>1 DEF Write, TypeOK, Bound, history, CommittedFirst
  <2>2. QED
    BY <1>1, <2>1 DEF Write, reqVars, history, Leads, Leading, SnapshotPast,
                      GuardSound, StaleOnce, OneStaleFill
<1>2. CASE Remove(w)
  BY <1>2 DEF Remove, TypeOK, reqVars, history, Leads, Leading, SnapshotPast,
              CommittedFirst, GuardSound, StaleOnce, OneStaleFill
<1>3. CASE Bump(w)
  <2>1. wuid[w] \in Users /\ wver[w] <= row[wuid[w]] /\ version' = version + 1
    BY <1>3 DEF Bump, Bound, CommittedFirst
  <2>2. SnapshotPast' /\ GuardSound'
    BY <1>3, <2>1 DEF Bump, TypeOK, reqVars, SnapshotPast, GuardSound
  <2>3. CommittedFirst'
    BY <1>3, <2>1 DEF Bump, TypeOK, history, CommittedFirst
  <2>4. Leads'
    BY <1>3 DEF Bump, reqVars, Leads, Leading
  <2>5. StaleOnce' /\ OneStaleFill'
    BY <1>3, <2>1 DEF Bump, TypeOK, Bound, reqVars, history, StaleOnce, OneStaleFill
  <2>6. QED BY <2>2, <2>3, <2>4, <2>5
<1>4. QED BY <1>1, <1>2, <1>3 DEF WriterStep

LEMMA RaceNext == TypeOK /\ Bound /\ RaceInv /\ [Next]_vars => RaceInv'
<1> SUFFICES ASSUME TypeOK, Bound, RaceInv, [Next]_vars PROVE RaceInv'
  OBVIOUS
<1>1. CASE \E u \in Users : Expire(u)
  BY <1>1 DEF Expire, reqVars, writeVars, history, RaceInv, Leads, Leading,
              SnapshotPast, CommittedFirst, GuardSound, StaleOnce, OneStaleFill
<1>2. CASE \E l \in Logins : LoginStep(l) \/ \E u \in Users : LoginRead(l, u)
  BY <1>2 DEF LoginStep, LoginRead, LoginSet, LoginRejected, reqVars, writeVars,
              history, RaceInv, Leads, Leading, SnapshotPast, CommittedFirst,
              GuardSound, StaleOnce, OneStaleFill
<1>3. CASE UNCHANGED vars
  BY <1>3 DEF vars, reqVars, writeVars, history, RaceInv, Leads, Leading,
              SnapshotPast, CommittedFirst, GuardSound, StaleOnce, OneStaleFill
<1>4. QED BY <1>1, <1>2, <1>3, RaceRequest, RaceWriter DEF Next

LEMMA RaceInvariant == Spec => []RaceInv
<1>1. Init => RaceInv
  BY RaceInit
<1>2. TypeOK /\ Bound /\ RaceInv /\ [Next]_vars => RaceInv'
  BY RaceNext
<1>3. QED BY <1>1, <1>2, TypeCorrect, PTL DEF Spec

\* The version guard of GetOrLoad: at the comparison, an unchanged version
\* means the loaded row is as new as every Invalidate that has returned.
THEOREM VersionGuardSound == Spec => []GuardSound
<1>1. RaceInv => GuardSound
  BY DEF RaceInv
<1>2. QED BY <1>1, RaceInvariant, PTL

\* At most one older row is stored by a loader after an Invalidate of a user.
THEOREM AtMostOneStaleFill == Spec => []OneStaleFill
<1>1. RaceInv => OneStaleFill
  BY DEF RaceInv
<1>2. QED BY <1>1, RaceInvariant, PTL

(***************************************************************************)
(* The capacity.                                                           *)
(***************************************************************************)

WithinCapacity == IsFiniteSet(Held) /\ SizeBound

\* A Set into a full LRU evicts another entry, so it does not exceed maxSize.
LEMMA AddSize ==
    ASSUME TypeOK, WithinCapacity, NEW u \in Users, NEW v \in Nat, Add(u, v)
    PROVE  WithinCapacity'
<1> DEFINE stored == [cache EXCEPT ![u] = [ver |-> v, expired |-> FALSE]]
<1>1. [ver |-> v, expired |-> FALSE] # NoEntry
  <2>1. [ver |-> v, expired |-> FALSE] \in Entry
    BY DEF Entry
  <2>2. QED BY <2>1, NullAssumption
<1>2. IsFiniteSet(Held \cup {u}) /\ Held \subseteq Users
  BY FS_AddElement DEF WithinCapacity, Held
<1>3. CASE Cardinality(Held \cup {u}) <= MaxSize
  <2>1. Held' = Held \cup {u}
    BY <1>1, <1>3 DEF Add, Held, TypeOK
  <2>2. QED BY <1>2, <1>3, <2>1 DEF WithinCapacity, SizeBound
<1>4. CASE ~(Cardinality(Held \cup {u}) <= MaxSize)
  <2>1. u \notin Held
    <3>1. u \in Held => Held \cup {u} = Held
      OBVIOUS
    <3>2. QED BY <1>4, <3>1 DEF WithinCapacity, SizeBound
  <2>2. PICK victim \in Held \ {u} : cache' = [stored EXCEPT ![victim] = NoEntry]
    BY <1>4 DEF Add
  <2>3. Held' = (Held \cup {u}) \ {victim}
    BY <1>1, <1>2, <2>2 DEF Held, TypeOK
  <2>4. Cardinality(Held \cup {u}) = Cardinality(Held) + 1
    BY <2>1, FS_AddElement DEF WithinCapacity
  <2>5. /\ IsFiniteSet(Held')
        /\ Cardinality(Held') = Cardinality(Held \cup {u}) - 1
    BY <1>2, <2>2, <2>3, FS_RemoveElement
  <2>6. Cardinality(Held) \in Nat
    BY FS_CardinalityType DEF WithinCapacity
  <2>7. Cardinality(Held') = Cardinality(Held)
    BY <2>4, <2>5, <2>6
  <2>8. QED BY <2>5, <2>7 DEF WithinCapacity, SizeBound
<1>5. QED BY <1>3, <1>4

\* A step that stores nothing leaves no more entries than there were.
LEMMA ShrinkSize ==
    ASSUME WithinCapacity, Held' \subseteq Held
    PROVE  WithinCapacity'
<1>1. /\ IsFiniteSet(Held')
      /\ Cardinality(Held') <= Cardinality(Held)
  BY FS_Subset DEF WithinCapacity
<1>2. Cardinality(Held) \in Nat /\ Cardinality(Held') \in Nat
  BY <1>1, FS_CardinalityType DEF WithinCapacity
<1>3. QED BY <1>1, <1>2, MaxSizeAssumption DEF WithinCapacity, SizeBound

LEMMA SizeNext ==
    ASSUME TypeOK, Bound, WithinCapacity, [Next]_vars
    PROVE  WithinCapacity'
<1>1. ASSUME NEW u \in Users, Expire(u)
      PROVE  Held' \subseteq Held
  BY <1>1 DEF Expire, Servable, Held, TypeOK
<1>2. ASSUME NEW r \in Requests, RequestStep(r), ~Fill(r)
      PROVE  Held' \subseteq Held
  BY <1>2 DEF RequestStep, RecheckHit, RecheckRemove, Join, GetAgain, Cancelled,
              Snapshot, Load, LoadFails, Compare, Finish, Held, TypeOK
<1>3. ASSUME NEW r \in Requests, Fill(r)
      PROVE  WithinCapacity'
  BY <1>3, AddSize DEF Fill, Bound
<1>4. ASSUME NEW w \in Writers, WriterStep(w)
      PROVE  Held' \subseteq Held
  BY <1>4 DEF WriterStep, Remove, Bump, Held, TypeOK
<1>5. ASSUME NEW l \in Logins, LoginSet(l)
      PROVE  WithinCapacity'
  <2>1. luid[l] \in Users /\ lval[l] \in Nat /\ Add(luid[l], lval[l])
    BY <1>5 DEF LoginSet, Bound, TypeOK
  <2>2. QED BY <2>1, AddSize
<1>6. ASSUME \/ \E r \in Requests, u \in Users : Start(r, u)
             \/ \E w \in Writers, u \in Users : Write(w, u)
             \/ \E l \in Logins, u \in Users : LoginRead(l, u)
             \/ \E l \in Logins : LoginRejected(l)
             \/ UNCHANGED vars
      PROVE  Held' \subseteq Held
  BY <1>6 DEF Start, Write, LoginRead, LoginRejected, vars, Held
<1>7. QED
  BY <1>1, <1>2, <1>3, <1>4, <1>5, <1>6, ShrinkSize DEF Next, LoginStep

\* The LRU stays within maxSize under every interleaving of fills and logins.
THEOREM CapacityRespected == Spec => []SizeBound
<1>1. Init => WithinCapacity
  <2>1. Init => Held = {}
    BY DEF Init, Held
  <2>2. QED BY <2>1, FS_EmptySet, MaxSizeAssumption DEF WithinCapacity, SizeBound
<1>2. TypeOK /\ Bound /\ WithinCapacity /\ [Next]_vars => WithinCapacity'
  BY SizeNext
<1>3. WithinCapacity => SizeBound
  BY DEF WithinCapacity
<1>4. QED BY <1>1, <1>2, <1>3, TypeCorrect, PTL DEF Spec
=============================================================================
