-------------------------- MODULE Services_proofs --------------------------
(***************************************************************************)
(* Theorems about Services, for every value of its constants: each of its  *)
(* parts has an inductive invariant of its own, and a step of one part is  *)
(* a stutter of the others.                                                *)
(***************************************************************************)
EXTENDS Services, Sums_proofs

-----------------------------------------------------------------------------
(* Startup: the files of a release and the credits it moves.               *)

InstanceState ==
    [at : {"down", "waiting", "checking", "recording", "listing", "moving", "up"},
     file : 0 .. Migrations + 1, todo : SUBSET OldUsers]

Purse == [moved : BOOLEAN, own : Int, org : Int, taken : BOOLEAN]

StartTypes ==
    /\ instance \in [Instances -> InstanceState]
    /\ advisory \in Instances \cup {St!NoInstance}
    /\ applied \subseteq 1 .. Migrations
    /\ executed \in [1 .. Migrations -> Nat]
    /\ purse \in [OldUsers -> Purse]
    /\ deaths \in Nat

\* Only the holder of the lock goes through the files; those behind it are applied.
HolderApplies ==
    \A i \in Instances :
        instance[i].at \in {"checking", "recording"} =>
            /\ advisory = i /\ instance[i].file > 0
            /\ \A k \in 1 .. Migrations : k < instance[i].file => k \in applied
            /\ instance[i].at = "recording" => instance[i].file \in 1 .. Migrations \ applied

\* A file was executed once more than an instance was lost only if it is applied or about to be.
Recorded(m) == \E i \in Instances : instance[i].at = "recording" /\ instance[i].file = m

ExecutionsCounted ==
    \A m \in 1 .. Migrations :
        /\ executed[m] <= deaths + 1
        /\ executed[m] > deaths => m \in applied \/ Recorded(m)
        /\ executed[m] > 0 => \A k \in 1 .. Migrations : k < m => k \in applied

StartInv == StartTypes /\ HolderApplies /\ ExecutionsCounted /\ St!CreditsMovedOnce

\* An instance that moves on, or on to a file, is one still.
LEMMA InstanceMoves ==
    ASSUME NEW r \in InstanceState, NEW n \in 0 .. Migrations + 1,
           NEW p \in {"down", "waiting", "checking", "recording", "listing", "moving", "up"}
    PROVE  /\ [r EXCEPT !.at = p] \in InstanceState /\ [r EXCEPT !.file = n] \in InstanceState
           /\ [r EXCEPT !.at = p, !.file = n] \in InstanceState
    BY DEF InstanceState

\* No instance is up, and nothing was executed or moved yet.
LEMMA StartInvInit == St!StartInit => StartInv
<1> SUFFICES ASSUME St!StartInit PROVE StartInv
    OBVIOUS
<1> USE DEF St!StartInit, St!Down
<1>1. StartTypes
  <2>1. instance \in [Instances -> InstanceState]
    BY StartConstants DEF InstanceState
  <2>2. ASSUME NEW u \in OldUsers PROVE purse[u] \in Purse
    <3>1. PICK t \in BOOLEAN : purse[u] = [moved |-> FALSE, own |-> OldCents, org |-> 0, taken |-> t]
      OBVIOUS
    <3> QED BY <3>1, StartConstants DEF Purse
  <2>3. purse \in [OldUsers -> Purse]
    BY <2>2
  <2> QED BY <2>1, <2>3, StartConstants DEF StartTypes
<1>2. HolderApplies
    BY DEF HolderApplies
<1>3. ExecutionsCounted
    BY StartConstants DEF ExecutionsCounted
<1>4. St!CreditsMovedOnce
    BY StartConstants DEF St!CreditsMovedOnce
<1> QED BY <1>1, <1>2, <1>3, <1>4 DEF StartInv

\* Every step of an instance preserves the invariant of Startup.
LEMMA StartInvNext == StartInv /\ [St!StartNext]_startVars => StartInv'
<1> SUFFICES ASSUME StartInv, [St!StartNext]_startVars PROVE StartInv'
    OBVIOUS
<1> USE DEF St!On, St!Reaches
<1>0. StartTypes /\ HolderApplies /\ ExecutionsCounted /\ St!CreditsMovedOnce
    BY DEF StartInv
<1>1. ASSUME NEW i \in Instances, St!Boot(i) PROVE StartInv'
  <2>1. StartTypes'
    BY <1>0, <1>1, StartConstants DEF StartTypes, InstanceState, St!Boot
  <2>2. HolderApplies'
    BY <1>0, <1>1, StartConstants DEF HolderApplies, StartTypes, InstanceState, St!Boot
  <2>3. ExecutionsCounted'
    BY <1>0, <1>1, StartConstants DEF ExecutionsCounted, HolderApplies, Recorded, StartTypes, InstanceState, St!Boot
  <2>4. St!CreditsMovedOnce'
    BY <1>0, <1>1, StartConstants DEF St!CreditsMovedOnce, StartTypes, InstanceState, St!Boot
  <2> QED BY <2>1, <2>2, <2>3, <2>4 DEF StartInv
<1>2. ASSUME NEW i \in Instances, St!Lock(i) PROVE StartInv'
  <2>1. StartTypes'
    <3>1. instance[i] \in InstanceState
      BY <1>0 DEF StartTypes
    <3>2. [instance[i] EXCEPT !.at = "checking", !.file = 1] \in InstanceState
      <4>1. 1 \in 0 .. Migrations + 1
        BY StartConstants
      <4> QED BY <3>1, <4>1, InstanceMoves
    <3>3. instance' = [instance EXCEPT ![i] = [instance[i] EXCEPT !.at = "checking", !.file = 1]]
      BY <1>2 DEF St!Lock
    <3> QED BY <1>0, <1>2, <3>2, <3>3 DEF StartTypes, St!Lock
  <2>2. HolderApplies'
    BY <1>0, <1>2, StartConstants DEF HolderApplies, StartTypes, InstanceState, St!Lock
  <2>3. ExecutionsCounted'
    BY <1>0, <1>2, StartConstants DEF ExecutionsCounted, HolderApplies, Recorded, StartTypes, InstanceState, St!Lock
  <2>4. St!CreditsMovedOnce'
    BY <1>0, <1>2, StartConstants DEF St!CreditsMovedOnce, StartTypes, InstanceState, St!Lock
  <2> QED BY <2>1, <2>2, <2>3, <2>4 DEF StartInv
<1>3. ASSUME NEW i \in Instances, St!ApplyFile(i) PROVE StartInv'
  <2>1. StartTypes'
    <3>1. instance[i] \in InstanceState
      BY <1>0 DEF StartTypes
    <3>2. \E r \in InstanceState : instance' = [instance EXCEPT ![i] = r]
      <4>1. CASE instance' = [instance EXCEPT ![i].file = @ + 1] /\ instance[i].file \in applied
        <5>0. instance[i].file + 1 \in 0 .. Migrations + 1
          BY <1>0, <4>1, StartConstants DEF StartTypes
        <5>1. [instance[i] EXCEPT !.file = instance[i].file + 1] \in InstanceState
          BY <3>1, <5>0, InstanceMoves
        <5> QED BY <4>1, <5>1
      <4>2. CASE St!Reaches(i, "listing") \/ St!Reaches(i, "recording")
        <5>1. \A p \in {"listing", "recording"} : [instance[i] EXCEPT !.at = p] \in InstanceState
          BY <3>1 DEF InstanceState
        <5> QED BY <4>2, <5>1
      <4> QED BY <1>3, <4>1, <4>2 DEF St!ApplyFile
    <3>3. executed' \in [1 .. Migrations -> Nat]
      BY <1>0, <1>3 DEF St!ApplyFile, StartTypes
    <3>4. instance' \in [Instances -> InstanceState]
      BY <1>0, <3>2 DEF StartTypes
    <3> QED BY <1>0, <1>3, <3>3, <3>4 DEF StartTypes, St!ApplyFile
  <2>2. HolderApplies'
    <3>1. instance[i] \in InstanceState
      BY <1>0 DEF StartTypes
    <3>2. \A j \in Instances \ {i} : instance'[j] = instance[j] /\ instance[j].at \notin {"checking", "recording"}
      BY <1>0, <1>3 DEF St!ApplyFile, HolderApplies, StartTypes
    <3>3. CASE instance' = [instance EXCEPT ![i].file = @ + 1] /\ instance[i].file \in applied /\ advisory' = advisory
      <4>1. instance'[i].at = "checking" /\ instance'[i].file = instance[i].file + 1
        BY <1>0, <1>3, <3>1, <3>3 DEF St!ApplyFile, InstanceState, StartTypes
      <4>2. \A k \in 1 .. Migrations : k < instance[i].file + 1 => k \in applied
        BY <1>0, <1>3, <3>1, <3>3, StartConstants DEF St!ApplyFile, InstanceState, HolderApplies
      <4> QED BY <1>0, <1>3, <3>1, <3>2, <3>3, <4>1, <4>2 DEF St!ApplyFile, InstanceState, HolderApplies, StartTypes
    <3>4. CASE St!Reaches(i, "listing")
      BY <1>0, <1>3, <3>1, <3>2, <3>4 DEF St!ApplyFile, InstanceState, HolderApplies, StartTypes
    <3>5. CASE St!Reaches(i, "recording") /\ advisory' = advisory /\ instance[i].file \in 1 .. Migrations \ applied
      BY <1>0, <1>3, <3>1, <3>2, <3>5 DEF St!ApplyFile, InstanceState, HolderApplies, StartTypes
    <3> QED BY <1>3, <3>3, <3>4, <3>5 DEF St!ApplyFile
  <2>3. ExecutionsCounted'
    <3>1. \A j \in Instances \ {i} : instance'[j] = instance[j] /\ instance[j].at \notin {"checking", "recording"}
      BY <1>0, <1>3 DEF St!ApplyFile, HolderApplies, StartTypes
    <3>2. \A m \in 1 .. Migrations : ~Recorded(m)
      BY <1>3, <3>1 DEF Recorded, St!ApplyFile
    <3>3. deaths \in Nat /\ executed \in [1 .. Migrations -> Nat] /\ UNCHANGED <<applied, deaths>>
      BY <1>0, <1>3 DEF StartTypes, St!ApplyFile
    <3>4. CASE UNCHANGED executed
      BY <1>0, <3>2, <3>3, <3>4 DEF ExecutionsCounted
    <3>5. CASE /\ instance[i].file \in 1 .. Migrations \ applied
               /\ executed' = [executed EXCEPT ![instance[i].file] = @ + 1] /\ St!Reaches(i, "recording")
      <4>1. Recorded(instance[i].file)'
        BY <1>0, <3>5 DEF Recorded, StartTypes, InstanceState
      <4>2. \A k \in 1 .. Migrations : k < instance[i].file => k \in applied
        BY <1>0, <1>3 DEF HolderApplies, St!ApplyFile
      <4>3. \A m \in 1 .. Migrations : m # instance[i].file => executed'[m] = executed[m]
        BY <3>3, <3>5
      <4>4. executed'[instance[i].file] = executed[instance[i].file] + 1 /\ executed[instance[i].file] <= deaths
        BY <1>0, <3>2, <3>3, <3>5 DEF ExecutionsCounted
      <4> QED BY <1>0, <3>2, <3>3, <3>5, <4>1, <4>2, <4>3, <4>4 DEF ExecutionsCounted
    <3> QED BY <1>3, <3>4, <3>5 DEF St!ApplyFile
  <2>4. St!CreditsMovedOnce'
    BY <1>0, <1>3, StartConstants DEF St!CreditsMovedOnce, StartTypes, InstanceState, St!ApplyFile
  <2> QED BY <2>1, <2>2, <2>3, <2>4 DEF StartInv
<1>4. ASSUME NEW i \in Instances, St!RecordFile(i) PROVE StartInv'
  <2>1. StartTypes'
    <3>1. instance[i] \in InstanceState /\ instance[i].file \in 1 .. Migrations
      BY <1>0, <1>4 DEF StartTypes, HolderApplies, St!RecordFile
    <3>2. [instance[i] EXCEPT !.at = "checking", !.file = instance[i].file + 1] \in InstanceState
      <4>1. instance[i].file + 1 \in 0 .. Migrations + 1
        BY <3>1, StartConstants
      <4> QED BY <3>1, <4>1, InstanceMoves
    <3>3. instance' = [instance EXCEPT ![i] = [instance[i] EXCEPT !.at = "checking", !.file = instance[i].file + 1]]
      BY <1>4 DEF St!RecordFile
    <3> QED BY <1>0, <1>4, <3>1, <3>2, <3>3 DEF StartTypes, St!RecordFile
  <2>2. HolderApplies'
    BY <1>0, <1>4, StartConstants DEF HolderApplies, StartTypes, InstanceState, St!RecordFile
  <2>3. ExecutionsCounted'
    BY <1>0, <1>4, StartConstants DEF ExecutionsCounted, HolderApplies, Recorded, StartTypes, InstanceState, St!RecordFile
  <2>4. St!CreditsMovedOnce'
    BY <1>0, <1>4, StartConstants DEF St!CreditsMovedOnce, StartTypes, InstanceState, St!RecordFile
  <2> QED BY <2>1, <2>2, <2>3, <2>4 DEF StartInv
<1>5. ASSUME NEW i \in Instances, St!ListUsers(i) PROVE StartInv'
  <2>1. StartTypes'
    <3>1. instance[i] \in InstanceState
      BY <1>0 DEF StartTypes
    <3>2. [instance[i] EXCEPT !.at = "moving", !.todo = {u \in OldUsers : ~purse[u].moved}] \in InstanceState
      BY <3>1 DEF InstanceState
    <3>3. instance' \in [Instances -> InstanceState]
      BY <1>0, <1>5, <3>2 DEF StartTypes, St!ListUsers
    <3> QED BY <1>0, <1>5, <3>3 DEF StartTypes, St!ListUsers
  <2>2. HolderApplies'
    BY <1>0, <1>5, StartConstants DEF HolderApplies, StartTypes, InstanceState, St!ListUsers
  <2>3. ExecutionsCounted'
    BY <1>0, <1>5, StartConstants DEF ExecutionsCounted, HolderApplies, Recorded, StartTypes, InstanceState, St!ListUsers
  <2>4. St!CreditsMovedOnce'
    BY <1>0, <1>5, StartConstants DEF St!CreditsMovedOnce, StartTypes, InstanceState, St!ListUsers
  <2> QED BY <2>1, <2>2, <2>3, <2>4 DEF StartInv
<1>6. ASSUME NEW i \in Instances, St!MoveUser(i) PROVE StartInv'
  <2>1. StartTypes'
    <3>1. instance[i] \in InstanceState
      BY <1>0 DEF StartTypes
    <3>2. \E r \in InstanceState : instance' = [instance EXCEPT ![i] = r]
      <4>1. \A u \in OldUsers : [instance[i] EXCEPT !.todo = instance[i].todo \ {u}] \in InstanceState
        BY <3>1 DEF InstanceState
      <4>2. [at |-> "down", file |-> 0, todo |-> {}] \in InstanceState
        BY StartConstants DEF InstanceState
      <4>3. instance[i].todo \subseteq OldUsers
        BY <3>1 DEF InstanceState
      <4>4. PICK u \in instance[i].todo : \/ instance' = [instance EXCEPT ![i].todo = @ \ {u}]
                                          \/ instance' = [instance EXCEPT ![i] = St!Down]
        BY <1>6 DEF St!MoveUser
      <4>5. CASE instance' = [instance EXCEPT ![i].todo = @ \ {u}]
        <5>1. [instance[i] EXCEPT !.todo = instance[i].todo \ {u}] \in InstanceState
          BY <4>1, <4>3
        <5> QED BY <4>5, <5>1
      <4>6. CASE instance' = [instance EXCEPT ![i] = St!Down]
        BY <4>2, <4>6 DEF St!Down
      <4> QED BY <4>4, <4>5, <4>6
    <3>3. instance' \in [Instances -> InstanceState]
      BY <1>0, <3>2 DEF StartTypes
    <3>4. purse' \in [OldUsers -> Purse]
      <4>1. PICK u \in OldUsers : \/ purse' = purse
                                  \/ purse' = [purse EXCEPT ![u] = [moved |-> TRUE, own |-> 0, org |-> purse[u].org + purse[u].own, taken |-> purse[u].taken]]
        BY <1>6, <3>1 DEF St!MoveUser, InstanceState
      <4>2. purse[u] \in Purse
        BY <1>0 DEF StartTypes
      <4>3. purse[u].org + purse[u].own \in Int
        BY <4>2 DEF Purse
      <4>4. [moved |-> TRUE, own |-> 0, org |-> purse[u].org + purse[u].own, taken |-> purse[u].taken] \in Purse
        BY <4>2, <4>3 DEF Purse
      <4> QED BY <1>0, <4>1, <4>4 DEF StartTypes
    <3>5. deaths' \in Nat
      BY <1>0, <1>6 DEF St!MoveUser, StartTypes
    <3> QED BY <1>0, <1>6, <3>3, <3>4, <3>5 DEF StartTypes, St!MoveUser
  <2>2. HolderApplies'
    <3>1. instance[i].at = "moving"
      BY <1>6 DEF St!MoveUser
    <3>2. instance'[i].at \in {"moving", "down"} /\ \A j \in Instances \ {i} : instance'[j] = instance[j]
      BY <1>0, <1>6, <3>1 DEF St!MoveUser, StartTypes, InstanceState, St!Down
    <3>3. UNCHANGED <<advisory, applied, executed>>
      BY <1>6 DEF St!MoveUser
    <3> QED BY <1>0, <3>1, <3>2, <3>3 DEF HolderApplies
  <2>3. ExecutionsCounted'
    <3>1. instance[i].at = "moving"
      BY <1>6 DEF St!MoveUser
    <3>2. \A j \in Instances \ {i} : instance'[j] = instance[j]
      BY <1>0, <1>6, <3>1 DEF St!MoveUser, StartTypes
    <3>3. \A m \in 1 .. Migrations : Recorded(m) => Recorded(m)'
      BY <3>1, <3>2 DEF Recorded
    <3>4. UNCHANGED <<advisory, applied, executed>> /\ deaths' \in {deaths, deaths + 1}
      BY <1>6 DEF St!MoveUser
    <3>5. deaths \in Nat /\ \A m \in 1 .. Migrations : executed[m] \in Nat
      BY <1>0 DEF StartTypes
    <3>6. ASSUME NEW m \in 1 .. Migrations
          PROVE  executed'[m] <= deaths' + 1 /\ (executed'[m] > deaths' => m \in applied' \/ Recorded(m)')
      BY <1>0, <3>3, <3>4, <3>5 DEF ExecutionsCounted
    <3>7. ASSUME NEW m \in 1 .. Migrations, executed'[m] > 0, NEW k \in 1 .. Migrations, k < m
          PROVE  k \in applied'
      BY <1>0, <3>4, <3>7 DEF ExecutionsCounted
    <3> QED BY <3>6, <3>7 DEF ExecutionsCounted
  <2>4. St!CreditsMovedOnce'
    <3>1. instance[i].todo \subseteq OldUsers
      BY <1>0 DEF StartTypes, InstanceState
    <3>2. PICK u \in OldUsers : \/ purse' = purse
                                \/ purse' = [purse EXCEPT ![u] = [moved |-> TRUE, own |-> 0,
                                       org |-> purse[u].org + purse[u].own, taken |-> purse[u].taken]]
      BY <1>6, <3>1 DEF St!MoveUser
    <3>3. \A v \in OldUsers : purse[v].own \in Int /\ purse[v].org \in Int /\ purse[v].own + purse[v].org = OldCents
      BY <1>0 DEF St!CreditsMovedOnce, StartTypes, Purse
    <3>4. \A v \in OldUsers : purse'[v].own + purse'[v].org = purse[v].own + purse[v].org
      BY <1>0, <3>2, <3>3 DEF StartTypes
    <3> QED BY <3>3, <3>4 DEF St!CreditsMovedOnce
  <2> QED BY <2>1, <2>2, <2>3, <2>4 DEF StartInv
<1>7. ASSUME NEW i \in Instances, St!Serve(i) PROVE StartInv'
  <2>1. StartTypes'
    BY <1>0, <1>7, StartConstants DEF StartTypes, InstanceState, St!Serve
  <2>2. HolderApplies'
    BY <1>0, <1>7, StartConstants DEF HolderApplies, StartTypes, InstanceState, St!Serve
  <2>3. ExecutionsCounted'
    BY <1>0, <1>7, StartConstants DEF ExecutionsCounted, HolderApplies, Recorded, StartTypes, InstanceState, St!Serve
  <2>4. St!CreditsMovedOnce'
    BY <1>0, <1>7, StartConstants DEF St!CreditsMovedOnce, StartTypes, InstanceState, St!Serve
  <2> QED BY <2>1, <2>2, <2>3, <2>4 DEF StartInv
<1>8. ASSUME NEW i \in Instances, St!DieStarting(i) PROVE StartInv'
  <2>1. StartTypes'
    BY <1>0, <1>8, StartConstants DEF StartTypes, InstanceState, St!DieStarting, St!Down
  <2>2. HolderApplies'
    BY <1>0, <1>8, StartConstants DEF HolderApplies, StartTypes, InstanceState, St!DieStarting, St!Down
  <2>3. ExecutionsCounted'
    BY <1>0, <1>8, StartConstants DEF ExecutionsCounted, HolderApplies, Recorded, StartTypes, InstanceState, St!DieStarting, St!Down
  <2>4. St!CreditsMovedOnce'
    BY <1>0, <1>8, StartConstants DEF St!CreditsMovedOnce, StartTypes, InstanceState, St!DieStarting, St!Down
  <2> QED BY <2>1, <2>2, <2>3, <2>4 DEF StartInv
<1>9. CASE UNCHANGED startVars
    BY <1>0, <1>9 DEF StartInv, startVars, StartTypes, HolderApplies, ExecutionsCounted, Recorded, St!CreditsMovedOnce
<1> QED BY <1>1, <1>2, <1>3, <1>4, <1>5, <1>6, <1>7, <1>8, <1>9 DEF St!StartNext

-----------------------------------------------------------------------------
(* The row of a user, the caches of a process and the profile.             *)

RowTyped ==
    row = [site |-> row.site, profile |-> row.profile, cents |-> row.cents] /\ row.cents \in Int

CacheTyped ==
    /\ cache = [user |-> cache.user, usage |-> cache.usage]
    /\ cache.user = [held |-> cache.user.held, value |-> cache.user.value, late |-> cache.user.late,
                     astray |-> cache.user.astray]
    /\ cache.usage = [held |-> cache.usage.held, value |-> cache.usage.value, late |-> cache.usage.late,
                      astray |-> cache.usage.astray]

PagesTyped ==
    /\ page = [g \in Pages |-> page[g]]
    /\ \A g \in Pages :
        page[g] = [at |-> page[g].at, view |-> page[g].view, late |-> page[g].late, site |-> page[g].site]

EnrichersTyped ==
    /\ enricher = [e \in Enrichers |-> enricher[e]]
    /\ \A e \in Enrichers : enricher[e] = [at |-> enricher[e].at, site |-> enricher[e].site]

UserTypes == RowTyped /\ CacheTyped /\ PagesTyped /\ EnrichersTyped

\* What a request has read is what the row says, unless the row has overtaken it.
ReadsFollow ==
    \A g \in Pages :
        /\ page[g].at = "reading" /\ ~page[g].late => page[g].view = Us!UserView
        /\ page[g].at = "balance" /\ ~page[g].late => page[g].view = <<row.cents>>

UserInv == UserTypes /\ ReadsFollow /\ Us!CachesFollow /\ Us!ProfileOfSite

\* Nothing is cached, and the profile is that of the stored website.
LEMMA UserInvInit == Us!UserInit => UserInv
<1> SUFFICES ASSUME Us!UserInit PROVE UserInv
    OBVIOUS
<1> USE DEF Us!UserInit, Us!NotHeld, Us!OffPage, Us!NoTask
<1>1. UserTypes
  <2>1. RowTyped
    BY UserConstants DEF RowTyped
  <2>2. CacheTyped
    BY DEF CacheTyped
  <2>3. PagesTyped
    BY DEF PagesTyped
  <2>4. EnrichersTyped
    BY DEF EnrichersTyped
  <2> QED BY <2>1, <2>2, <2>3, <2>4 DEF UserTypes
<1>2. ReadsFollow
    BY DEF ReadsFollow
<1>3. Us!CachesFollow
    BY DEF Us!CachesFollow, Us!Current
<1>4. Us!ProfileOfSite
    BY DEF Us!ProfileOfSite
<1> QED BY <1>1, <1>2, <1>3, <1>4 DEF UserInv

\* Every step of a page, an enrichment or a purchase preserves the invariant of UserRecord.
LEMMA UserInvNext == UserInv /\ [Us!UserNext]_userVars => UserInv'
<1> SUFFICES ASSUME UserInv, [Us!UserNext]_userVars PROVE UserInv'
    OBVIOUS
<1> USE DEF Us!PageAt, Us!Leave, Us!UserView, Us!OffPage, Us!NotHeld, Us!NoTask, Us!Overtaken, Us!InvalidateUser, Us!Current
<1>0. UserTypes /\ ReadsFollow /\ Us!CachesFollow /\ Us!ProfileOfSite
    BY DEF UserInv
<1>1. CASE Us!CacheExpires
  <2>1. UserTypes'
    <3>1. RowTyped'
      BY <1>0, <1>1, UserConstants DEF UserTypes, RowTyped, Us!CacheExpires
    <3>2. CacheTyped'
      <4>1. DOMAIN cache = {"user", "usage"}
        BY <1>0 DEF UserTypes, CacheTyped
      <4>2. CASE cache' = [cache EXCEPT !["user"] = Us!NotHeld]
        BY <1>0, <4>1, <4>2 DEF UserTypes, CacheTyped
      <4>3. CASE cache' = [cache EXCEPT !["usage"] = Us!NotHeld]
        BY <1>0, <4>1, <4>3 DEF UserTypes, CacheTyped
      <4> QED BY <1>1, <4>1, <4>2, <4>3 DEF Us!CacheExpires
    <3>3. PagesTyped'
      BY <1>0, <1>1 DEF UserTypes, PagesTyped, Us!CacheExpires
    <3>4. EnrichersTyped'
      BY <1>0, <1>1 DEF UserTypes, EnrichersTyped, Us!CacheExpires
    <3> QED BY <3>1, <3>2, <3>3, <3>4 DEF UserTypes
  <2>2. ReadsFollow'
    BY <1>0, <1>1, UserConstants DEF ReadsFollow, UserTypes, RowTyped, CacheTyped, PagesTyped, EnrichersTyped, Us!CacheExpires
  <2>3. Us!CachesFollow'
    BY <1>0, <1>1, UserConstants DEF Us!CachesFollow, UserTypes, RowTyped, CacheTyped, PagesTyped, EnrichersTyped, ReadsFollow, Us!CacheExpires
  <2>4. Us!ProfileOfSite'
    BY <1>0, <1>1, UserConstants DEF Us!ProfileOfSite, UserTypes, RowTyped, CacheTyped, PagesTyped, EnrichersTyped, Us!CacheExpires
  <2> QED BY <2>1, <2>2, <2>3, <2>4 DEF UserInv
<1>2. CASE Us!ChangeBalance
  <2>1. UserTypes'
    <3>1. RowTyped'
      BY <1>0, <1>2, UserConstants DEF UserTypes, RowTyped, Us!ChangeBalance, Us!Spend
    <3>2. CacheTyped'
      BY <1>0, <1>2 DEF UserTypes, CacheTyped, Us!ChangeBalance, Us!Spend
    <3>3. PagesTyped'
      BY <1>0, <1>2 DEF UserTypes, PagesTyped, Us!ChangeBalance, Us!Spend
    <3>4. EnrichersTyped'
      BY <1>0, <1>2 DEF UserTypes, EnrichersTyped, Us!ChangeBalance, Us!Spend
    <3> QED BY <3>1, <3>2, <3>3, <3>4 DEF UserTypes
  <2>2. ReadsFollow'
    BY <1>0, <1>2, UserConstants DEF ReadsFollow, UserTypes, RowTyped, CacheTyped, PagesTyped, EnrichersTyped, Us!ChangeBalance, Us!Spend
  <2>3. Us!CachesFollow'
    BY <1>0, <1>2, UserConstants DEF Us!CachesFollow, UserTypes, RowTyped, CacheTyped, PagesTyped, EnrichersTyped, ReadsFollow, Us!ChangeBalance, Us!Spend
  <2>4. Us!ProfileOfSite'
    BY <1>0, <1>2, UserConstants DEF Us!ProfileOfSite, UserTypes, RowTyped, CacheTyped, PagesTyped, EnrichersTyped, Us!ChangeBalance, Us!Spend
  <2> QED BY <2>1, <2>2, <2>3, <2>4 DEF UserInv
<1>3. CASE Us!ChangeBalanceElsewhere
  <2>1. UserTypes'
    <3>1. RowTyped'
      BY <1>0, <1>3, UserConstants DEF UserTypes, RowTyped, Us!ChangeBalanceElsewhere, Us!Spend
    <3>2. CacheTyped'
      BY <1>0, <1>3 DEF UserTypes, CacheTyped, Us!ChangeBalanceElsewhere, Us!Spend
    <3>3. PagesTyped'
      BY <1>0, <1>3 DEF UserTypes, PagesTyped, Us!ChangeBalanceElsewhere, Us!Spend
    <3>4. EnrichersTyped'
      BY <1>0, <1>3 DEF UserTypes, EnrichersTyped, Us!ChangeBalanceElsewhere, Us!Spend
    <3> QED BY <3>1, <3>2, <3>3, <3>4 DEF UserTypes
  <2>2. ReadsFollow'
    BY <1>0, <1>3, UserConstants DEF ReadsFollow, UserTypes, RowTyped, CacheTyped, PagesTyped, EnrichersTyped, Us!ChangeBalanceElsewhere, Us!Spend
  <2>3. Us!CachesFollow'
    BY <1>0, <1>3, UserConstants DEF Us!CachesFollow, UserTypes, RowTyped, CacheTyped, PagesTyped, EnrichersTyped, ReadsFollow, Us!ChangeBalanceElsewhere, Us!Spend
  <2>4. Us!ProfileOfSite'
    BY <1>0, <1>3, UserConstants DEF Us!ProfileOfSite, UserTypes, RowTyped, CacheTyped, PagesTyped, EnrichersTyped, Us!ChangeBalanceElsewhere, Us!Spend
  <2> QED BY <2>1, <2>2, <2>3, <2>4 DEF UserInv
<1>4. ASSUME NEW g \in Pages, Us!ReadUsage(g) PROVE UserInv'
  <2>1. UserTypes'
    <3>1. RowTyped'
      BY <1>0, <1>4, UserConstants DEF UserTypes, RowTyped, Us!ReadUsage
    <3>2. CacheTyped'
      BY <1>0, <1>4 DEF UserTypes, CacheTyped, Us!ReadUsage
    <3>3. PagesTyped'
      BY <1>0, <1>4 DEF UserTypes, PagesTyped, Us!ReadUsage
    <3>4. EnrichersTyped'
      BY <1>0, <1>4 DEF UserTypes, EnrichersTyped, Us!ReadUsage
    <3> QED BY <3>1, <3>2, <3>3, <3>4 DEF UserTypes
  <2>2. ReadsFollow'
    BY <1>0, <1>4, UserConstants DEF ReadsFollow, UserTypes, PagesTyped, Us!ReadUsage
  <2>3. Us!CachesFollow'
    BY <1>0, <1>4, UserConstants DEF Us!CachesFollow, UserTypes, RowTyped, CacheTyped, PagesTyped, EnrichersTyped, ReadsFollow, Us!ReadUsage
  <2>4. Us!ProfileOfSite'
    BY <1>0, <1>4, UserConstants DEF Us!ProfileOfSite, UserTypes, RowTyped, CacheTyped, PagesTyped, EnrichersTyped, Us!ReadUsage
  <2> QED BY <2>1, <2>2, <2>3, <2>4 DEF UserInv
<1>5. ASSUME NEW g \in Pages, Us!FillUsage(g) PROVE UserInv'
  <2>1. UserTypes'
    <3>1. RowTyped'
      BY <1>0, <1>5, UserConstants DEF UserTypes, RowTyped, Us!FillUsage, Us!Cached
    <3>2. CacheTyped'
      BY <1>0, <1>5 DEF UserTypes, CacheTyped, Us!FillUsage, Us!Cached
    <3>3. PagesTyped'
      BY <1>0, <1>5 DEF UserTypes, PagesTyped, Us!FillUsage, Us!Cached
    <3>4. EnrichersTyped'
      BY <1>0, <1>5 DEF UserTypes, EnrichersTyped, Us!FillUsage, Us!Cached
    <3> QED BY <3>1, <3>2, <3>3, <3>4 DEF UserTypes
  <2>2. ReadsFollow'
    BY <1>0, <1>5, UserConstants DEF ReadsFollow, UserTypes, PagesTyped, Us!FillUsage, Us!Cached
  <2>3. Us!CachesFollow'
    BY <1>0, <1>5, UserConstants DEF Us!CachesFollow, UserTypes, RowTyped, CacheTyped, PagesTyped, EnrichersTyped, ReadsFollow, Us!FillUsage, Us!Cached
  <2>4. Us!ProfileOfSite'
    BY <1>0, <1>5, UserConstants DEF Us!ProfileOfSite, UserTypes, RowTyped, CacheTyped, PagesTyped, EnrichersTyped, Us!FillUsage, Us!Cached
  <2> QED BY <2>1, <2>2, <2>3, <2>4 DEF UserInv
<1>6. ASSUME NEW g \in Pages, Us!Open(g) PROVE UserInv'
  <2>1. UserTypes'
    <3>1. RowTyped'
      BY <1>0, <1>6, UserConstants DEF UserTypes, RowTyped, Us!Open
    <3>2. CacheTyped'
      BY <1>0, <1>6 DEF UserTypes, CacheTyped, Us!Open
    <3>3. PagesTyped'
      BY <1>0, <1>6 DEF UserTypes, PagesTyped, Us!Open
    <3>4. EnrichersTyped'
      BY <1>0, <1>6 DEF UserTypes, EnrichersTyped, Us!Open
    <3> QED BY <3>1, <3>2, <3>3, <3>4 DEF UserTypes
  <2>2. ReadsFollow'
    BY <1>0, <1>6, UserConstants DEF ReadsFollow, UserTypes, PagesTyped, Us!Open
  <2>3. Us!CachesFollow'
    BY <1>0, <1>6, UserConstants DEF Us!CachesFollow, UserTypes, RowTyped, CacheTyped, PagesTyped, EnrichersTyped, ReadsFollow, Us!Open
  <2>4. Us!ProfileOfSite'
    BY <1>0, <1>6, UserConstants DEF Us!ProfileOfSite, UserTypes, RowTyped, CacheTyped, PagesTyped, EnrichersTyped, Us!Open
  <2> QED BY <2>1, <2>2, <2>3, <2>4 DEF UserInv
<1>7. ASSUME NEW g \in Pages, Us!FillUser(g) PROVE UserInv'
  <2>1. UserTypes'
    <3>1. RowTyped'
      BY <1>0, <1>7, UserConstants DEF UserTypes, RowTyped, Us!FillUser, Us!Cached
    <3>2. CacheTyped'
      BY <1>0, <1>7 DEF UserTypes, CacheTyped, Us!FillUser, Us!Cached
    <3>3. PagesTyped'
      BY <1>0, <1>7 DEF UserTypes, PagesTyped, Us!FillUser, Us!Cached
    <3>4. EnrichersTyped'
      BY <1>0, <1>7 DEF UserTypes, EnrichersTyped, Us!FillUser, Us!Cached
    <3> QED BY <3>1, <3>2, <3>3, <3>4 DEF UserTypes
  <2>2. ReadsFollow'
    BY <1>0, <1>7, UserConstants DEF ReadsFollow, UserTypes, PagesTyped, Us!FillUser, Us!Cached
  <2>3. Us!CachesFollow'
    BY <1>0, <1>7, UserConstants DEF Us!CachesFollow, UserTypes, RowTyped, CacheTyped, PagesTyped, EnrichersTyped, ReadsFollow, Us!FillUser, Us!Cached
  <2>4. Us!ProfileOfSite'
    BY <1>0, <1>7, UserConstants DEF Us!ProfileOfSite, UserTypes, RowTyped, CacheTyped, PagesTyped, EnrichersTyped, Us!FillUser, Us!Cached
  <2> QED BY <2>1, <2>2, <2>3, <2>4 DEF UserInv
<1>8. ASSUME NEW g \in Pages, Us!Clear(g) PROVE UserInv'
  <2>1. UserTypes'
    <3>1. RowTyped'
      BY <1>0, <1>8, UserConstants DEF UserTypes, RowTyped, Us!Clear
    <3>2. CacheTyped'
      BY <1>0, <1>8 DEF UserTypes, CacheTyped, Us!Clear
    <3>3. PagesTyped'
      BY <1>0, <1>8 DEF UserTypes, PagesTyped, Us!Clear
    <3>4. EnrichersTyped'
      BY <1>0, <1>8 DEF UserTypes, EnrichersTyped, Us!Clear
    <3> QED BY <3>1, <3>2, <3>3, <3>4 DEF UserTypes
  <2>2. ReadsFollow'
    BY <1>0, <1>8, UserConstants DEF ReadsFollow, UserTypes, PagesTyped, Us!Clear
  <2>3. Us!CachesFollow'
    BY <1>0, <1>8, UserConstants DEF Us!CachesFollow, UserTypes, RowTyped, CacheTyped, PagesTyped, EnrichersTyped, ReadsFollow, Us!Clear
  <2>4. Us!ProfileOfSite'
    BY <1>0, <1>8, UserConstants DEF Us!ProfileOfSite, UserTypes, RowTyped, CacheTyped, PagesTyped, EnrichersTyped, Us!Clear
  <2> QED BY <2>1, <2>2, <2>3, <2>4 DEF UserInv
<1>9. ASSUME NEW g \in Pages, Us!SendProfileTask(g) PROVE UserInv'
  <2>1. UserTypes'
    <3>1. RowTyped'
      BY <1>0, <1>9, UserConstants DEF UserTypes, RowTyped, Us!SendProfileTask
    <3>2. CacheTyped'
      BY <1>0, <1>9 DEF UserTypes, CacheTyped, Us!SendProfileTask
    <3>3. PagesTyped'
      BY <1>0, <1>9 DEF UserTypes, PagesTyped, Us!SendProfileTask
    <3>4. EnrichersTyped'
      BY <1>0, <1>9 DEF UserTypes, EnrichersTyped, Us!SendProfileTask
    <3> QED BY <3>1, <3>2, <3>3, <3>4 DEF UserTypes
  <2>2. ReadsFollow'
    BY <1>0, <1>9, UserConstants DEF ReadsFollow, UserTypes, PagesTyped, Us!SendProfileTask
  <2>3. Us!CachesFollow'
    BY <1>0, <1>9, UserConstants DEF Us!CachesFollow, UserTypes, RowTyped, CacheTyped, PagesTyped, EnrichersTyped, ReadsFollow, Us!SendProfileTask
  <2>4. Us!ProfileOfSite'
    BY <1>0, <1>9, UserConstants DEF Us!ProfileOfSite, UserTypes, RowTyped, CacheTyped, PagesTyped, EnrichersTyped, Us!SendProfileTask
  <2> QED BY <2>1, <2>2, <2>3, <2>4 DEF UserInv
<1>10. ASSUME NEW g \in Pages, Us!Close(g) PROVE UserInv'
  <2>1. UserTypes'
    <3>1. RowTyped'
      BY <1>0, <1>10, UserConstants DEF UserTypes, RowTyped, Us!Close
    <3>2. CacheTyped'
      BY <1>0, <1>10 DEF UserTypes, CacheTyped, Us!Close
    <3>3. PagesTyped'
      BY <1>0, <1>10 DEF UserTypes, PagesTyped, Us!Close
    <3>4. EnrichersTyped'
      BY <1>0, <1>10 DEF UserTypes, EnrichersTyped, Us!Close
    <3> QED BY <3>1, <3>2, <3>3, <3>4 DEF UserTypes
  <2>2. ReadsFollow'
    BY <1>0, <1>10, UserConstants DEF ReadsFollow, UserTypes, PagesTyped, Us!Close
  <2>3. Us!CachesFollow'
    BY <1>0, <1>10, UserConstants DEF Us!CachesFollow, UserTypes, RowTyped, CacheTyped, PagesTyped, EnrichersTyped, ReadsFollow, Us!Close
  <2>4. Us!ProfileOfSite'
    BY <1>0, <1>10, UserConstants DEF Us!ProfileOfSite, UserTypes, RowTyped, CacheTyped, PagesTyped, EnrichersTyped, Us!Close
  <2> QED BY <2>1, <2>2, <2>3, <2>4 DEF UserInv
<1>11. ASSUME NEW g \in Pages, NEW s \in Sites, NEW b \in BOOLEAN, Us!Save(g, s, b) PROVE UserInv'
  <2>1. UserTypes'
    <3>1. RowTyped'
      BY <1>0, <1>11, UserConstants DEF UserTypes, RowTyped, Us!Save
    <3>2. CacheTyped'
      BY <1>0, <1>11 DEF UserTypes, CacheTyped, Us!Save
    <3>3. PagesTyped'
      BY <1>0, <1>11 DEF UserTypes, PagesTyped, Us!Save
    <3>4. EnrichersTyped'
      BY <1>0, <1>11 DEF UserTypes, EnrichersTyped, Us!Save
    <3> QED BY <3>1, <3>2, <3>3, <3>4 DEF UserTypes
  <2>2. ReadsFollow'
    <3>1. row'.cents = row.cents
      BY <1>0, <1>11 DEF Us!Save, UserTypes, RowTyped
    <3>2. page'[g].at \in {"clearing", "idle"}
      BY <1>0, <1>11 DEF Us!Save, UserTypes, PagesTyped
    <3>3. ASSUME NEW h \in Pages \ {g}
          PROVE  page'[h].at = "reading" => page'[h].late
      <4>1. page'[h] = IF page[h].at = "reading" THEN [page[h] EXCEPT !.late = TRUE] ELSE page[h]
        BY <1>0, <1>11 DEF Us!Save, UserTypes, PagesTyped
      <4> QED BY <1>0, <4>1 DEF UserTypes, PagesTyped
    <3>4. ASSUME NEW h \in Pages \ {g}
          PROVE  page'[h].at = "balance" => page'[h] = page[h]
      <4>1. page'[h] = IF page[h].at = "reading" THEN [page[h] EXCEPT !.late = TRUE] ELSE page[h]
        BY <1>0, <1>11 DEF Us!Save, UserTypes, PagesTyped
      <4>2. page[h].at = "reading" => page'[h].at = "reading"
        BY <1>0, <4>1 DEF UserTypes, PagesTyped
      <4> QED BY <4>1, <4>2
    <3>5. ASSUME NEW h \in Pages, page'[h].at = "reading" PROVE page'[h].late
      BY <3>2, <3>3, <3>5
    <3>6. ASSUME NEW h \in Pages, page'[h].at = "balance", ~page'[h].late PROVE page'[h].view = <<row'.cents>>
      <4>1. h # g
        BY <3>2, <3>6
      <4>2. page'[h] = page[h]
        BY <3>4, <3>6, <4>1
      <4> QED BY <1>0, <3>1, <3>6, <4>2 DEF ReadsFollow
    <3> QED BY <3>5, <3>6 DEF ReadsFollow
  <2>3. Us!CachesFollow'
    BY <1>0, <1>11, UserConstants DEF Us!CachesFollow, UserTypes, RowTyped, CacheTyped, PagesTyped, EnrichersTyped, ReadsFollow, Us!Save
  <2>4. Us!ProfileOfSite'
    <3>1. UNCHANGED <<enricher, died>> /\ row'.profile = row.profile /\ row'.site = s /\ blind' = (blind \/ page[g].view # Us!UserView)
      BY <1>0, <1>11 DEF Us!Save, UserTypes, RowTyped
    <3>2. CASE b \/ s # page[g].view[1] \/ page[g].view[2] = Us!NoProfile
      <4>1. page'[g].at = "clearing"
        BY <1>0, <1>11, <3>2 DEF Us!Save, UserTypes, PagesTyped
      <4> QED BY <4>1 DEF Us!ProfileOfSite
    <3>3. CASE ~b /\ s = page[g].view[1] /\ page[g].view[2] # Us!NoProfile
      <4>1. ASSUME NEW h \in Pages \ {g} PROVE page'[h].at = page[h].at
        <5>1. page'[h] = IF page[h].at = "reading" THEN [page[h] EXCEPT !.late = TRUE] ELSE page[h]
          BY <1>0, <1>11 DEF Us!Save, UserTypes, PagesTyped
        <5> QED BY <1>0, <5>1 DEF UserTypes, PagesTyped
      <4>2. page[g].at = "signed in"
        BY <1>11 DEF Us!Save
      <4>3. page[g].view = <<row.site, row.profile>> => s = row.site
        BY <3>3
      <4> QED BY <1>0, <3>1, <4>1, <4>2, <4>3 DEF Us!ProfileOfSite
    <3> QED BY <3>2, <3>3
  <2> QED BY <2>1, <2>2, <2>3, <2>4 DEF UserInv
<1>12. ASSUME NEW e \in Enrichers, Us!StartProfile(e) PROVE UserInv'
  <2>1. UserTypes'
    <3>1. RowTyped'
      BY <1>0, <1>12, UserConstants DEF UserTypes, RowTyped, Us!StartProfile, Us!ProfileAndSite
    <3>2. CacheTyped'
      BY <1>0, <1>12 DEF UserTypes, CacheTyped, Us!StartProfile, Us!ProfileAndSite
    <3>3. PagesTyped'
      BY <1>0, <1>12 DEF UserTypes, PagesTyped, Us!StartProfile, Us!ProfileAndSite
    <3>4. EnrichersTyped'
      BY <1>0, <1>12 DEF UserTypes, EnrichersTyped, Us!StartProfile, Us!ProfileAndSite
    <3> QED BY <3>1, <3>2, <3>3, <3>4 DEF UserTypes
  <2>2. ReadsFollow'
    BY <1>0, <1>12, UserConstants DEF ReadsFollow, UserTypes, RowTyped, CacheTyped, PagesTyped, EnrichersTyped, Us!StartProfile, Us!ProfileAndSite
  <2>3. Us!CachesFollow'
    BY <1>0, <1>12, UserConstants DEF Us!CachesFollow, UserTypes, RowTyped, CacheTyped, PagesTyped, EnrichersTyped, ReadsFollow, Us!StartProfile, Us!ProfileAndSite
  <2>4. Us!ProfileOfSite'
    BY <1>0, <1>12, UserConstants DEF Us!ProfileOfSite, UserTypes, RowTyped, CacheTyped, PagesTyped, EnrichersTyped, Us!StartProfile, Us!ProfileAndSite
  <2> QED BY <2>1, <2>2, <2>3, <2>4 DEF UserInv
<1>13. ASSUME NEW e \in Enrichers, Us!WriteProfile(e) PROVE UserInv'
  <2>1. UserTypes'
    <3>1. RowTyped'
      BY <1>0, <1>13, UserConstants DEF UserTypes, RowTyped, Us!WriteProfile, Us!ProfileAndSite
    <3>2. CacheTyped'
      BY <1>0, <1>13 DEF UserTypes, CacheTyped, Us!WriteProfile, Us!ProfileAndSite
    <3>3. PagesTyped'
      BY <1>0, <1>13 DEF UserTypes, PagesTyped, Us!WriteProfile, Us!ProfileAndSite
    <3>4. EnrichersTyped'
      BY <1>0, <1>13 DEF UserTypes, EnrichersTyped, Us!WriteProfile, Us!ProfileAndSite
    <3> QED BY <3>1, <3>2, <3>3, <3>4 DEF UserTypes
  <2>2. ReadsFollow'
    BY <1>0, <1>13, UserConstants DEF ReadsFollow, UserTypes, RowTyped, CacheTyped, PagesTyped, EnrichersTyped, Us!WriteProfile, Us!ProfileAndSite
  <2>3. Us!CachesFollow'
    BY <1>0, <1>13, UserConstants DEF Us!CachesFollow, UserTypes, RowTyped, CacheTyped, PagesTyped, EnrichersTyped, ReadsFollow, Us!WriteProfile, Us!ProfileAndSite
  <2>4. Us!ProfileOfSite'
    BY <1>0, <1>13, UserConstants DEF Us!ProfileOfSite, UserTypes, RowTyped, CacheTyped, PagesTyped, EnrichersTyped, Us!WriteProfile, Us!ProfileAndSite
  <2> QED BY <2>1, <2>2, <2>3, <2>4 DEF UserInv
<1>14. ASSUME NEW e \in Enrichers, Us!ProfileFails(e) PROVE UserInv'
  <2>1. UserTypes'
    <3>1. RowTyped'
      BY <1>0, <1>14, UserConstants DEF UserTypes, RowTyped, Us!ProfileFails, Us!ProfileAndSite
    <3>2. CacheTyped'
      BY <1>0, <1>14 DEF UserTypes, CacheTyped, Us!ProfileFails, Us!ProfileAndSite
    <3>3. PagesTyped'
      BY <1>0, <1>14 DEF UserTypes, PagesTyped, Us!ProfileFails, Us!ProfileAndSite
    <3>4. EnrichersTyped'
      BY <1>0, <1>14 DEF UserTypes, EnrichersTyped, Us!ProfileFails, Us!ProfileAndSite
    <3> QED BY <3>1, <3>2, <3>3, <3>4 DEF UserTypes
  <2>2. ReadsFollow'
    BY <1>0, <1>14, UserConstants DEF ReadsFollow, UserTypes, RowTyped, CacheTyped, PagesTyped, EnrichersTyped, Us!ProfileFails, Us!ProfileAndSite
  <2>3. Us!CachesFollow'
    BY <1>0, <1>14, UserConstants DEF Us!CachesFollow, UserTypes, RowTyped, CacheTyped, PagesTyped, EnrichersTyped, ReadsFollow, Us!ProfileFails, Us!ProfileAndSite
  <2>4. Us!ProfileOfSite'
    BY <1>0, <1>14, UserConstants DEF Us!ProfileOfSite, UserTypes, RowTyped, CacheTyped, PagesTyped, EnrichersTyped, Us!ProfileFails, Us!ProfileAndSite
  <2> QED BY <2>1, <2>2, <2>3, <2>4 DEF UserInv
<1>15. CASE UNCHANGED userVars
    BY <1>0, <1>15 DEF UserInv, userVars, UserTypes, RowTyped, CacheTyped, PagesTyped, EnrichersTyped, ReadsFollow, Us!CachesFollow, Us!ProfileOfSite
<1> QED BY <1>1, <1>2, <1>3, <1>4, <1>5, <1>6, <1>7, <1>8, <1>9, <1>10, <1>11, <1>12, <1>13, <1>14, <1>15 DEF Us!UserNext, Us!BalanceNext, Us!ProfileNext, Us!SaveSettings, Us!CompleteOnboarding

-----------------------------------------------------------------------------
(* Accounts, tabs and invitations.                                         *)

TabFields == {"at", "who", "org", "token", "via"}

TeamTyped ==
    /\ DOMAIN home = People /\ DOMAIN provider = People
    /\ DOMAIN welcomed = People /\ sent \in 0 .. MaxInvites
    /\ joins \in [1 .. MaxInvites -> Nat]
    /\ DOMAIN tab = Tabs /\ \A t \in Tabs : DOMAIN tab[t] = TabFields
    /\ DOMAIN invite = People
    /\ \A o \in People : DOMAIN invite[o] = People
    /\ \A o, p \in People : DOMAIN invite[o][p] = {"state", "role", "token"}

\* Who has an account was welcomed, once.
AccountsWelcomed ==
    \A p \in People :
        /\ home[p] \in People \cup {Te!NoAccount}
        /\ welcomed[p] = IF home[p] # Te!NoAccount THEN 1 ELSE 0
        /\ provider[p] # "none" => home[p] # Te!NoAccount

\* What a request has come to know still stands.
TabsStand ==
    \A t \in Tabs :
        /\ tab[t].at # "idle" => tab[t].who \in People
        /\ tab[t].at = "new" => tab[t].via # "none"
        /\ tab[t].at \in {"known", "invited", "admin", "accepting"} => home[tab[t].who] # Te!NoAccount
        /\ tab[t].at \in {"invited", "admin", "accepting"} => tab[t].org \in People
        /\ tab[t].at \in {"invited", "accepting"} => tab[t].token \in 1 .. sent

\* Invitations have numbers of their own, and one that is pending let nobody in yet.
TokensApart ==
    /\ \A o, p \in People :
        /\ invite[o][p].token \in 0 .. sent
        /\ invite[o][p].state = "pending" => invite[o][p].token > 0 /\ joins[invite[o][p].token] = 0
    /\ \A o, p, q, r \in People :
        invite[o][p].token = invite[q][r].token /\ invite[o][p].token > 0 => o = q /\ p = r

JoinsCounted == \A n \in 1 .. MaxInvites : joins[n] <= 1 /\ (n > sent => joins[n] = 0)

TeamInv == TeamTyped /\ AccountsWelcomed /\ TabsStand /\ TokensApart /\ JoinsCounted

\* Nobody has an account yet.
LEMMA TeamInvInit == Te!TeamInit => TeamInv
<1> SUFFICES ASSUME Te!TeamInit PROVE TeamInv
    OBVIOUS
<1> USE TeamConstants DEF Te!TeamInit, Te!Idle, Te!NoInvite
<1>1. TeamTyped
    BY DEF TeamTyped, TabFields
<1>2. AccountsWelcomed /\ TabsStand
    BY DEF AccountsWelcomed, TabsStand
<1>3. TokensApart
    BY DEF TokensApart
<1>4. JoinsCounted
    BY DEF JoinsCounted
<1> QED BY <1>1, <1>2, <1>3, <1>4 DEF TeamInv

\* Withdrawing the invitations of some people leaves the numbers of the others.
LEMMA WithdrawnInvites ==
    ASSUME TokensApart, UNCHANGED <<sent, joins>>, sent \in Nat,
           \A a, b \in People : invite'[a][b] = invite[a][b] \/ invite'[a][b] = Te!NoInvite
    PROVE  TokensApart'
<1>1. Te!NoInvite.state # "pending" /\ Te!NoInvite.token = 0
    BY DEF Te!NoInvite
<1>2. ASSUME NEW a \in People, NEW b \in People
      PROVE  /\ invite'[a][b].token \in 0 .. sent
             /\ invite'[a][b].state = "pending" => invite'[a][b].token > 0 /\ joins[invite'[a][b].token] = 0
  <2>1. CASE invite'[a][b] = invite[a][b]
    BY <2>1 DEF TokensApart
  <2>2. CASE invite'[a][b] = Te!NoInvite
    BY <1>1, <2>2
  <2> QED BY <2>1, <2>2
<1>3. \A a, b \in People : invite'[a][b].token > 0 => invite'[a][b] = invite[a][b]
    BY <1>1
<1>4. ASSUME NEW a \in People, NEW b \in People, NEW q \in People, NEW r \in People,
             invite'[a][b].token = invite'[q][r].token, invite'[a][b].token > 0
      PROVE  a = q /\ b = r
    BY <1>3, <1>4 DEF TokensApart
<1> QED BY <1>2, <1>4 DEF TokensApart

\* Every step of a tab preserves the invariant of Team.
LEMMA TeamInvNext == TeamInv /\ [Te!TeamNext]_teamVars => TeamInv'
<1> SUFFICES ASSUME TeamInv, [Te!TeamNext]_teamVars PROVE TeamInv'
    OBVIOUS
<1> USE DEF Te!At, Te!Move, Te!Finish, Te!Idle, Te!Pending, Te!HasAccount
<1>0. TeamTyped /\ AccountsWelcomed /\ TabsStand /\ TokensApart /\ JoinsCounted
    BY DEF TeamInv
<1>1. ASSUME NEW t \in Tabs, NEW p \in People, NEW via \in {"google", "microsoft"}, Te!SignIn(t, p, via) PROVE TeamInv'
  <2>1. TeamTyped'
    BY <1>0, <1>1, TeamConstants DEF TeamTyped, TabFields, TabsStand, Te!SignIn
  <2>2. AccountsWelcomed'
    BY <1>0, <1>1, TeamConstants DEF AccountsWelcomed, TabsStand, TeamTyped, Te!SignIn
  <2>3. TabsStand'
    BY <1>0, <1>1, TeamConstants DEF TabsStand, TokensApart, AccountsWelcomed, TeamTyped, TabFields, Te!SignIn
  <2>4. TokensApart'
    BY <1>0, <1>1, TeamConstants DEF TokensApart, JoinsCounted, TabsStand, TeamTyped, Te!SignIn
  <2>5. JoinsCounted'
    BY <1>0, <1>1, TeamConstants DEF JoinsCounted, TokensApart, TabsStand, TeamTyped, Te!SignIn
  <2> QED BY <2>1, <2>2, <2>3, <2>4, <2>5 DEF TeamInv
<1>2. ASSUME NEW t \in Tabs, Te!CreateUser(t) PROVE TeamInv'
  <2>1. TeamTyped'
    BY <1>0, <1>2, TeamConstants DEF TeamTyped, TabFields, TabsStand, Te!CreateUser
  <2>2. AccountsWelcomed'
    <3>1. CASE home[tab[t].who] # Te!NoAccount
      BY <1>0, <1>2, <3>1 DEF AccountsWelcomed, Te!CreateUser
    <3>2. CASE home[tab[t].who] = Te!NoAccount
      <4>1. tab[t].who \in People
        BY <1>0, <1>2 DEF TabsStand, Te!CreateUser
      <4>2. /\ home' = [home EXCEPT ![tab[t].who] = tab[t].who]
            /\ provider' = [provider EXCEPT ![tab[t].who] = tab[t].via]
            /\ welcomed' = [welcomed EXCEPT ![tab[t].who] = @ + 1]
        BY <1>2, <3>2 DEF Te!CreateUser
      <4> QED BY <1>0, <3>2, <4>1, <4>2, TeamConstants DEF AccountsWelcomed, TeamTyped
    <3> QED BY <3>1, <3>2
  <2>3. TabsStand'
    <3>1. tab[t].who \in People /\ tab[t].via # "none" /\ sent' = sent
      BY <1>0, <1>2 DEF TabsStand, Te!CreateUser
    <3>2. CASE home' = home /\ tab' = [tab EXCEPT ![t] = Te!Idle]
      BY <1>0, <3>2, <3>1 DEF TabsStand, TeamTyped
    <3>3. CASE home' = [home EXCEPT ![tab[t].who] = tab[t].who] /\ tab' = [tab EXCEPT ![t].at = "known"]
      <4>1. home'[tab[t].who] # Te!NoAccount /\ \A p \in People : home[p] # Te!NoAccount => home'[p] # Te!NoAccount
        BY <1>0, <3>1, <3>3, TeamConstants DEF TeamTyped
      <4>2. tab'[t].at = "known" /\ tab'[t].who = tab[t].who /\ \A u \in Tabs : u # t => tab'[u] = tab[u]
        BY <1>0, <3>3 DEF TeamTyped, TabFields
      <4> QED BY <1>0, <3>1, <4>1, <4>2 DEF TabsStand
    <3> QED BY <1>2, <3>2, <3>3 DEF Te!CreateUser
  <2>4. TokensApart'
    BY <1>0, <1>2, TeamConstants DEF TokensApart, JoinsCounted, TabsStand, TeamTyped, Te!CreateUser
  <2>5. JoinsCounted'
    BY <1>0, <1>2, TeamConstants DEF JoinsCounted, TokensApart, TabsStand, TeamTyped, Te!CreateUser
  <2> QED BY <2>1, <2>2, <2>3, <2>4, <2>5 DEF TeamInv
<1>3. ASSUME NEW t \in Tabs, Te!LookForInvites(t) PROVE TeamInv'
  <2>1. TeamTyped'
    <3>1. DOMAIN tab' = Tabs /\ DOMAIN tab'[t] = TabFields /\ \A u \in Tabs \ {t} : tab'[u] = tab[u]
      BY <1>0, <1>3 DEF TeamTyped, TabFields, Te!LookForInvites
    <3> QED BY <1>0, <1>3, <3>1 DEF TeamTyped, Te!LookForInvites
  <2>2. AccountsWelcomed'
    BY <1>0, <1>3 DEF AccountsWelcomed, Te!LookForInvites
  <2>3. TabsStand'
    <3>1. UNCHANGED <<home, sent>> /\ home[tab[t].who] # Te!NoAccount /\ tab[t].who \in People
      BY <1>0, <1>3 DEF TabsStand, Te!LookForInvites
    <3>2. CASE tab' = [tab EXCEPT ![t] = Te!Idle]
      BY <1>0, <3>1, <3>2 DEF TabsStand, TeamTyped
    <3>3. CASE \E o \in People : invite[o][tab[t].who].state = "pending" /\ tab' =
                  [tab EXCEPT ![t] = [tab[t] EXCEPT !.at = "invited", !.org = o, !.token = invite[o][tab[t].who].token]]
      <4>1. PICK o \in People : invite[o][tab[t].who].state = "pending" /\ tab' =
                  [tab EXCEPT ![t] = [tab[t] EXCEPT !.at = "invited", !.org = o, !.token = invite[o][tab[t].who].token]]
        BY <3>3
      <4>2. /\ tab'[t].at = "invited" /\ tab'[t].org = o /\ tab'[t].who = tab[t].who
            /\ tab'[t].token = invite[o][tab[t].who].token
        BY <1>0, <4>1 DEF TeamTyped, TabFields
      <4>3. invite[o][tab[t].who].token \in 1 .. sent
        BY <1>0, <3>1, <4>1 DEF TokensApart, TeamTyped
      <4>4. \A u \in Tabs \ {t} : tab'[u] = tab[u]
        BY <1>0, <4>1 DEF TeamTyped
      <4> QED BY <1>0, <3>1, <4>2, <4>3, <4>4 DEF TabsStand
    <3> QED BY <1>3, <3>2, <3>3 DEF Te!LookForInvites
  <2>4. TokensApart'
    <3>1. UNCHANGED <<invite, sent, joins>>
      BY <1>3 DEF Te!LookForInvites
    <3> QED BY <1>0, <3>1 DEF TokensApart
  <2>5. JoinsCounted'
    BY <1>0, <1>3, TeamConstants DEF JoinsCounted, TokensApart, TabsStand, TeamTyped, Te!LookForInvites
  <2> QED BY <2>1, <2>2, <2>3, <2>4, <2>5 DEF TeamInv
<1>4. ASSUME NEW t \in Tabs, Te!AcceptInvite(t) PROVE TeamInv'
  <2> DEFINE o == tab[t].org
             p == tab[t].who
             n == tab[t].token
  <2>1. /\ tab' = [tab EXCEPT ![t] = Te!Idle] /\ UNCHANGED <<provider, sent, welcomed>>
        /\ o \in People /\ p \in People /\ n \in 1 .. sent /\ home[p] # Te!NoAccount
    BY <1>0, <1>4 DEF TabsStand, Te!AcceptInvite
  <2>2. CASE UNCHANGED <<home, invite, joins>>
    <3>1. TeamTyped'
      BY <1>0, <2>1, <2>2 DEF TeamTyped, TabFields
    <3>2. TabsStand'
      BY <1>0, <2>1, <2>2 DEF TabsStand, TeamTyped
    <3>3. AccountsWelcomed' /\ TokensApart' /\ JoinsCounted'
      BY <1>0, <2>1, <2>2 DEF AccountsWelcomed, TokensApart, JoinsCounted
    <3> QED BY <3>1, <3>2, <3>3 DEF TeamInv
  <2>3. CASE \E e \in Te!Addressee(t) :
                /\ invite' = [invite EXCEPT ![o][e].state = "accepted"]
                /\ home' = [home EXCEPT ![p] = o]
                /\ joins' = [joins EXCEPT ![n] = @ + 1]
    <3>1. PICK e \in People :
                /\ invite[o][e].state = "pending" /\ invite[o][e].token = n
                /\ invite' = [invite EXCEPT ![o][e].state = "accepted"]
                /\ home' = [home EXCEPT ![p] = o]
                /\ joins' = [joins EXCEPT ![n] = @ + 1]
      BY <2>3 DEF Te!Addressee
    <3>2. n \in 1 .. MaxInvites /\ joins[n] = 0 /\ joins \in [1 .. MaxInvites -> Nat]
      BY <1>0, <2>1, <3>1, TeamConstants DEF TeamTyped, TokensApart
    <3>3. joins' \in [1 .. MaxInvites -> Nat] /\ joins'[n] = 1 /\ \A k \in 1 .. MaxInvites : k # n => joins'[k] = joins[k]
      BY <3>1, <3>2
    <3>4. \A a, b \in People : /\ invite'[a][b].token = invite[a][b].token
                               /\ invite'[a][b].state = IF a = o /\ b = e THEN "accepted" ELSE invite[a][b].state
      BY <1>0, <2>1, <3>1 DEF TeamTyped
    <3>5. home'[p] = o /\ \A q \in People : q # p => home'[q] = home[q]
      BY <1>0, <2>1, <3>1 DEF TeamTyped
    <3>6. TeamTyped'
      <4>1. DOMAIN invite' = People /\ \A a \in People : DOMAIN invite'[a] = People
        BY <1>0, <2>1, <3>1 DEF TeamTyped
      <4>2. \A a, b \in People : DOMAIN invite'[a][b] = {"state", "role", "token"}
        BY <1>0, <2>1, <3>1 DEF TeamTyped
      <4>3. DOMAIN home' = People /\ DOMAIN tab' = Tabs /\ \A u \in Tabs : DOMAIN tab'[u] = TabFields
        BY <1>0, <2>1, <3>1 DEF TeamTyped, TabFields
      <4> QED BY <1>0, <2>1, <3>3, <4>1, <4>2, <4>3 DEF TeamTyped
    <3> HIDE DEF o, p, n
    <3>7. AccountsWelcomed'
      BY <1>0, <2>1, <3>5, TeamConstants DEF AccountsWelcomed
    <3>8. TabsStand'
      <4>1. \A q \in People : home[q] # Te!NoAccount => home'[q] # Te!NoAccount
        BY <2>1, <3>5, TeamConstants
      <4>2. tab'[t].at = "idle" /\ \A u \in Tabs : u # t => tab'[u] = tab[u]
        BY <1>0, <2>1 DEF TeamTyped
      <4> QED BY <1>0, <2>1, <4>1, <4>2 DEF TabsStand
    <3>9. TokensApart'
      <4>1. \A a, b \in People : invite'[a][b].state = "pending" =>
               invite[a][b].state = "pending" /\ invite[a][b].token # n
        BY <1>0, <2>1, <3>1, <3>4 DEF TokensApart
      <4>2. \A a, b \in People : invite[a][b].token \in 0 .. sent /\ sent <= MaxInvites /\ sent \in Nat
        BY <1>0, TeamConstants DEF TokensApart, TeamTyped
      <4>3. ASSUME NEW a \in People, NEW b \in People, invite'[a][b].state = "pending"
            PROVE  invite'[a][b].token > 0 /\ joins'[invite'[a][b].token] = 0
        <5>1. invite[a][b].token > 0 /\ joins[invite[a][b].token] = 0 /\ invite[a][b].token # n
          BY <1>0, <4>1, <4>3 DEF TokensApart
        <5>2. invite[a][b].token \in 1 .. MaxInvites
          BY <4>2, <5>1, TeamConstants
        <5> QED BY <3>3, <3>4, <5>1, <5>2
      <4>4. \A a, b \in People : invite'[a][b].token \in 0 .. sent'
        BY <2>1, <3>4, <4>2
      <4>5. ASSUME NEW a \in People, NEW b \in People, NEW c \in People, NEW d \in People,
                   invite'[a][b].token = invite'[c][d].token, invite'[a][b].token > 0
            PROVE  a = c /\ b = d
        BY <1>0, <3>4, <4>5 DEF TokensApart
      <4> QED BY <4>3, <4>4, <4>5 DEF TokensApart
    <3>10. JoinsCounted'
      BY <1>0, <2>1, <3>2, <3>3, TeamConstants DEF JoinsCounted, TeamTyped
    <3> QED BY <3>6, <3>7, <3>8, <3>9, <3>10 DEF TeamInv
  <2> QED BY <1>4, <2>2, <2>3 DEF Te!AcceptInvite
<1>5. ASSUME NEW t \in Tabs, NEW p \in People, Te!RequireAdmin(t, p) PROVE TeamInv'
  <2>1. TeamTyped'
    BY <1>0, <1>5, TeamConstants DEF TeamTyped, TabFields, TabsStand, Te!RequireAdmin, Te!RowsOf
  <2>2. AccountsWelcomed'
    BY <1>0, <1>5, TeamConstants DEF AccountsWelcomed, TabsStand, TeamTyped, Te!RequireAdmin, Te!RowsOf
  <2>3. TabsStand'
    BY <1>0, <1>5, TeamConstants DEF TabsStand, TokensApart, AccountsWelcomed, TeamTyped, TabFields, Te!RequireAdmin, Te!RowsOf
  <2>4. TokensApart'
    BY <1>0, <1>5, TeamConstants DEF TokensApart, JoinsCounted, TabsStand, TeamTyped, Te!RequireAdmin, Te!RowsOf
  <2>5. JoinsCounted'
    BY <1>0, <1>5, TeamConstants DEF JoinsCounted, TokensApart, TabsStand, TeamTyped, Te!RequireAdmin, Te!RowsOf
  <2> QED BY <2>1, <2>2, <2>3, <2>4, <2>5 DEF TeamInv
<1>6. ASSUME NEW t \in Tabs, NEW e \in People, NEW r \in Roles, Te!Invite(t, e, r) PROVE TeamInv'
  <2>1. TeamTyped'
    BY <1>0, <1>6, TeamConstants DEF TeamTyped, TabFields, TabsStand, Te!Invite
  <2>2. AccountsWelcomed'
    BY <1>0, <1>6, TeamConstants DEF AccountsWelcomed, TabsStand, TeamTyped, Te!Invite
  <2>3. TabsStand'
    BY <1>0, <1>6, TeamConstants DEF TabsStand, TokensApart, AccountsWelcomed, TeamTyped, TabFields, Te!Invite
  <2>4. TokensApart'
    <3> DEFINE o == tab[t].org
    <3>1. o \in People /\ sent \in Nat /\ sent + 1 \in 1 .. MaxInvites /\ sent' = sent + 1 /\ joins' = joins
      BY <1>0, <1>6, TeamConstants DEF TabsStand, TeamTyped, Te!Invite
    <3>2. invite'[o][e].token = sent + 1
      BY <1>0, <1>6, <3>1 DEF TeamTyped, Te!Invite
    <3>3. \A a, b \in People : (a = o /\ b = e) \/ invite'[a][b] = invite[a][b]
      BY <1>0, <1>6, <3>1 DEF TeamTyped, Te!Invite
    <3>4. joins[sent + 1] = 0
      BY <1>0, <3>1 DEF JoinsCounted
    <3>5. \A a, b \in People : invite[a][b].token \in 0 .. sent
      BY <1>0 DEF TokensApart
    <3> HIDE DEF o
    <3>6. ASSUME NEW a \in People, NEW b \in People
          PROVE  /\ invite'[a][b].token \in 0 .. sent'
                 /\ invite'[a][b].state = "pending" => invite'[a][b].token > 0 /\ joins[invite'[a][b].token] = 0
      <4>1. CASE a = o /\ b = e
        BY <3>1, <3>2, <3>4, <4>1
      <4>2. CASE invite'[a][b] = invite[a][b]
        BY <1>0, <3>1, <3>5, <4>2 DEF TokensApart
      <4> QED BY <3>3, <4>1, <4>2
    <3>7. ASSUME NEW a \in People, NEW b \in People, NEW q \in People, NEW s \in People,
                 invite'[a][b].token = invite'[q][s].token, invite'[a][b].token > 0
          PROVE  a = q /\ b = s
      BY <1>0, <3>1, <3>2, <3>3, <3>5, <3>7 DEF TokensApart
    <3> QED BY <3>1, <3>6, <3>7 DEF TokensApart
  <2>5. JoinsCounted'
    BY <1>0, <1>6, TeamConstants DEF JoinsCounted, TokensApart, TabsStand, TeamTyped, Te!Invite
  <2> QED BY <2>1, <2>2, <2>3, <2>4, <2>5 DEF TeamInv
<1>7. ASSUME NEW t \in Tabs, NEW e \in People, Te!Revoke(t, e) PROVE TeamInv'
  <2>1. TeamTyped'
    BY <1>0, <1>7, TeamConstants DEF TeamTyped, TabFields, TabsStand, Te!Revoke, Te!NoInvite
  <2>2. AccountsWelcomed'
    BY <1>0, <1>7, TeamConstants DEF AccountsWelcomed, TabsStand, TeamTyped, Te!Revoke, Te!NoInvite
  <2>3. TabsStand'
    BY <1>0, <1>7, TeamConstants DEF TabsStand, TokensApart, AccountsWelcomed, TeamTyped, TabFields, Te!Revoke, Te!NoInvite
  <2>4. TokensApart'
    <3>1. tab[t].org \in People
      BY <1>0, <1>7 DEF TabsStand, Te!Revoke
    <3>2. \A a, b \in People : invite'[a][b] = invite[a][b] \/ invite'[a][b] = Te!NoInvite
      BY <1>0, <1>7, <3>1 DEF TeamTyped, Te!Revoke
    <3>3. UNCHANGED <<sent, joins>> /\ sent \in Nat
      BY <1>0, <1>7, TeamConstants DEF TeamTyped, Te!Revoke
    <3> QED BY <1>0, <3>2, <3>3, WithdrawnInvites
  <2>5. JoinsCounted'
    BY <1>0, <1>7, TeamConstants DEF JoinsCounted, TokensApart, TabsStand, TeamTyped, Te!Revoke, Te!NoInvite
  <2> QED BY <2>1, <2>2, <2>3, <2>4, <2>5 DEF TeamInv
<1>8. ASSUME NEW t \in Tabs, NEW p \in People, Te!Remove(t, p) PROVE TeamInv'
  <2>1. TeamTyped'
    BY <1>0, <1>8, TeamConstants DEF TeamTyped, TabFields, TabsStand, Te!Remove
  <2>2. AccountsWelcomed'
    BY <1>0, <1>8, TeamConstants DEF AccountsWelcomed, TabsStand, TeamTyped, Te!Remove
  <2>3. TabsStand'
    BY <1>0, <1>8, TeamConstants DEF TabsStand, TokensApart, AccountsWelcomed, TeamTyped, TabFields, Te!Remove
  <2>4. TokensApart'
    BY <1>0, <1>8, TeamConstants DEF TokensApart, JoinsCounted, TabsStand, TeamTyped, Te!Remove
  <2>5. JoinsCounted'
    BY <1>0, <1>8, TeamConstants DEF JoinsCounted, TokensApart, TabsStand, TeamTyped, Te!Remove
  <2> QED BY <2>1, <2>2, <2>3, <2>4, <2>5 DEF TeamInv
<1>9. ASSUME NEW t \in Tabs, NEW p \in People, NEW r \in Roles, Te!ChangeRole(t, p, r) PROVE TeamInv'
  <2>1. TeamTyped'
    BY <1>0, <1>9, TeamConstants DEF TeamTyped, TabFields, TabsStand, Te!ChangeRole
  <2>2. AccountsWelcomed'
    BY <1>0, <1>9, TeamConstants DEF AccountsWelcomed, TabsStand, TeamTyped, Te!ChangeRole
  <2>3. TabsStand'
    BY <1>0, <1>9, TeamConstants DEF TabsStand, TokensApart, AccountsWelcomed, TeamTyped, TabFields, Te!ChangeRole
  <2>4. TokensApart'
    BY <1>0, <1>9, TeamConstants DEF TokensApart, JoinsCounted, TabsStand, TeamTyped, Te!ChangeRole
  <2>5. JoinsCounted'
    BY <1>0, <1>9, TeamConstants DEF JoinsCounted, TokensApart, TabsStand, TeamTyped, Te!ChangeRole
  <2> QED BY <2>1, <2>2, <2>3, <2>4, <2>5 DEF TeamInv
<1>10. ASSUME NEW t \in Tabs, NEW p \in People, NEW o \in People, NEW e \in People, Te!OpenLink(t, p, o, e) PROVE TeamInv'
  <2>1. TeamTyped'
    BY <1>0, <1>10, TeamConstants DEF TeamTyped, TabFields, TabsStand, Te!OpenLink
  <2>2. AccountsWelcomed'
    BY <1>0, <1>10, TeamConstants DEF AccountsWelcomed, TabsStand, TeamTyped, Te!OpenLink
  <2>3. TabsStand'
    BY <1>0, <1>10, TeamConstants DEF TabsStand, TokensApart, AccountsWelcomed, TeamTyped, TabFields, Te!OpenLink
  <2>4. TokensApart'
    BY <1>0, <1>10, TeamConstants DEF TokensApart, JoinsCounted, TabsStand, TeamTyped, Te!OpenLink
  <2>5. JoinsCounted'
    BY <1>0, <1>10, TeamConstants DEF JoinsCounted, TokensApart, TabsStand, TeamTyped, Te!OpenLink
  <2> QED BY <2>1, <2>2, <2>3, <2>4, <2>5 DEF TeamInv
<1>11. ASSUME NEW o \in People, NEW e \in People, Te!InviteExpires(o, e) PROVE TeamInv'
  <2>1. TeamTyped'
    BY <1>0, <1>11, TeamConstants DEF TeamTyped, TabFields, TabsStand, Te!InviteExpires, Te!NoInvite
  <2>2. AccountsWelcomed'
    BY <1>0, <1>11, TeamConstants DEF AccountsWelcomed, TabsStand, TeamTyped, Te!InviteExpires, Te!NoInvite
  <2>3. TabsStand'
    BY <1>0, <1>11, TeamConstants DEF TabsStand, TokensApart, AccountsWelcomed, TeamTyped, TabFields, Te!InviteExpires, Te!NoInvite
  <2>4. TokensApart'
    <3>1. o \in People
      BY <1>0, <1>11 DEF TabsStand, Te!Revoke
    <3>2. \A a, b \in People : invite'[a][b] = invite[a][b] \/ invite'[a][b] = Te!NoInvite
      BY <1>0, <1>11, <3>1 DEF TeamTyped, Te!InviteExpires
    <3>3. UNCHANGED <<sent, joins>> /\ sent \in Nat
      BY <1>0, <1>11, TeamConstants DEF TeamTyped, Te!InviteExpires
    <3> QED BY <1>0, <3>2, <3>3, WithdrawnInvites
  <2>5. JoinsCounted'
    BY <1>0, <1>11, TeamConstants DEF JoinsCounted, TokensApart, TabsStand, TeamTyped, Te!InviteExpires, Te!NoInvite
  <2> QED BY <2>1, <2>2, <2>3, <2>4, <2>5 DEF TeamInv
<1>12. CASE UNCHANGED teamVars
    BY <1>0, <1>12 DEF TeamInv, teamVars, TeamTyped, AccountsWelcomed, TabsStand, TokensApart, JoinsCounted
<1> QED BY <1>1, <1>2, <1>3, <1>4, <1>5, <1>6, <1>7, <1>8, <1>9, <1>10, <1>11, <1>12 DEF Te!TeamNext, Te!GoogleCallback, Te!MicrosoftCallback

-----------------------------------------------------------------------------
(* Collection: what a job uses is its own company's.                       *)

JobFields == {"at", "company", "seller", "branches", "probed", "asked", "headers", "mentions", "filings", "sic"}

JobsTyped ==
    /\ DOMAIN job = Collectors
    /\ \A j \in Collectors :
        /\ DOMAIN job[j] = JobFields
        /\ job[j].at # "idle" => job[j].company \in Domains /\ job[j].seller \in Categories

SearchesOwn ==
    /\ searches = [k \in Domains \X Categories |-> searches[k]]
    /\ \A k \in Domains \X Categories : searches[k] \subseteq {k}

OverlapsTyped == overlapped \subseteq Collectors \X {"headers", "sic"}

\* The headers a job will take are its own or none, unless another job has captured its own.
HeadersKept ==
    \A j \in Collectors : job[j].at = "analyzing" =>
        /\ job[j].asked => lastHeaders \in {job[j].company, Co!Nothing} \/ <<j, "headers">> \in overlapped
        /\ "technology" \notin job[j].branches => job[j].asked

\* So is the industry it will look regulations up for, once its filings are found.
IndustryKept ==
    \A j \in Collectors :
        /\ job[j].at \in {"analyzing", "enriching", "filings"} => job[j].filings = Co!Nothing
        /\ job[j].at = "regulations" /\ job[j].filings # Co!Nothing
              => lastSic = job[j].company \/ <<j, "sic">> \in overlapped

PermitsHeld == IsFiniteSet(probing) /\ Co!ProbesAreLimited

CollectInv ==
    /\ JobsTyped /\ SearchesOwn /\ OverlapsTyped /\ HeadersKept /\ IndustryKept /\ PermitsHeld
    /\ Co!MentionsAndHeadersAreOwn /\ Co!IndustryIsOwn

SearchKeyOf(j) == <<job[j].company, job[j].seller>>

\* Collection's Cardinality is the one the library's theorems are about.
LEMMA CardinalityOfProbes == \A S : Co!Cardinality(S) = Cardinality(S)
    BY DEF Co!Cardinality, Cardinality

\* A probe that ends gives its permit back.
LEMMA FewerProbes == ASSUME PermitsHeld, probing' \subseteq probing PROVE PermitsHeld'
<1>1. IsFiniteSet(probing') /\ Cardinality(probing') <= Cardinality(probing)
    BY FS_Subset DEF PermitsHeld
<1>2. Cardinality(probing) \in Nat /\ Cardinality(probing') \in Nat
    BY <1>1, FS_CardinalityType DEF PermitsHeld
<1> QED BY <1>1, <1>2, CollectConstants, CardinalityOfProbes DEF PermitsHeld, Co!ProbesAreLimited

\* A probe that begins takes a permit that is free.
LEMMA OneMoreProbe ==
    ASSUME PermitsHeld, NEW p, probing' = probing \cup {p}, Cardinality(probing) < SharedPermits
    PROVE  PermitsHeld'
<1>1. IsFiniteSet(probing')
    BY FS_AddElement DEF PermitsHeld
<1>2. Cardinality(probing') = Cardinality(probing) \/ Cardinality(probing') = Cardinality(probing) + 1
    BY FS_AddElement DEF PermitsHeld
<1>3. Cardinality(probing) \in Nat
    BY FS_CardinalityType DEF PermitsHeld
<1> QED BY <1>1, <1>2, <1>3, CollectConstants, CardinalityOfProbes DEF PermitsHeld, Co!ProbesAreLimited

\* A job whose place, filings and company stay as they are keeps its industry.
LEMMA IndustryStays ==
    ASSUME NEW j \in Collectors, IndustryKept, UNCHANGED <<lastSic, overlapped>>,
           \A i \in Collectors \ {j} : job'[i] = job[i], job'[j].at = job[j].at, job'[j].filings = job[j].filings,
           job'[j].company = job[j].company
    PROVE  IndustryKept'
<1> SUFFICES ASSUME NEW i \in Collectors
             PROVE  /\ job'[i].at \in {"analyzing", "enriching", "filings"} => job'[i].filings = Co!Nothing
                    /\ job'[i].at = "regulations" /\ job'[i].filings # Co!Nothing
                          => lastSic = job'[i].company \/ <<i, "sic">> \in overlapped
    BY DEF IndustryKept
<1>1. CASE i = j
    BY <1>1 DEF IndustryKept
<1>2. CASE i # j
    BY <1>2 DEF IndustryKept
<1> QED BY <1>1, <1>2

\* No job collects yet.
LEMMA CollectInvInit == Co!CollectInit => CollectInv
<1> SUFFICES ASSUME Co!CollectInit PROVE CollectInv
    OBVIOUS
<1> USE DEF Co!CollectInit, Co!NoJob, Co!SearchKey, Co!JobAt
<1>1. JobsTyped
    BY DEF JobsTyped, JobFields
<1>2. SearchesOwn /\ OverlapsTyped
    BY DEF SearchesOwn, OverlapsTyped
<1>3. HeadersKept /\ IndustryKept
    BY DEF HeadersKept, IndustryKept
<1>4. PermitsHeld
  <2>1. IsFiniteSet({}) /\ Cardinality({}) = 0
    BY FS_EmptySet
  <2> QED BY <2>1, CollectConstants, CardinalityOfProbes DEF PermitsHeld, Co!ProbesAreLimited
<1>5. Co!MentionsAndHeadersAreOwn /\ Co!IndustryIsOwn
    BY DEF Co!MentionsAndHeadersAreOwn, Co!IndustryIsOwn
<1> QED BY <1>1, <1>2, <1>3, <1>4, <1>5 DEF CollectInv

\* Every step of a job, its branches or its cancellation preserves the invariant of Collection.
LEMMA CollectInvNext == CollectInv /\ [Co!CollectNext]_collectVars => CollectInv'
<1> SUFFICES ASSUME CollectInv, [Co!CollectNext]_collectVars PROVE CollectInv'
    OBVIOUS
<1> USE DEF Co!JobAt, Co!Branch, Co!Known, Co!SearchKey, Co!NoJob, Co!Others
<1>typed. JobsTyped
    BY DEF CollectInv
<1>own. SearchesOwn
    BY DEF CollectInv
<1>over. OverlapsTyped
    BY DEF CollectInv
<1>heads. HeadersKept
    BY DEF CollectInv
<1>ind. IndustryKept
    BY DEF CollectInv
<1>held. PermitsHeld
    BY DEF CollectInv
<1>used. Co!MentionsAndHeadersAreOwn
    BY DEF CollectInv
<1>sic. Co!IndustryIsOwn
    BY DEF CollectInv
<1>1. ASSUME NEW j \in Collectors, Co!StartCollecting(j) PROVE CollectInv'
  <2>1. DOMAIN job' = Collectors /\ \A i \in Collectors : DOMAIN job'[i] = JobFields
    BY <1>typed, <1>1 DEF JobsTyped, JobFields, Co!StartCollecting
  <2>2. \A i \in Collectors \ {j} : job'[i] = job[i]
    BY <1>typed, <1>1 DEF JobsTyped, Co!StartCollecting
  <2>3. /\ job'[j].at = "analyzing"
        /\ job'[j].company \in Domains
        /\ job'[j].seller \in Categories
        /\ job'[j].branches = Co!Branches
        /\ job'[j].probed = {}
        /\ job'[j].asked = FALSE
        /\ job'[j].headers = Co!Nothing
        /\ job'[j].mentions = <<>>
        /\ job'[j].filings = Co!Nothing
        /\ job'[j].sic = Co!Nothing
    BY <1>typed, <1>1 DEF JobsTyped, JobFields, Co!StartCollecting
  <2>4. UNCHANGED <<lastHeaders, lastSic, searches, overlapped, probing>> /\ TRUE
    BY <1>typed, <1>1 DEF JobsTyped, JobFields, Co!StartCollecting
  <2>5. JobsTyped'
    BY <1>typed, <1>own, <2>1, <2>2, <2>3, <2>4, <1>1 DEF JobsTyped, SearchesOwn, Co!StartCollecting, Co!Branches
  <2>6. SearchesOwn'
    BY <1>own, <1>typed, <2>2, <2>3, <2>4, <1>1 DEF SearchesOwn, JobsTyped, Co!StartCollecting, Co!Branches
  <2>7. OverlapsTyped'
    BY <1>over, <2>2, <2>3, <2>4 DEF OverlapsTyped, Co!Branches
  <2>8. HeadersKept'
    BY <1>heads, <2>2, <2>3, <2>4 DEF HeadersKept, Co!Branches
  <2>9. IndustryKept'
    BY <1>ind, <2>2, <2>3, <2>4 DEF IndustryKept
  <2>10. PermitsHeld'
    BY <1>held, <1>1, FewerProbes DEF Co!StartCollecting
  <2>11. Co!MentionsAndHeadersAreOwn'
    BY <1>used, <1>heads, <1>typed, <1>own, <2>2, <2>3, <2>4, <1>1 DEF Co!MentionsAndHeadersAreOwn, HeadersKept, JobsTyped, SearchesOwn, Co!StartCollecting, Co!Branches
  <2>12. Co!IndustryIsOwn'
    BY <1>sic, <1>ind, <2>2, <2>3, <2>4 DEF Co!IndustryIsOwn, IndustryKept, Co!Branches
  <2> QED BY <2>5, <2>6, <2>7, <2>8, <2>9, <2>10, <2>11, <2>12 DEF CollectInv
<1>2. ASSUME NEW j \in Collectors, Co!FetchHeaders(j) PROVE CollectInv'
  <2>1. DOMAIN job' = Collectors /\ \A i \in Collectors : DOMAIN job'[i] = JobFields
    BY <1>typed, <1>2 DEF JobsTyped, JobFields, Co!FetchHeaders
  <2>2. \A i \in Collectors \ {j} : job'[i] = job[i]
    BY <1>typed, <1>2 DEF JobsTyped, Co!FetchHeaders
  <2>3. /\ job'[j].at = job[j].at
        /\ job'[j].company = job[j].company
        /\ job'[j].seller = job[j].seller
        /\ job'[j].branches = job[j].branches
        /\ job'[j].probed = job[j].probed
        /\ job'[j].asked = TRUE
        /\ job'[j].headers = job[j].headers
        /\ job'[j].mentions = job[j].mentions
        /\ job'[j].filings = job[j].filings
        /\ job'[j].sic = job[j].sic
    BY <1>typed, <1>2 DEF JobsTyped, JobFields, Co!FetchHeaders
  <2>4. UNCHANGED <<lastSic, searches, probing>> /\ job[j].at = "analyzing"
    BY <1>typed, <1>2 DEF JobsTyped, JobFields, Co!FetchHeaders
  <2>5. JobsTyped'
    BY <1>typed, <2>1, <2>2, <2>3, <2>4 DEF JobsTyped
  <2>6. SearchesOwn'
    BY <1>own, <2>2, <2>3, <2>4 DEF SearchesOwn
  <2>7. OverlapsTyped'
    BY <1>over, <1>typed, <2>2, <2>3, <2>4, <1>2 DEF OverlapsTyped, JobsTyped, Co!FetchHeaders
  <2>8. HeadersKept'
    BY <1>heads, <1>over, <1>typed, <2>2, <2>3, <2>4, <1>2 DEF HeadersKept, OverlapsTyped, JobsTyped, Co!FetchHeaders
  <2>9. IndustryKept'
    BY <1>ind, <1>over, <1>typed, <2>2, <2>3, <2>4, <1>2 DEF IndustryKept, OverlapsTyped, JobsTyped, Co!FetchHeaders
  <2>10. PermitsHeld'
    BY <1>held, <1>2, FewerProbes DEF Co!FetchHeaders
  <2>11. Co!MentionsAndHeadersAreOwn'
    <3>1. overlapped \subseteq overlapped'
      BY <1>2 DEF Co!FetchHeaders
    <3> QED BY <1>used, <2>2, <2>3, <3>1 DEF Co!MentionsAndHeadersAreOwn
  <2>12. Co!IndustryIsOwn'
    BY <1>sic, <1>ind, <1>over, <1>typed, <2>2, <2>3, <2>4, <1>2 DEF Co!IndustryIsOwn, IndustryKept, OverlapsTyped, JobsTyped, Co!FetchHeaders
  <2> QED BY <2>5, <2>6, <2>7, <2>8, <2>9, <2>10, <2>11, <2>12 DEF CollectInv
<1>3. ASSUME NEW j \in Collectors, Co!Fingerprint(j) PROVE CollectInv'
  <2>1. DOMAIN job' = Collectors /\ \A i \in Collectors : DOMAIN job'[i] = JobFields
    BY <1>typed, <1>3 DEF JobsTyped, JobFields, Co!Fingerprint
  <2>2. \A i \in Collectors \ {j} : job'[i] = job[i]
    BY <1>typed, <1>3 DEF JobsTyped, Co!Fingerprint
  <2>3. /\ job'[j].at = job[j].at
        /\ job'[j].company = job[j].company
        /\ job'[j].seller = job[j].seller
        /\ job'[j].probed = job[j].probed
        /\ job'[j].asked = job[j].asked
        /\ job'[j].headers = job[j].headers
        /\ job'[j].mentions = job[j].mentions
        /\ job'[j].filings = job[j].filings
        /\ job'[j].sic = job[j].sic
    BY <1>typed, <1>3 DEF JobsTyped, JobFields, Co!Fingerprint
  <2>4. UNCHANGED <<lastHeaders, lastSic, searches, overlapped, probing>> /\ job[j].asked
    BY <1>typed, <1>3 DEF JobsTyped, JobFields, Co!Fingerprint
  <2>5. JobsTyped'
    BY <1>typed, <2>1, <2>2, <2>3, <2>4 DEF JobsTyped
  <2>6. SearchesOwn'
    BY <1>own, <2>2, <2>3, <2>4 DEF SearchesOwn
  <2>7. OverlapsTyped'
    BY <1>over, <2>2, <2>3, <2>4 DEF OverlapsTyped
  <2>8. HeadersKept'
    BY <1>heads, <2>2, <2>3, <2>4 DEF HeadersKept
  <2>9. IndustryKept'
    BY <1>ind, <2>2, <2>3, <2>4, IndustryStays
  <2>10. PermitsHeld'
    BY <1>held, <1>3, FewerProbes DEF Co!Fingerprint
  <2>11. Co!MentionsAndHeadersAreOwn'
    BY <1>used, <1>heads, <2>2, <2>3, <2>4 DEF Co!MentionsAndHeadersAreOwn, HeadersKept
  <2>12. Co!IndustryIsOwn'
    BY <1>sic, <1>ind, <2>2, <2>3, <2>4 DEF Co!IndustryIsOwn, IndustryKept
  <2> QED BY <2>5, <2>6, <2>7, <2>8, <2>9, <2>10, <2>11, <2>12 DEF CollectInv
<1>4. ASSUME NEW j \in Collectors, Co!Search(j) PROVE CollectInv'
  <2>1. DOMAIN job' = Collectors /\ \A i \in Collectors : DOMAIN job'[i] = JobFields
    BY <1>typed, <1>4 DEF JobsTyped, JobFields, Co!Search
  <2>2. \A i \in Collectors \ {j} : job'[i] = job[i]
    BY <1>typed, <1>4 DEF JobsTyped, Co!Search
  <2>3. /\ job'[j].at = job[j].at
        /\ job'[j].company = job[j].company
        /\ job'[j].seller = job[j].seller
        /\ job'[j].probed = job[j].probed
        /\ job'[j].asked = job[j].asked
        /\ job'[j].headers = job[j].headers
        /\ job'[j].filings = job[j].filings
        /\ job'[j].sic = job[j].sic
    BY <1>typed, <1>4 DEF JobsTyped, JobFields, Co!Search
  <2>4. UNCHANGED <<lastHeaders, lastSic, overlapped, probing>> /\ job[j].at = "analyzing" /\ ("technology" \notin job'[j].branches => "technology" \notin job[j].branches)
    BY <1>typed, <1>4 DEF JobsTyped, JobFields, Co!Search
  <2>5. JobsTyped'
    BY <1>typed, <1>own, <2>1, <2>2, <2>3, <2>4, <1>4 DEF JobsTyped, SearchesOwn, Co!Search
  <2>6. SearchesOwn'
    <3>1. SearchKeyOf(j) \in Domains \X Categories
      BY <1>typed, <2>4 DEF JobsTyped, SearchKeyOf
    <3>2. searches' = searches \/ searches' = [searches EXCEPT ![SearchKeyOf(j)] = {SearchKeyOf(j)}]
      BY <1>4 DEF Co!Search, SearchKeyOf
    <3> DEFINE own == SearchKeyOf(j)
    <3>3. own \in Domains \X Categories /\ (searches' = searches \/ searches' = [searches EXCEPT ![own] = {own}])
      BY <3>1, <3>2
    <3> HIDE DEF own
    <3>4. CASE searches' = searches
      BY <1>own, <3>4 DEF SearchesOwn
    <3>5. CASE searches' = [searches EXCEPT ![own] = {own}]
      BY <1>own, <3>3, <3>5 DEF SearchesOwn
    <3> QED BY <3>3, <3>4, <3>5
  <2>7. OverlapsTyped'
    BY <1>over, <2>2, <2>3, <2>4 DEF OverlapsTyped
  <2>8. HeadersKept'
    BY <1>heads, <2>2, <2>3, <2>4 DEF HeadersKept
  <2>9. IndustryKept'
    BY <1>ind, <2>2, <2>3, <2>4, IndustryStays
  <2>10. PermitsHeld'
    BY <1>held, <1>4, FewerProbes DEF Co!Search
  <2>11. Co!MentionsAndHeadersAreOwn'
    <3>1. SearchKeyOf(j) \in Domains \X Categories
      BY <1>typed, <2>4 DEF JobsTyped, SearchKeyOf
    <3>2. job'[j].mentions \in {<<>>, SearchKeyOf(j)}
      <4>1. CASE searches[SearchKeyOf(j)] # {}
        <5>1. searches[SearchKeyOf(j)] = {SearchKeyOf(j)}
          BY <1>own, <3>1, <4>1 DEF SearchesOwn
        <5>2. \A k : (CHOOSE m \in {k} : TRUE) = k
          OBVIOUS
        <5>3. job'[j].mentions = CHOOSE m \in searches[SearchKeyOf(j)] : TRUE
          BY <1>typed, <1>4, <4>1 DEF Co!Search, SearchKeyOf, JobsTyped, JobFields
        <5> QED BY <5>1, <5>2, <5>3
      <4>2. CASE searches[SearchKeyOf(j)] = {}
        BY <1>typed, <1>4, <4>2 DEF Co!Search, SearchKeyOf, JobsTyped, JobFields
      <4> QED BY <4>1, <4>2
    <3> QED BY <1>used, <2>2, <2>3, <2>4, <3>2 DEF Co!MentionsAndHeadersAreOwn, SearchKeyOf
  <2>12. Co!IndustryIsOwn'
    BY <1>sic, <1>ind, <2>2, <2>3, <2>4 DEF Co!IndustryIsOwn, IndustryKept
  <2> QED BY <2>5, <2>6, <2>7, <2>8, <2>9, <2>10, <2>11, <2>12 DEF CollectInv
<1>5. ASSUME NEW j \in Collectors, Co!Backfill(j) PROVE CollectInv'
  <2>1. DOMAIN job' = Collectors /\ \A i \in Collectors : DOMAIN job'[i] = JobFields
    BY <1>typed, <1>5 DEF JobsTyped, JobFields, Co!Backfill
  <2>2. \A i \in Collectors \ {j} : job'[i] = job[i]
    BY <1>typed, <1>5 DEF JobsTyped, Co!Backfill
  <2>3. /\ job'[j].at = "enriching"
        /\ job'[j].company = job[j].company
        /\ job'[j].seller = job[j].seller
        /\ job'[j].branches = job[j].branches
        /\ job'[j].probed = {}
        /\ job'[j].asked = FALSE
        /\ job'[j].headers = lastHeaders
        /\ job'[j].mentions = job[j].mentions
        /\ job'[j].filings = job[j].filings
        /\ job'[j].sic = job[j].sic
    BY <1>typed, <1>5 DEF JobsTyped, JobFields, Co!Backfill
  <2>4. UNCHANGED <<lastHeaders, lastSic, searches, overlapped, probing>> /\ job[j].at = "analyzing" /\ job[j].branches = {}
    BY <1>typed, <1>5 DEF JobsTyped, JobFields, Co!Backfill
  <2>5. JobsTyped'
    BY <1>typed, <2>1, <2>2, <2>3, <2>4 DEF JobsTyped
  <2>6. SearchesOwn'
    BY <1>own, <2>2, <2>3, <2>4 DEF SearchesOwn
  <2>7. OverlapsTyped'
    BY <1>over, <2>2, <2>3, <2>4 DEF OverlapsTyped
  <2>8. HeadersKept'
    BY <1>heads, <2>2, <2>3, <2>4 DEF HeadersKept
  <2>9. IndustryKept'
    BY <1>ind, <2>2, <2>3, <2>4 DEF IndustryKept
  <2>10. PermitsHeld'
    BY <1>held, <1>5, FewerProbes DEF Co!Backfill
  <2>11. Co!MentionsAndHeadersAreOwn'
    BY <1>used, <1>heads, <2>2, <2>3, <2>4 DEF Co!MentionsAndHeadersAreOwn, HeadersKept
  <2>12. Co!IndustryIsOwn'
    BY <1>sic, <1>ind, <2>2, <2>3, <2>4 DEF Co!IndustryIsOwn, IndustryKept
  <2> QED BY <2>5, <2>6, <2>7, <2>8, <2>9, <2>10, <2>11, <2>12 DEF CollectInv
<1>6. ASSUME NEW j \in Collectors, Co!LoadTickers(j) PROVE CollectInv'
  <2>1. DOMAIN job' = Collectors /\ \A i \in Collectors : DOMAIN job'[i] = JobFields
    BY <1>typed, <1>6 DEF JobsTyped, JobFields, Co!LoadTickers
  <2>2. \A i \in Collectors \ {j} : job'[i] = job[i]
    BY <1>typed, <1>6 DEF JobsTyped, Co!LoadTickers
  <2>3. /\ job'[j].company = job[j].company
        /\ job'[j].seller = job[j].seller
        /\ job'[j].branches = job[j].branches
        /\ job'[j].probed = job[j].probed
        /\ job'[j].asked = job[j].asked
        /\ job'[j].headers = job[j].headers
        /\ job'[j].mentions = job[j].mentions
        /\ job'[j].filings = job[j].filings
        /\ job'[j].sic = job[j].sic
    BY <1>typed, <1>6 DEF JobsTyped, JobFields, Co!LoadTickers
  <2>4. UNCHANGED <<lastHeaders, lastSic, searches, overlapped, probing>> /\ job[j].at = "enriching" /\ job'[j].at \in {"filings", "regulations"}
    BY <1>typed, <1>6 DEF JobsTyped, JobFields, Co!LoadTickers
  <2>5. JobsTyped'
    BY <1>typed, <2>1, <2>2, <2>3, <2>4 DEF JobsTyped
  <2>6. SearchesOwn'
    BY <1>own, <2>2, <2>3, <2>4 DEF SearchesOwn
  <2>7. OverlapsTyped'
    BY <1>over, <2>2, <2>3, <2>4 DEF OverlapsTyped
  <2>8. HeadersKept'
    BY <1>heads, <2>2, <2>3, <2>4 DEF HeadersKept
  <2>9. IndustryKept'
    BY <1>ind, <2>2, <2>3, <2>4 DEF IndustryKept
  <2>10. PermitsHeld'
    BY <1>held, <1>6, FewerProbes DEF Co!LoadTickers
  <2>11. Co!MentionsAndHeadersAreOwn'
    BY <1>used, <1>heads, <2>2, <2>3, <2>4 DEF Co!MentionsAndHeadersAreOwn, HeadersKept
  <2>12. Co!IndustryIsOwn'
    BY <1>sic, <1>ind, <2>2, <2>3, <2>4 DEF Co!IndustryIsOwn, IndustryKept
  <2> QED BY <2>5, <2>6, <2>7, <2>8, <2>9, <2>10, <2>11, <2>12 DEF CollectInv
<1>7. ASSUME NEW j \in Collectors, Co!GetFilings(j) PROVE CollectInv'
  <2>1. DOMAIN job' = Collectors /\ \A i \in Collectors : DOMAIN job'[i] = JobFields
    BY <1>typed, <1>7 DEF JobsTyped, JobFields, Co!GetFilings
  <2>2. \A i \in Collectors \ {j} : job'[i] = job[i]
    BY <1>typed, <1>7 DEF JobsTyped, Co!GetFilings
  <2>3. /\ job'[j].at = "regulations"
        /\ job'[j].company = job[j].company
        /\ job'[j].seller = job[j].seller
        /\ job'[j].branches = job[j].branches
        /\ job'[j].probed = job[j].probed
        /\ job'[j].asked = job[j].asked
        /\ job'[j].headers = job[j].headers
        /\ job'[j].mentions = job[j].mentions
        /\ job'[j].sic = job[j].sic
    BY <1>typed, <1>7 DEF JobsTyped, JobFields, Co!GetFilings
  <2>4. UNCHANGED <<lastHeaders, searches, probing>> /\ job[j].at = "filings"
    BY <1>typed, <1>7 DEF JobsTyped, JobFields, Co!GetFilings
  <2>5. JobsTyped'
    BY <1>typed, <1>own, <2>1, <2>2, <2>3, <2>4, <1>7 DEF JobsTyped, SearchesOwn, Co!GetFilings
  <2>6. SearchesOwn'
    BY <1>own, <1>typed, <2>2, <2>3, <2>4, <1>7 DEF SearchesOwn, JobsTyped, Co!GetFilings
  <2>7. OverlapsTyped'
    BY <1>over, <1>typed, <2>2, <2>3, <2>4, <1>7 DEF OverlapsTyped, JobsTyped, Co!GetFilings
  <2>8. HeadersKept'
    BY <1>heads, <1>over, <1>typed, <2>2, <2>3, <2>4, <1>7 DEF HeadersKept, OverlapsTyped, JobsTyped, Co!GetFilings
  <2>9. IndustryKept'
    <3>1. CASE /\ lastSic' = job[j].company
               /\ overlapped' = overlapped \cup {<<i, "sic">> : i \in {i \in Co!Others(j) : job[i].at = "regulations"}}
      <4>1. ASSUME NEW i \in Collectors \ {j}, job[i].at = "regulations" PROVE <<i, "sic">> \in overlapped'
        BY <3>1, <4>1
      <4> QED BY <1>ind, <2>2, <2>3, <3>1, <4>1 DEF IndustryKept
    <3>2. CASE UNCHANGED <<lastSic, overlapped>> /\ job'[j].filings = job[j].filings
      BY <1>ind, <2>2, <2>3, <2>4, <3>2 DEF IndustryKept
    <3> QED BY <1>typed, <1>7, <3>1, <3>2 DEF Co!GetFilings, JobsTyped, JobFields
  <2>10. PermitsHeld'
    BY <1>held, <1>7, FewerProbes DEF Co!GetFilings
  <2>11. Co!MentionsAndHeadersAreOwn'
    <3>1. overlapped \subseteq overlapped'
      BY <1>7 DEF Co!GetFilings
    <3> QED BY <1>used, <2>2, <2>3, <3>1 DEF Co!MentionsAndHeadersAreOwn
  <2>12. Co!IndustryIsOwn'
    BY <1>sic, <1>ind, <1>over, <1>typed, <2>2, <2>3, <2>4, <1>7 DEF Co!IndustryIsOwn, IndustryKept, OverlapsTyped, JobsTyped, Co!GetFilings
  <2> QED BY <2>5, <2>6, <2>7, <2>8, <2>9, <2>10, <2>11, <2>12 DEF CollectInv
<1>8. ASSUME NEW j \in Collectors, Co!GetRegulations(j) PROVE CollectInv'
  <2>1. DOMAIN job' = Collectors /\ \A i \in Collectors : DOMAIN job'[i] = JobFields
    BY <1>typed, <1>8 DEF JobsTyped, JobFields, Co!GetRegulations
  <2>2. \A i \in Collectors \ {j} : job'[i] = job[i]
    BY <1>typed, <1>8 DEF JobsTyped, Co!GetRegulations
  <2>3. /\ job'[j].at = "generating"
        /\ job'[j].company = job[j].company
        /\ job'[j].seller = job[j].seller
        /\ job'[j].branches = job[j].branches
        /\ job'[j].probed = job[j].probed
        /\ job'[j].asked = job[j].asked
        /\ job'[j].headers = job[j].headers
        /\ job'[j].mentions = job[j].mentions
        /\ job'[j].filings = job[j].filings
        /\ job'[j].sic = lastSic
    BY <1>typed, <1>8 DEF JobsTyped, JobFields, Co!GetRegulations
  <2>4. UNCHANGED <<lastHeaders, lastSic, searches, overlapped, probing>> /\ job[j].at = "regulations"
    BY <1>typed, <1>8 DEF JobsTyped, JobFields, Co!GetRegulations
  <2>5. JobsTyped'
    BY <1>typed, <2>1, <2>2, <2>3, <2>4 DEF JobsTyped
  <2>6. SearchesOwn'
    BY <1>own, <2>2, <2>3, <2>4 DEF SearchesOwn
  <2>7. OverlapsTyped'
    BY <1>over, <2>2, <2>3, <2>4 DEF OverlapsTyped
  <2>8. HeadersKept'
    BY <1>heads, <2>2, <2>3, <2>4 DEF HeadersKept
  <2>9. IndustryKept'
    BY <1>ind, <2>2, <2>3, <2>4 DEF IndustryKept
  <2>10. PermitsHeld'
    BY <1>held, <1>8, FewerProbes DEF Co!GetRegulations
  <2>11. Co!MentionsAndHeadersAreOwn'
    BY <1>used, <1>heads, <2>2, <2>3, <2>4 DEF Co!MentionsAndHeadersAreOwn, HeadersKept
  <2>12. Co!IndustryIsOwn'
    BY <1>sic, <1>ind, <2>2, <2>3, <2>4 DEF Co!IndustryIsOwn, IndustryKept
  <2> QED BY <2>5, <2>6, <2>7, <2>8, <2>9, <2>10, <2>11, <2>12 DEF CollectInv
<1>9. ASSUME NEW j \in Collectors, Co!Generate(j) PROVE CollectInv'
  <2>1. DOMAIN job' = Collectors /\ \A i \in Collectors : DOMAIN job'[i] = JobFields
    BY <1>typed, <1>9 DEF JobsTyped, JobFields, Co!Generate
  <2>2. \A i \in Collectors \ {j} : job'[i] = job[i]
    BY <1>typed, <1>9 DEF JobsTyped, Co!Generate
  <2>3. /\ job'[j].at = "idle"
        /\ job'[j].company = Co!Nothing
        /\ job'[j].seller = Co!Nothing
        /\ job'[j].branches = {}
        /\ job'[j].probed = {}
        /\ job'[j].asked = FALSE
        /\ job'[j].headers = Co!Nothing
        /\ job'[j].mentions = <<>>
        /\ job'[j].filings = Co!Nothing
        /\ job'[j].sic = Co!Nothing
    BY <1>typed, <1>9 DEF JobsTyped, JobFields, Co!Generate
  <2>4. UNCHANGED <<lastHeaders, lastSic, searches, probing>> /\ TRUE
    BY <1>typed, <1>9 DEF JobsTyped, JobFields, Co!Generate
  <2>5. JobsTyped'
    BY <1>typed, <2>1, <2>2, <2>3, <2>4 DEF JobsTyped
  <2>6. SearchesOwn'
    BY <1>own, <2>2, <2>3, <2>4 DEF SearchesOwn
  <2>7. OverlapsTyped'
    BY <1>over, <1>typed, <2>2, <2>3, <2>4, <1>9 DEF OverlapsTyped, JobsTyped, Co!Generate
  <2>8. HeadersKept'
    BY <1>heads, <1>over, <1>typed, <2>2, <2>3, <2>4, <1>9 DEF HeadersKept, OverlapsTyped, JobsTyped, Co!Generate
  <2>9. IndustryKept'
    BY <1>ind, <1>over, <1>typed, <2>2, <2>3, <2>4, <1>9 DEF IndustryKept, OverlapsTyped, JobsTyped, Co!Generate
  <2>10. PermitsHeld'
    BY <1>held, <1>9, FewerProbes DEF Co!Generate
  <2>11. Co!MentionsAndHeadersAreOwn'
    BY <1>used, <1>heads, <1>over, <1>typed, <2>2, <2>3, <2>4, <1>9 DEF Co!MentionsAndHeadersAreOwn, HeadersKept, OverlapsTyped, JobsTyped, Co!Generate
  <2>12. Co!IndustryIsOwn'
    BY <1>sic, <1>ind, <1>over, <1>typed, <2>2, <2>3, <2>4, <1>9 DEF Co!IndustryIsOwn, IndustryKept, OverlapsTyped, JobsTyped, Co!Generate
  <2> QED BY <2>5, <2>6, <2>7, <2>8, <2>9, <2>10, <2>11, <2>12 DEF CollectInv
<1>10. ASSUME NEW j \in Collectors, Co!StopCollecting(j) PROVE CollectInv'
  <2>1. DOMAIN job' = Collectors /\ \A i \in Collectors : DOMAIN job'[i] = JobFields
    BY <1>typed, <1>10 DEF JobsTyped, JobFields, Co!StopCollecting
  <2>2. \A i \in Collectors \ {j} : job'[i] = job[i]
    BY <1>typed, <1>10 DEF JobsTyped, Co!StopCollecting
  <2>3. /\ job'[j].at = "idle"
        /\ job'[j].company = Co!Nothing
        /\ job'[j].seller = Co!Nothing
        /\ job'[j].branches = {}
        /\ job'[j].probed = {}
        /\ job'[j].asked = FALSE
        /\ job'[j].headers = Co!Nothing
        /\ job'[j].mentions = <<>>
        /\ job'[j].filings = Co!Nothing
        /\ job'[j].sic = Co!Nothing
    BY <1>typed, <1>10 DEF JobsTyped, JobFields, Co!StopCollecting
  <2>4. UNCHANGED <<lastHeaders, lastSic, searches>> /\ TRUE
    BY <1>typed, <1>10 DEF JobsTyped, JobFields, Co!StopCollecting
  <2>5. JobsTyped'
    BY <1>typed, <2>1, <2>2, <2>3, <2>4 DEF JobsTyped
  <2>6. SearchesOwn'
    BY <1>own, <2>2, <2>3, <2>4 DEF SearchesOwn
  <2>7. OverlapsTyped'
    BY <1>over, <1>typed, <2>2, <2>3, <2>4, <1>10 DEF OverlapsTyped, JobsTyped, Co!StopCollecting
  <2>8. HeadersKept'
    BY <1>heads, <1>over, <1>typed, <2>2, <2>3, <2>4, <1>10 DEF HeadersKept, OverlapsTyped, JobsTyped, Co!StopCollecting
  <2>9. IndustryKept'
    BY <1>ind, <1>over, <1>typed, <2>2, <2>3, <2>4, <1>10 DEF IndustryKept, OverlapsTyped, JobsTyped, Co!StopCollecting
  <2>10. PermitsHeld'
    BY <1>held, <1>10, FewerProbes DEF Co!StopCollecting
  <2>11. Co!MentionsAndHeadersAreOwn'
    BY <1>used, <1>heads, <1>over, <1>typed, <2>2, <2>3, <2>4, <1>10 DEF Co!MentionsAndHeadersAreOwn, HeadersKept, OverlapsTyped, JobsTyped, Co!StopCollecting
  <2>12. Co!IndustryIsOwn'
    BY <1>sic, <1>ind, <1>over, <1>typed, <2>2, <2>3, <2>4, <1>10 DEF Co!IndustryIsOwn, IndustryKept, OverlapsTyped, JobsTyped, Co!StopCollecting
  <2> QED BY <2>5, <2>6, <2>7, <2>8, <2>9, <2>10, <2>11, <2>12 DEF CollectInv
<1>11. ASSUME NEW j \in Collectors, NEW a \in Probes, Co!Probe(j, a) PROVE CollectInv'
  <2>1. DOMAIN job' = Collectors /\ \A i \in Collectors : DOMAIN job'[i] = JobFields
    BY <1>typed, <1>11 DEF JobsTyped, JobFields, Co!Probe
  <2>2. \A i \in Collectors \ {j} : job'[i] = job[i]
    BY <1>typed, <1>11 DEF JobsTyped, Co!Probe
  <2>3. /\ job'[j].at = job[j].at
        /\ job'[j].company = job[j].company
        /\ job'[j].seller = job[j].seller
        /\ job'[j].branches = job[j].branches
        /\ job'[j].probed = job[j].probed
        /\ job'[j].asked = job[j].asked
        /\ job'[j].headers = job[j].headers
        /\ job'[j].mentions = job[j].mentions
        /\ job'[j].filings = job[j].filings
        /\ job'[j].sic = job[j].sic
    BY <1>typed, <1>11 DEF JobsTyped, JobFields, Co!Probe
  <2>4. UNCHANGED <<lastHeaders, lastSic, searches, overlapped>> /\ TRUE
    BY <1>typed, <1>11 DEF JobsTyped, JobFields, Co!Probe
  <2>5. JobsTyped'
    BY <1>typed, <2>1, <2>2, <2>3, <2>4 DEF JobsTyped
  <2>6. SearchesOwn'
    BY <1>own, <2>2, <2>3, <2>4 DEF SearchesOwn
  <2>7. OverlapsTyped'
    BY <1>over, <2>2, <2>3, <2>4 DEF OverlapsTyped
  <2>8. HeadersKept'
    BY <1>heads, <2>2, <2>3, <2>4 DEF HeadersKept
  <2>9. IndustryKept'
    BY <1>ind, <2>2, <2>3, <2>4, IndustryStays
  <2>10. PermitsHeld'
    BY <1>held, <1>11, OneMoreProbe, CardinalityOfProbes DEF Co!Probe
  <2>11. Co!MentionsAndHeadersAreOwn'
    BY <1>used, <1>heads, <2>2, <2>3, <2>4 DEF Co!MentionsAndHeadersAreOwn, HeadersKept
  <2>12. Co!IndustryIsOwn'
    BY <1>sic, <1>ind, <2>2, <2>3, <2>4 DEF Co!IndustryIsOwn, IndustryKept
  <2> QED BY <2>5, <2>6, <2>7, <2>8, <2>9, <2>10, <2>11, <2>12 DEF CollectInv
<1>12. ASSUME NEW j \in Collectors, NEW a \in Probes, Co!Probed(j, a) PROVE CollectInv'
  <2>1. DOMAIN job' = Collectors /\ \A i \in Collectors : DOMAIN job'[i] = JobFields
    BY <1>typed, <1>12 DEF JobsTyped, JobFields, Co!Probed
  <2>2. \A i \in Collectors \ {j} : job'[i] = job[i]
    BY <1>typed, <1>12 DEF JobsTyped, Co!Probed
  <2>3. /\ job'[j].at = job[j].at
        /\ job'[j].company = job[j].company
        /\ job'[j].seller = job[j].seller
        /\ job'[j].branches = job[j].branches
        /\ job'[j].asked = job[j].asked
        /\ job'[j].headers = job[j].headers
        /\ job'[j].mentions = job[j].mentions
        /\ job'[j].filings = job[j].filings
        /\ job'[j].sic = job[j].sic
    BY <1>typed, <1>12 DEF JobsTyped, JobFields, Co!Probed
  <2>4. UNCHANGED <<lastHeaders, lastSic, searches, overlapped>> /\ TRUE
    BY <1>typed, <1>12 DEF JobsTyped, JobFields, Co!Probed
  <2>5. JobsTyped'
    BY <1>typed, <2>1, <2>2, <2>3, <2>4 DEF JobsTyped
  <2>6. SearchesOwn'
    BY <1>own, <2>2, <2>3, <2>4 DEF SearchesOwn
  <2>7. OverlapsTyped'
    BY <1>over, <2>2, <2>3, <2>4 DEF OverlapsTyped
  <2>8. HeadersKept'
    BY <1>heads, <2>2, <2>3, <2>4 DEF HeadersKept
  <2>9. IndustryKept'
    BY <1>ind, <2>2, <2>3, <2>4, IndustryStays
  <2>10. PermitsHeld'
    BY <1>held, <1>12, FewerProbes DEF Co!Probed
  <2>11. Co!MentionsAndHeadersAreOwn'
    BY <1>used, <1>heads, <2>2, <2>3, <2>4 DEF Co!MentionsAndHeadersAreOwn, HeadersKept
  <2>12. Co!IndustryIsOwn'
    BY <1>sic, <1>ind, <2>2, <2>3, <2>4 DEF Co!IndustryIsOwn, IndustryKept
  <2> QED BY <2>5, <2>6, <2>7, <2>8, <2>9, <2>10, <2>11, <2>12 DEF CollectInv
<1>13. ASSUME NEW k \in Domains \X Categories, Co!SearchExpires(k) PROVE CollectInv'
  <2>1. SearchesOwn'
    BY <1>own, <1>13 DEF SearchesOwn, Co!SearchExpires
  <2> QED BY <1>typed, <1>own, <1>over, <1>heads, <1>ind, <1>held, <1>used, <1>sic, <1>13, <2>1 DEF CollectInv, Co!SearchExpires, JobsTyped, OverlapsTyped, HeadersKept, IndustryKept,
       PermitsHeld, Co!ProbesAreLimited, Co!MentionsAndHeadersAreOwn, Co!IndustryIsOwn
<1>14. CASE UNCHANGED collectVars
    BY <1>typed, <1>own, <1>over, <1>heads, <1>ind, <1>held, <1>used, <1>sic, <1>14 DEF CollectInv, collectVars, JobsTyped, SearchesOwn, OverlapsTyped, HeadersKept, IndustryKept,
       PermitsHeld, Co!ProbesAreLimited, Co!MentionsAndHeadersAreOwn, Co!IndustryIsOwn
<1> QED BY <1>1, <1>2, <1>3, <1>4, <1>5, <1>6, <1>7, <1>8, <1>9, <1>10, <1>11, <1>12, <1>13, <1>14 DEF Co!CollectNext, Co!CollectGoesOn

-----------------------------------------------------------------------------
(* Automation: batches and rules.                                          *)

BatchFields == {"runs", "left", "chunk", "busy", "treated", "missed"}
UnderWay(b) == batch[b].left \cup batch[b].chunk \cup batch[b].busy

AutoTyped ==
    /\ DOMAIN outreach = Au!List /\ DOMAIN ruleRun = Au!Rules
    /\ DOMAIN engine = {"at", "rule"} /\ engine.rule \in Nat
    /\ DOMAIN batch = Au!Starters /\ \A b \in Au!Starters : DOMAIN batch[b] = BatchFields
    /\ failures \in Nat

\* A batch that does not run has nothing under way; the rule's runs while its rule acts.
BatchesRest ==
    /\ \A b \in Au!Starters : ~batch[b].runs => UnderWay(b) = {}
    /\ \A b \in Au!Starters : UnderWay(b) \subseteq Au!List
    /\ batch["rule"].runs => engine.at = "acting"

\* What a rule acts on is what matches it; nothing of it is forgotten.
ActsOnAll ==
    engine.at \in {"acting", "closing"} =>
        /\ engine.rule \in Au!Rules /\ ruleRun[engine.rule] = "running" /\ Au!Matching(engine.rule) # {}
        /\ UnderWay("rule") \cup batch["rule"].treated \cup batch["rule"].missed = Au!Matching(engine.rule)

TouchedMatches ==
    \A a \in UnderWay("rule") \cup batch["rule"].treated :
        \E r \in Au!Rules : r <= engine.rule /\ a \in Au!Matching(r)

\* The rules still to come have no run.
RunsToCome ==
    \A r \in Au!Rules : r > engine.rule \/ (engine.at = "next" /\ r = engine.rule) => ruleRun[r] = "none"

PendingHeld ==
    \A a \in Au!List : outreach[a] = "pending" => failures > 0 \/ \E b \in Au!Starters : a \in batch[b].busy

AutoInv ==
    /\ AutoTyped /\ BatchesRest /\ ActsOnAll /\ TouchedMatches /\ RunsToCome /\ PendingHeld /\ Au!RulesAreIndependent

\* Rules are numbered from one.
LEMMA RulesNumbered == Au!Rules = 1 .. Len(Thresholds) /\ Len(Thresholds) \in Nat
    BY AutoConstants DEF Au!Rules

\* No batch runs and no rule was evaluated yet.
LEMMA AutoInvInit == Au!AutoInit => AutoInv
<1> SUFFICES ASSUME Au!AutoInit PROVE AutoInv
    OBVIOUS
<1> USE AutoConstants DEF Au!AutoInit, Au!NoBatch, UnderWay
<1>1. AutoTyped /\ BatchesRest
    BY DEF AutoTyped, BatchesRest, BatchFields, Au!Starters
<1>2. ActsOnAll /\ TouchedMatches /\ PendingHeld
    BY DEF ActsOnAll, TouchedMatches, PendingHeld, Au!Starters
<1>3. RunsToCome /\ Au!RulesAreIndependent
    BY DEF RunsToCome, Au!RulesAreIndependent, Au!Rules
<1> QED BY <1>1, <1>2, <1>3 DEF AutoInv

\* Every step of the engine or of a batch preserves the invariant of Automation.
LEMMA AutoInvNext == AutoInv /\ [Au!AutoNext]_autoVars => AutoInv'
<1> SUFFICES ASSUME AutoInv, [Au!AutoNext]_autoVars PROVE AutoInv'
    OBVIOUS
<1> USE DEF Au!EngineAt, Au!EngineTo, Au!NextRule, Au!Slip, Au!StartBatch, Au!SetRun, Au!NoBatch
<1>0. AutoTyped /\ BatchesRest /\ ActsOnAll /\ TouchedMatches /\ RunsToCome /\ PendingHeld /\ Au!RulesAreIndependent
    BY DEF AutoInv
<1>1. CASE Au!EvaluateRule
  <2> DEFINE r == engine.rule
  <2>0. engine.at = "next" /\ UNCHANGED <<outreach, failures, composite>> /\ ~batch["rule"].runs /\ UnderWay("rule") = {} /\ r \in Nat
    BY <1>0, <1>1 DEF Au!EvaluateRule, BatchesRest, Au!Starters, AutoTyped
  <2>1. CASE r \notin Au!Rules /\ engine' = [engine EXCEPT !.at = "over"] /\ UNCHANGED <<ruleRun, batch>>
    <3>1. engine'.at = "over" /\ engine'.rule = engine.rule /\ DOMAIN engine' = {"at", "rule"}
      BY <1>0, <2>1 DEF AutoTyped
    <3>2. AutoTyped' /\ BatchesRest' /\ ActsOnAll' /\ PendingHeld'
      BY <1>0, <2>0, <2>1, <3>1 DEF AutoTyped, BatchesRest, ActsOnAll, UnderWay, PendingHeld
    <3>3. TouchedMatches' /\ RunsToCome' /\ Au!RulesAreIndependent'
      BY <1>0, <2>0, <2>1, <3>1 DEF TouchedMatches, RunsToCome, Au!RulesAreIndependent, UnderWay, Au!Matching
    <3> QED BY <3>2, <3>3 DEF AutoInv
  <2>2. CASE /\ r \in Au!Rules /\ engine' = [at |-> "next", rule |-> r + 1] /\ UNCHANGED batch
             /\ \/ Au!Matching(r) = {} /\ UNCHANGED ruleRun
                \/ Au!Matching(r) # {} /\ ruleRun' = [ruleRun EXCEPT ![r] = "failed"]
    <3>1. engine'.at = "next" /\ engine'.rule = r + 1 /\ DOMAIN engine' = {"at", "rule"} /\ DOMAIN ruleRun' = Au!Rules
      BY <1>0, <2>2 DEF AutoTyped
    <3>2. AutoTyped' /\ BatchesRest' /\ ActsOnAll' /\ PendingHeld'
      BY <1>0, <2>0, <2>2, <3>1 DEF AutoTyped, BatchesRest, ActsOnAll, UnderWay, PendingHeld
    <3>3. TouchedMatches'
      BY <1>0, <2>0, <2>2, <3>1, RulesNumbered DEF TouchedMatches, UnderWay, Au!Matching
    <3>4. \A q \in Au!Rules : q # r => ruleRun'[q] = ruleRun[q]
      BY <1>0, <2>2 DEF AutoTyped
    <3>5. ruleRun[r] = "none" /\ (ruleRun'[r] = "none" <=> Au!Matching(r) = {})
      BY <1>0, <2>0, <2>2 DEF RunsToCome, AutoTyped
    <3>6. RunsToCome' /\ Au!RulesAreIndependent'
      BY <1>0, <2>0, <2>2, <3>1, <3>4, <3>5, RulesNumbered DEF RunsToCome, Au!RulesAreIndependent, Au!Matching
    <3> QED BY <3>2, <3>3, <3>6 DEF AutoInv
  <2>3. CASE /\ r \in Au!Rules /\ Au!Matching(r) # {} /\ ruleRun' = [ruleRun EXCEPT ![r] = "running"]
             /\ engine' = [engine EXCEPT !.at = "acting"]
             /\ batch' = [batch EXCEPT !["rule"] = [Au!NoBatch EXCEPT !.runs = TRUE, !.left = Au!Matching(r)]]
    <3>1. engine'.at = "acting" /\ engine'.rule = r /\ DOMAIN engine' = {"at", "rule"}
      BY <1>0, <2>3 DEF AutoTyped
    <3>2. /\ batch'["rule"].runs /\ batch'["rule"].left = Au!Matching(r) /\ batch'["rule"].chunk = {}
          /\ batch'["rule"].busy = {} /\ batch'["rule"].treated = {} /\ batch'["rule"].missed = {}
          /\ DOMAIN batch'["rule"] = BatchFields
          /\ batch'["user"] = batch["user"] /\ DOMAIN batch' = Au!Starters
      BY <1>0, <2>3 DEF AutoTyped, BatchFields, Au!Starters
    <3>3. ruleRun'[r] = "running" /\ DOMAIN ruleRun' = Au!Rules /\ \A q \in Au!Rules : q # r => ruleRun'[q] = ruleRun[q]
      BY <1>0, <2>3 DEF AutoTyped
    <3>4. Au!Matching(r) \subseteq Au!List
      BY <2>0 DEF Au!Matching
    <3>5. AutoTyped'
      BY <1>0, <2>0, <3>1, <3>2, <3>3 DEF AutoTyped, Au!Starters
    <3>6. BatchesRest'
      BY <1>0, <3>1, <3>2, <3>4 DEF BatchesRest, Au!Starters, UnderWay
    <3>7. ActsOnAll'
      BY <2>0, <2>3, <3>1, <3>2, <3>3, <3>4 DEF ActsOnAll, UnderWay, Au!Matching
    <3>8. TouchedMatches'
      BY <2>0, <2>3, <3>1, <3>2, <3>4, RulesNumbered DEF TouchedMatches, UnderWay, Au!Matching
    <3>9. RunsToCome' /\ Au!RulesAreIndependent'
      BY <1>0, <2>0, <3>1, <3>3, RulesNumbered DEF RunsToCome, Au!RulesAreIndependent, Au!Matching
    <3>10. PendingHeld'
      BY <1>0, <2>0, <3>2 DEF PendingHeld, Au!Starters, UnderWay
    <3> QED BY <3>5, <3>6, <3>7, <3>8, <3>9, <3>10 DEF AutoInv
  <2> QED BY <1>1, <2>1, <2>2, <2>3 DEF Au!EvaluateRule
<1>2. CASE Au!NoRunRecord
  <2>1. AutoTyped'
    BY <1>0, <1>2, AutoConstants DEF AutoTyped, BatchFields, Au!Starters, Au!NoRunRecord
  <2>2. BatchesRest'
    BY <1>0, <1>2, AutoConstants DEF BatchesRest, AutoTyped, BatchFields, Au!Starters, UnderWay, Au!Matching, Au!NoRunRecord
  <2>3. ActsOnAll'
    BY <1>0, <1>2, AutoConstants DEF ActsOnAll, AutoTyped, BatchFields, Au!Starters, UnderWay, BatchesRest, Au!Matching, Au!NoRunRecord
  <2>4. TouchedMatches'
    BY <1>0, <1>2, AutoConstants DEF TouchedMatches, AutoTyped, BatchFields, Au!Starters, UnderWay, Au!Matching, Au!NoRunRecord
  <2>5. RunsToCome'
    BY <1>0, <1>2, AutoConstants DEF RunsToCome, AutoTyped, ActsOnAll, Au!Rules, Au!NoRunRecord
  <2>6. PendingHeld'
    BY <1>0, <1>2, AutoConstants DEF PendingHeld, AutoTyped, BatchFields, Au!Starters, BatchesRest, UnderWay, Au!NoRunRecord
  <2>7. Au!RulesAreIndependent'
    BY <1>0, <1>2, AutoConstants DEF Au!RulesAreIndependent, AutoTyped, ActsOnAll, RunsToCome, Au!Rules, Au!Matching, Au!NoRunRecord
  <2> QED BY <2>1, <2>2, <2>3, <2>4, <2>5, <2>6, <2>7 DEF AutoInv
<1>3. CASE Au!ActionReturns
  <2>1. AutoTyped'
    BY <1>0, <1>3, AutoConstants DEF AutoTyped, BatchFields, Au!Starters, Au!ActionReturns
  <2>2. BatchesRest'
    BY <1>0, <1>3, AutoConstants DEF BatchesRest, AutoTyped, BatchFields, Au!Starters, UnderWay, Au!Matching, Au!ActionReturns
  <2>3. ActsOnAll'
    BY <1>0, <1>3, AutoConstants DEF ActsOnAll, AutoTyped, BatchFields, Au!Starters, UnderWay, BatchesRest, Au!Matching, Au!ActionReturns
  <2>4. TouchedMatches'
    BY <1>0, <1>3, AutoConstants DEF TouchedMatches, AutoTyped, BatchFields, Au!Starters, UnderWay, Au!Matching, Au!ActionReturns
  <2>5. RunsToCome'
    BY <1>0, <1>3, AutoConstants DEF RunsToCome, AutoTyped, ActsOnAll, Au!Rules, Au!ActionReturns
  <2>6. PendingHeld'
    BY <1>0, <1>3, AutoConstants DEF PendingHeld, AutoTyped, BatchFields, Au!Starters, BatchesRest, UnderWay, Au!ActionReturns
  <2>7. Au!RulesAreIndependent'
    BY <1>0, <1>3, AutoConstants DEF Au!RulesAreIndependent, AutoTyped, ActsOnAll, RunsToCome, Au!Rules, Au!Matching, Au!ActionReturns
  <2> QED BY <2>1, <2>2, <2>3, <2>4, <2>5, <2>6, <2>7 DEF AutoInv
<1>4. CASE Au!CloseRun
  <2>1. AutoTyped'
    BY <1>0, <1>4, AutoConstants DEF AutoTyped, BatchFields, Au!Starters, Au!CloseRun
  <2>2. BatchesRest'
    BY <1>0, <1>4, AutoConstants DEF BatchesRest, AutoTyped, BatchFields, Au!Starters, UnderWay, Au!Matching, Au!CloseRun
  <2>3. ActsOnAll'
    BY <1>0, <1>4, AutoConstants DEF ActsOnAll, AutoTyped, BatchFields, Au!Starters, UnderWay, BatchesRest, Au!Matching, Au!CloseRun
  <2>4. TouchedMatches'
    BY <1>0, <1>4, RulesNumbered DEF TouchedMatches, AutoTyped, BatchFields, Au!Starters, UnderWay, Au!Matching, Au!CloseRun
  <2>5. RunsToCome'
    BY <1>0, <1>4, RulesNumbered DEF RunsToCome, AutoTyped, ActsOnAll, Au!CloseRun
  <2>6. PendingHeld'
    BY <1>0, <1>4, AutoConstants DEF PendingHeld, AutoTyped, BatchFields, Au!Starters, BatchesRest, UnderWay, Au!CloseRun
  <2>7. Au!RulesAreIndependent'
    BY <1>0, <1>4, RulesNumbered DEF Au!RulesAreIndependent, AutoTyped, ActsOnAll, RunsToCome, Au!Matching, Au!CloseRun
  <2> QED BY <2>1, <2>2, <2>3, <2>4, <2>5, <2>6, <2>7 DEF AutoInv
<1>5. CASE Au!CloseFails
  <2>1. AutoTyped'
    BY <1>0, <1>5, AutoConstants DEF AutoTyped, BatchFields, Au!Starters, Au!CloseFails
  <2>2. BatchesRest'
    BY <1>0, <1>5, AutoConstants DEF BatchesRest, AutoTyped, BatchFields, Au!Starters, UnderWay, Au!Matching, Au!CloseFails
  <2>3. ActsOnAll'
    BY <1>0, <1>5, AutoConstants DEF ActsOnAll, AutoTyped, BatchFields, Au!Starters, UnderWay, BatchesRest, Au!Matching, Au!CloseFails
  <2>4. TouchedMatches'
    BY <1>0, <1>5, AutoConstants DEF TouchedMatches, AutoTyped, BatchFields, Au!Starters, UnderWay, Au!Matching, Au!CloseFails
  <2>5. RunsToCome'
    BY <1>0, <1>5, AutoConstants DEF RunsToCome, AutoTyped, ActsOnAll, Au!Rules, Au!CloseFails
  <2>6. PendingHeld'
    BY <1>0, <1>5, AutoConstants DEF PendingHeld, AutoTyped, BatchFields, Au!Starters, BatchesRest, UnderWay, Au!CloseFails
  <2>7. Au!RulesAreIndependent'
    <3>1. engine.rule \in Au!Rules /\ Au!Matching(engine.rule) # {}
      BY <1>0, <1>5 DEF ActsOnAll, Au!CloseFails
    <3>2. \A r \in Au!Rules : Au!Matching(r)' = Au!Matching(r)
      BY <1>5 DEF Au!Matching, Au!CloseFails
    <3>3. CASE ruleRun' = [ruleRun EXCEPT ![engine.rule] = "failed"] /\ engine'.rule = engine.rule + 1
      <4>1. DOMAIN ruleRun = Au!Rules /\ engine.rule \in Nat /\ Au!Rules \subseteq Nat
        BY <1>0, RulesNumbered DEF AutoTyped
      <4>2. ruleRun'[engine.rule] = "failed"
        BY <3>1, <3>3, <4>1
      <4>3. ASSUME NEW r \in Au!Rules, r < engine'.rule PROVE r < engine.rule \/ r = engine.rule
        BY <3>3, <4>1, <4>3
      <4>4. \A r \in Au!Rules : r # engine.rule => ruleRun'[r] = ruleRun[r]
        BY <3>3, <4>1
      <4> QED BY <1>0, <3>1, <3>2, <4>2, <4>3, <4>4 DEF Au!RulesAreIndependent
    <3>4. CASE ruleRun' = ruleRun /\ engine'.rule = engine.rule
      BY <1>0, <3>2, <3>4 DEF Au!RulesAreIndependent
    <3> QED BY <1>0, <1>5, <3>3, <3>4 DEF AutoTyped, Au!CloseFails
  <2> QED BY <2>1, <2>2, <2>3, <2>4, <2>5, <2>6, <2>7 DEF AutoInv
<1>6. CASE Au!UserStarts
  <2>1. AutoTyped'
    BY <1>0, <1>6, AutoConstants DEF AutoTyped, BatchFields, Au!Starters, Au!UserStarts
  <2>2. BatchesRest'
    <3>1. PICK as \in SUBSET Au!List : batch' = [batch EXCEPT !["user"] = [Au!NoBatch EXCEPT !.runs = TRUE, !.left = as]]
      BY <1>6 DEF Au!UserStarts
    <3>2. /\ batch'["user"].runs /\ batch'["user"].left = as /\ batch'["user"].chunk = {} /\ batch'["user"].busy = {}
          /\ batch'["rule"] = batch["rule"] /\ engine' = engine
      BY <1>0, <1>6, <3>1 DEF AutoTyped, Au!Starters, Au!UserStarts
    <3> QED BY <1>0, <3>1, <3>2 DEF BatchesRest, Au!Starters, UnderWay
  <2>3. ActsOnAll'
    BY <1>0, <1>6, AutoConstants DEF ActsOnAll, AutoTyped, BatchFields, Au!Starters, UnderWay, BatchesRest, Au!Matching, Au!UserStarts
  <2>4. TouchedMatches'
    BY <1>0, <1>6, AutoConstants DEF TouchedMatches, AutoTyped, BatchFields, Au!Starters, UnderWay, Au!Matching, Au!UserStarts
  <2>5. RunsToCome'
    BY <1>0, <1>6, AutoConstants DEF RunsToCome, AutoTyped, ActsOnAll, Au!Rules, Au!UserStarts
  <2>6. PendingHeld'
    BY <1>0, <1>6, AutoConstants DEF PendingHeld, AutoTyped, BatchFields, Au!Starters, BatchesRest, UnderWay, Au!UserStarts
  <2>7. Au!RulesAreIndependent'
    BY <1>0, <1>6, AutoConstants DEF Au!RulesAreIndependent, AutoTyped, ActsOnAll, RunsToCome, Au!Rules, Au!Matching, Au!UserStarts
  <2> QED BY <2>1, <2>2, <2>3, <2>4, <2>5, <2>6, <2>7 DEF AutoInv
<1>7. ASSUME NEW b \in Au!Starters, Au!NextChunk(b) PROVE AutoInv'
  <2>1. PICK c \in SUBSET batch[b].left : batch' = [batch EXCEPT ![b] = [batch[b] EXCEPT
            !.runs = batch[b].left # {}, !.chunk = c, !.left = batch[b].left \ c]]
    BY <1>7 DEF Au!NextChunk, Au!FirstOf
  <2>2. batch[b].runs /\ batch[b].chunk = {} /\ batch[b].busy = {} /\ UNCHANGED <<composite, outreach, engine, ruleRun, failures>>
    BY <1>7 DEF Au!NextChunk
  <2>3. /\ batch'[b].runs = (batch[b].left # {}) /\ batch'[b].chunk = c /\ batch'[b].left = batch[b].left \ c
        /\ batch'[b].busy = batch[b].busy /\ batch'[b].treated = batch[b].treated
        /\ batch'[b].missed = batch[b].missed /\ DOMAIN batch'[b] = BatchFields
    BY <1>0, <2>1 DEF AutoTyped, BatchFields
  <2>4. DOMAIN batch' = Au!Starters /\ \A d \in Au!Starters : d # b => batch'[d] = batch[d]
    BY <1>0, <2>1 DEF AutoTyped
  <2>5. \A d \in Au!Starters : UnderWay(d)' = UnderWay(d) /\ batch'[d].busy = batch[d].busy
    BY <2>1, <2>2, <2>3, <2>4 DEF UnderWay
  <2>6. \A d \in Au!Starters : batch'[d].treated = batch[d].treated /\ batch'[d].missed = batch[d].missed
    BY <2>3, <2>4
  <2>7. AutoTyped'
    BY <1>0, <2>2, <2>3, <2>4 DEF AutoTyped
  <2>8. BatchesRest'
    <3>1. \A d \in Au!Starters : ~batch'[d].runs => UnderWay(d)' = {}
      <4>1. ASSUME NEW d \in Au!Starters, d # b, ~batch'[d].runs PROVE UnderWay(d)' = {}
        BY <1>0, <2>4, <2>5, <4>1 DEF BatchesRest
      <4>2. ~batch'[b].runs => UnderWay(b)' = {}
        BY <2>1, <2>2, <2>3 DEF UnderWay
      <4> QED BY <4>1, <4>2
    <3>2. batch'["rule"].runs => batch["rule"].runs
      BY <2>2, <2>4 DEF Au!Starters
    <3> QED BY <1>0, <2>2, <2>5, <3>1, <3>2 DEF BatchesRest
  <2>9. ActsOnAll' /\ TouchedMatches'
    BY <1>0, <2>2, <2>5, <2>6 DEF ActsOnAll, TouchedMatches, Au!Starters, Au!Matching
  <2>10. RunsToCome' /\ PendingHeld' /\ Au!RulesAreIndependent'
    BY <1>0, <2>2, <2>5 DEF RunsToCome, PendingHeld, Au!RulesAreIndependent, Au!Matching
  <2> QED BY <2>7, <2>8, <2>9, <2>10 DEF AutoInv
<1>8. ASSUME NEW b \in Au!Starters, NEW a \in Au!List, Au!Take(b, a) PROVE AutoInv'
  <2>1. AutoTyped'
    BY <1>0, <1>8, AutoConstants DEF AutoTyped, BatchFields, Au!Starters, Au!Take
  <2>2. BatchesRest'
    BY <1>0, <1>8, AutoConstants DEF BatchesRest, AutoTyped, BatchFields, Au!Starters, UnderWay, Au!Matching, Au!Take
  <2>3. ActsOnAll'
    BY <1>0, <1>8, AutoConstants DEF ActsOnAll, AutoTyped, BatchFields, Au!Starters, UnderWay, BatchesRest, Au!Matching, Au!Take
  <2>4. TouchedMatches'
    BY <1>0, <1>8, AutoConstants DEF TouchedMatches, AutoTyped, BatchFields, Au!Starters, UnderWay, Au!Matching, Au!Take
  <2>5. RunsToCome'
    BY <1>0, <1>8, AutoConstants DEF RunsToCome, AutoTyped, ActsOnAll, Au!Rules, Au!Take
  <2>6. PendingHeld'
    BY <1>0, <1>8, AutoConstants DEF PendingHeld, AutoTyped, BatchFields, Au!Starters, BatchesRest, UnderWay, Au!Take
  <2>7. Au!RulesAreIndependent'
    BY <1>0, <1>8, AutoConstants DEF Au!RulesAreIndependent, AutoTyped, ActsOnAll, RunsToCome, Au!Rules, Au!Matching, Au!Take
  <2> QED BY <2>1, <2>2, <2>3, <2>4, <2>5, <2>6, <2>7 DEF AutoInv
<1>9. ASSUME NEW b \in Au!Starters, NEW a \in Au!List, Au!Treat(b, a) PROVE AutoInv'
  <2>1. AutoTyped'
    BY <1>0, <1>9, AutoConstants DEF AutoTyped, BatchFields, Au!Starters, Au!Treat
  <2>2. BatchesRest'
    BY <1>0, <1>9, AutoConstants DEF BatchesRest, AutoTyped, BatchFields, Au!Starters, UnderWay, Au!Matching, Au!Treat
  <2>3. ActsOnAll'
    BY <1>0, <1>9, AutoConstants DEF ActsOnAll, AutoTyped, BatchFields, Au!Starters, UnderWay, BatchesRest, Au!Matching, Au!Treat
  <2>4. TouchedMatches'
    BY <1>0, <1>9, AutoConstants DEF TouchedMatches, AutoTyped, BatchFields, Au!Starters, UnderWay, Au!Matching, Au!Treat
  <2>5. RunsToCome'
    BY <1>0, <1>9, AutoConstants DEF RunsToCome, AutoTyped, ActsOnAll, Au!Rules, Au!Treat
  <2>6. PendingHeld'
    BY <1>0, <1>9, AutoConstants DEF PendingHeld, AutoTyped, BatchFields, Au!Starters, BatchesRest, UnderWay, Au!Treat
  <2>7. Au!RulesAreIndependent'
    BY <1>0, <1>9, AutoConstants DEF Au!RulesAreIndependent, AutoTyped, ActsOnAll, RunsToCome, Au!Rules, Au!Matching, Au!Treat
  <2> QED BY <2>1, <2>2, <2>3, <2>4, <2>5, <2>6, <2>7 DEF AutoInv
<1>10. ASSUME NEW b \in Au!Starters, NEW a \in Au!List, Au!TreatRaises(b, a) PROVE AutoInv'
  <2>1. AutoTyped'
    <3>1. DOMAIN batch' = Au!Starters /\ DOMAIN batch'[b] = BatchFields /\ \A d \in Au!Starters \ {b} : batch'[d] = batch[d]
      BY <1>0, <1>10 DEF AutoTyped, BatchFields, Au!TreatRaises
    <3> QED BY <1>0, <1>10, <3>1 DEF AutoTyped, Au!TreatRaises
  <2>2. BatchesRest'
    BY <1>0, <1>10, AutoConstants DEF BatchesRest, AutoTyped, BatchFields, Au!Starters, UnderWay, Au!Matching, Au!TreatRaises
  <2>3. ActsOnAll'
    BY <1>0, <1>10, AutoConstants DEF ActsOnAll, AutoTyped, BatchFields, Au!Starters, UnderWay, BatchesRest, Au!Matching, Au!TreatRaises
  <2>4. TouchedMatches'
    BY <1>0, <1>10, AutoConstants DEF TouchedMatches, AutoTyped, BatchFields, Au!Starters, UnderWay, Au!Matching, Au!TreatRaises
  <2>5. RunsToCome'
    BY <1>0, <1>10, AutoConstants DEF RunsToCome, AutoTyped, ActsOnAll, Au!Rules, Au!TreatRaises
  <2>6. PendingHeld'
    BY <1>0, <1>10, AutoConstants DEF PendingHeld, AutoTyped, BatchFields, Au!Starters, BatchesRest, UnderWay, Au!TreatRaises
  <2>7. Au!RulesAreIndependent'
    BY <1>0, <1>10, AutoConstants DEF Au!RulesAreIndependent, AutoTyped, ActsOnAll, RunsToCome, Au!Rules, Au!Matching, Au!TreatRaises
  <2> QED BY <2>1, <2>2, <2>3, <2>4, <2>5, <2>6, <2>7 DEF AutoInv
<1>11. ASSUME NEW b \in Au!Starters, Au!BatchDies(b) PROVE AutoInv'
  <2>1. AutoTyped'
    BY <1>0, <1>11, AutoConstants DEF AutoTyped, BatchFields, Au!Starters, Au!BatchDies
  <2>2. BatchesRest'
    BY <1>0, <1>11, AutoConstants DEF BatchesRest, AutoTyped, BatchFields, Au!Starters, UnderWay, Au!Matching, Au!BatchDies
  <2>3. ActsOnAll'
    BY <1>0, <1>11, AutoConstants DEF ActsOnAll, AutoTyped, BatchFields, Au!Starters, UnderWay, BatchesRest, Au!Matching, Au!BatchDies
  <2>4. TouchedMatches'
    BY <1>0, <1>11, AutoConstants DEF TouchedMatches, AutoTyped, BatchFields, Au!Starters, UnderWay, Au!Matching, Au!BatchDies
  <2>5. RunsToCome'
    BY <1>0, <1>11, AutoConstants DEF RunsToCome, AutoTyped, ActsOnAll, Au!Rules, Au!BatchDies
  <2>6. PendingHeld'
    BY <1>0, <1>11, AutoConstants DEF PendingHeld, AutoTyped, BatchFields, Au!Starters, BatchesRest, UnderWay, Au!BatchDies
  <2>7. Au!RulesAreIndependent'
    BY <1>0, <1>11, AutoConstants DEF Au!RulesAreIndependent, AutoTyped, ActsOnAll, RunsToCome, Au!Rules, Au!Matching, Au!BatchDies
  <2> QED BY <2>1, <2>2, <2>3, <2>4, <2>5, <2>6, <2>7 DEF AutoInv
<1>12. CASE UNCHANGED autoVars
  <2>1. AutoTyped' /\ BatchesRest' /\ PendingHeld'
    BY <1>0, <1>12 DEF autoVars, AutoTyped, BatchesRest, PendingHeld, UnderWay
  <2>2. ActsOnAll' /\ TouchedMatches' /\ RunsToCome' /\ Au!RulesAreIndependent'
    BY <1>0, <1>12 DEF autoVars, ActsOnAll, TouchedMatches, RunsToCome, Au!RulesAreIndependent, UnderWay, Au!Matching
  <2> QED BY <2>1, <2>2 DEF AutoInv
<1> QED BY <1>1, <1>2, <1>3, <1>4, <1>5, <1>6, <1>7, <1>8, <1>9, <1>10, <1>11, <1>12 DEF Au!AutoNext, Au!EngineGoesOn, Au!BatchGoesOn

\* What a rule treated matches it, what it closes it has worked off.
LEMMA RulesActOnTheirs == AutoInv => Au!RulesActOnMatches
<1> SUFFICES ASSUME AutoInv PROVE Au!RulesActOnMatches
    OBVIOUS
<1>0. AutoTyped /\ BatchesRest /\ ActsOnAll /\ TouchedMatches /\ PendingHeld
    BY DEF AutoInv
<1>1. ASSUME engine.rule \in Au!Rules, NEW a \in batch["rule"].busy \cup batch["rule"].treated
      PROVE  a \in UNION {Au!Matching(r) : r \in 1 .. engine.rule}
  <2>1. a \in UnderWay("rule") \cup batch["rule"].treated
    BY <1>1 DEF UnderWay
  <2>2. PICK r \in Au!Rules : r <= engine.rule /\ a \in Au!Matching(r)
    BY <1>0, <2>1 DEF TouchedMatches
  <2>3. r \in 1 .. engine.rule
    BY <1>1, <2>2, RulesNumbered
  <2> QED BY <2>2, <2>3
<1>2. ASSUME engine.at = "closing"
      PROVE  batch["rule"].treated \cup batch["rule"].missed = Au!Matching(engine.rule)
  <2>1. UnderWay("rule") = {}
    BY <1>0, <1>2 DEF BatchesRest, Au!Starters
  <2> QED BY <1>0, <1>2, <2>1 DEF ActsOnAll
<1> QED BY <1>0, <1>1, <1>2 DEF Au!RulesActOnMatches, Au!EngineAt, PendingHeld

-----------------------------------------------------------------------------
(* Deliveries of a webhook and their records.                              *)

DeliveryFields == {"at", "to", "status", "tries", "slept", "answer"}

\* What the place of a delivery says of its record, its attempts and its answer; n is how often
\* the endpoint got it, lost the deliveries an answer or an entry of which was lost.
Stands(r, n, d, lost) ==
    /\ n \in Nat /\ r.tries \in Nat
    /\ r.at # "over" => r.status \in {"none", "pending"}
    /\ r.at \in {"free", "recording", "posting", "sleeping", "spent"} => r.answer = "none" /\ (n > 0 => d \in lost)
    /\ r.at = "entering" => r.answer \in {"success", "failed"} /\ (r.answer = "success" => n > 0)
    /\ r.at \in {"posting", "entering"} => r.tries <= Attempts
    /\ r.at = "sleeping" => r.tries < Attempts
    /\ r.at = "spent" => r.tries = Attempts
    /\ r.status = "success" => n > 0
    /\ r.status = "failed" => r.tries = Attempts \/ r.answer = "failed"
    /\ n > 1 => d \in lost

ReportInv ==
    /\ DOMAIN received = Deliveries /\ DOMAIN delivery = Deliveries
    /\ \A d \in Deliveries : DOMAIN delivery[d] = DeliveryFields /\ Stands(delivery[d], received[d], d, unsure)

\* No delivery was begun.
LEMMA ReportInvInit == Re!ReportInit => ReportInv
<1> SUFFICES ASSUME Re!ReportInit PROVE ReportInv
    OBVIOUS
<1>1. DOMAIN received = Deliveries /\ DOMAIN delivery = Deliveries
    BY DEF Re!ReportInit
<1>2. ASSUME NEW d \in Deliveries
      PROVE  DOMAIN delivery[d] = DeliveryFields /\ Stands(delivery[d], received[d], d, unsure)
  <2>1. delivery[d] = Re!NotStarted /\ received[d] = 0
    BY DEF Re!ReportInit
  <2>2. DOMAIN delivery[d] = DeliveryFields
    BY <2>1 DEF Re!NotStarted, DeliveryFields
  <2>3. /\ delivery[d].at = "free" /\ delivery[d].status = "none"
        /\ delivery[d].tries = 0 /\ delivery[d].answer = "none"
    BY <2>1 DEF Re!NotStarted
  <2> QED BY <2>1, <2>2, <2>3 DEF Stands
<1> QED BY <1>1, <1>2 DEF ReportInv

\* A step of one delivery leaves the others as they are.
LEMMA OneDelivery ==
    ASSUME ReportInv, NEW d \in Deliveries, DOMAIN received' = Deliveries, DOMAIN delivery' = Deliveries,
           \A e \in Deliveries \ {d} : delivery'[e] = delivery[e] /\ received'[e] = received[e] /\ (e \in unsure' <=> e \in unsure),
           DOMAIN delivery'[d] = DeliveryFields, Stands(delivery'[d], received'[d], d, unsure')
    PROVE  ReportInv'
<1>1. ASSUME NEW e \in Deliveries, e # d
      PROVE  DOMAIN delivery'[e] = DeliveryFields /\ Stands(delivery'[e], received'[e], e, unsure')
    BY <1>1 DEF ReportInv, Stands
<1> QED BY <1>1 DEF ReportInv

\* An attempt that settled nothing leaves a delivery that sleeps or gives up.
LEMMA StandsLater ==
    ASSUME NEW r, NEW s, NEW n, NEW m, NEW d, NEW lost, NEW gone,
           Stands(r, n, d, lost), r.at \in {"posting", "entering"},
           s.answer = "none", s.status = r.status, s.tries = r.tries,
           \/ s.at = "sleeping" /\ r.tries < Attempts
           \/ s.at = "spent" /\ r.tries >= Attempts,
           m \in Nat, m > 0 => d \in gone
    PROVE  Stands(s, m, d, gone)
<1>1. r.tries \in Nat /\ r.tries <= Attempts /\ Attempts \in Nat /\ r.status \in {"none", "pending"}
    BY ReportConstants DEF Stands
<1>2. CASE s.at = "sleeping" /\ r.tries < Attempts
    BY <1>1, <1>2 DEF Stands
<1>3. CASE s.at = "spent" /\ r.tries >= Attempts
  <2>1. s.tries = Attempts
    BY <1>1, <1>3
  <2> QED BY <1>1, <1>3, <2>1 DEF Stands
<1> QED BY <1>2, <1>3

\* Every step of a delivery preserves the invariant of Reports.
LEMMA ReportInvNext == ReportInv /\ [Re!ReportNext]_reportVars => ReportInv'
<1> SUFFICES ASSUME ReportInv, [Re!ReportNext]_reportVars PROVE ReportInv'
    OBVIOUS
<1> USE DEF Re!DeliveryAt, Re!Settles, Re!Receives
<1>0. /\ DOMAIN received = Deliveries /\ DOMAIN delivery = Deliveries
      /\ \A d \in Deliveries : DOMAIN delivery[d] = DeliveryFields /\ Stands(delivery[d], received[d], d, unsure)
    BY DEF ReportInv
<1>l. ASSUME NEW d \in Deliveries, Re!Later(d)
      PROVE  /\ DOMAIN delivery' = Deliveries /\ DOMAIN delivery'[d] = DeliveryFields
             /\ \A e \in Deliveries \ {d} : delivery'[e] = delivery[e]
             /\ delivery'[d].answer = "none" /\ delivery'[d].status = delivery[d].status
             /\ delivery'[d].tries = delivery[d].tries
             /\ \/ delivery'[d].at = "sleeping" /\ delivery[d].tries < Attempts
                \/ delivery'[d].at = "spent" /\ delivery[d].tries >= Attempts
  <2>1. DOMAIN delivery[d] = DeliveryFields
    BY <1>0
  <2>2. CASE /\ delivery[d].tries < Attempts
             /\ delivery' = [delivery EXCEPT ![d].at = "sleeping", ![d].answer = "none",
                                             ![d].slept = @ + Re!Sleep(delivery[d].tries)]
    BY <1>0, <2>1, <2>2 DEF DeliveryFields
  <2>3. CASE /\ delivery[d].tries >= Attempts
             /\ delivery' = [delivery EXCEPT ![d].at = "spent", ![d].answer = "none"]
    BY <1>0, <2>1, <2>3 DEF DeliveryFields
  <2> QED BY <1>l, <2>2, <2>3 DEF Re!Later
<1>1. ASSUME NEW d \in Deliveries, Re!Report(d) PROVE ReportInv'
  <2>1. /\ DOMAIN delivery' = Deliveries /\ DOMAIN delivery'[d] = DeliveryFields
        /\ \A e \in Deliveries \ {d} : delivery'[e] = delivery[e]
        /\ delivery'[d].at = "recording" /\ delivery'[d].status = delivery[d].status
        /\ delivery'[d].tries = delivery[d].tries /\ delivery'[d].answer = delivery[d].answer
    BY <1>0, <1>1 DEF DeliveryFields, Re!Report
  <2>2. UNCHANGED <<received, unsure>> /\ delivery[d].at = "free"
    BY <1>1 DEF Re!Report
  <2>3. Stands(delivery[d], received[d], d, unsure)
    BY <1>0
  <2>4. Stands(delivery'[d], received'[d], d, unsure')
    BY <2>1, <2>2, <2>3, ReportConstants DEF Stands
  <2> QED BY <1>0, <2>1, <2>2, <2>4, OneDelivery
<1>2. ASSUME NEW d \in Deliveries, Re!RecordDelivery(d) PROVE ReportInv'
  <2>1. /\ DOMAIN delivery' = Deliveries /\ DOMAIN delivery'[d] = DeliveryFields
        /\ \A e \in Deliveries \ {d} : delivery'[e] = delivery[e]
        /\ delivery'[d].at = "posting" /\ delivery'[d].status = "pending"
        /\ delivery'[d].tries = 1 /\ delivery'[d].answer = delivery[d].answer
    BY <1>0, <1>2 DEF DeliveryFields, Re!RecordDelivery
  <2>2. UNCHANGED <<received, unsure>> /\ delivery[d].at = "recording"
    BY <1>2 DEF Re!RecordDelivery
  <2>3. Stands(delivery[d], received[d], d, unsure)
    BY <1>0
  <2>4. Stands(delivery'[d], received'[d], d, unsure')
    BY <2>1, <2>2, <2>3, ReportConstants DEF Stands
  <2> QED BY <1>0, <2>1, <2>2, <2>4, OneDelivery
<1>3. ASSUME NEW d \in Deliveries, Re!Enter(d) PROVE ReportInv'
  <2>1. /\ DOMAIN delivery' = Deliveries /\ DOMAIN delivery'[d] = DeliveryFields
        /\ \A e \in Deliveries \ {d} : delivery'[e] = delivery[e]
        /\ delivery'[d].at = "over" /\ delivery'[d].status = delivery[d].answer
        /\ delivery'[d].tries = delivery[d].tries /\ delivery'[d].answer = delivery[d].answer
    BY <1>0, <1>3 DEF DeliveryFields, Re!Enter
  <2>2. UNCHANGED <<received, unsure>> /\ delivery[d].at = "entering"
    BY <1>3 DEF Re!Enter
  <2>3. Stands(delivery[d], received[d], d, unsure)
    BY <1>0
  <2>4. Stands(delivery'[d], received'[d], d, unsure')
    BY <2>1, <2>2, <2>3, ReportConstants DEF Stands
  <2> QED BY <1>0, <2>1, <2>2, <2>4, OneDelivery
<1>4. ASSUME NEW d \in Deliveries, Re!WakeUp(d) PROVE ReportInv'
  <2>1. /\ DOMAIN delivery' = Deliveries /\ DOMAIN delivery'[d] = DeliveryFields
        /\ \A e \in Deliveries \ {d} : delivery'[e] = delivery[e]
        /\ delivery'[d].at = "posting" /\ delivery'[d].status = delivery[d].status
        /\ delivery'[d].tries = delivery[d].tries + 1 /\ delivery'[d].answer = delivery[d].answer
    BY <1>0, <1>4 DEF DeliveryFields, Re!WakeUp
  <2>2. UNCHANGED <<received, unsure>> /\ delivery[d].at = "sleeping"
    BY <1>4 DEF Re!WakeUp
  <2>3. Stands(delivery[d], received[d], d, unsure)
    BY <1>0
  <2>4. Stands(delivery'[d], received'[d], d, unsure')
    BY <2>1, <2>2, <2>3, ReportConstants DEF Stands
  <2> QED BY <1>0, <2>1, <2>2, <2>4, OneDelivery
<1>5. ASSUME NEW d \in Deliveries, Re!GiveUp(d) PROVE ReportInv'
  <2>1. /\ DOMAIN delivery' = Deliveries /\ DOMAIN delivery'[d] = DeliveryFields
        /\ \A e \in Deliveries \ {d} : delivery'[e] = delivery[e]
        /\ delivery'[d].at = "over" /\ delivery'[d].status = "failed"
        /\ delivery'[d].tries = delivery[d].tries /\ delivery'[d].answer = delivery[d].answer
    BY <1>0, <1>5 DEF DeliveryFields, Re!GiveUp
  <2>2. UNCHANGED <<received, unsure>> /\ delivery[d].at = "spent"
    BY <1>5 DEF Re!GiveUp
  <2>3. Stands(delivery[d], received[d], d, unsure)
    BY <1>0
  <2>4. Stands(delivery'[d], received'[d], d, unsure')
    BY <2>1, <2>2, <2>3, ReportConstants DEF Stands
  <2> QED BY <1>0, <2>1, <2>2, <2>4, OneDelivery
<1>6. ASSUME NEW d \in Deliveries, Re!Abandon(d) PROVE ReportInv'
  <2>1. /\ DOMAIN delivery' = Deliveries /\ DOMAIN delivery'[d] = DeliveryFields
        /\ \A e \in Deliveries \ {d} : delivery'[e] = delivery[e]
        /\ delivery'[d].at = "over" /\ delivery'[d].status = delivery[d].status
        /\ delivery'[d].tries = delivery[d].tries /\ delivery'[d].answer = delivery[d].answer
    BY <1>0, <1>6 DEF DeliveryFields, Re!Abandon
  <2>2. UNCHANGED <<received, unsure>>
    BY <1>6 DEF Re!Abandon
  <2>3. Stands(delivery[d], received[d], d, unsure)
    BY <1>0
  <2>4. Stands(delivery'[d], received'[d], d, unsure')
    BY <2>1, <2>2, <2>3, ReportConstants DEF Stands
  <2> QED BY <1>0, <2>1, <2>2, <2>4, OneDelivery
<1>7. ASSUME NEW d \in Deliveries, Re!EnterFails(d) PROVE ReportInv'
  <2>1. Re!Later(d) /\ delivery[d].at = "entering" /\ unsure' = unsure \cup {d} /\ received' = received
    BY <1>7 DEF Re!EnterFails
  <2>3. /\ delivery'[d].answer = "none" /\ delivery'[d].status = delivery[d].status
        /\ delivery'[d].tries = delivery[d].tries
        /\ \/ delivery'[d].at = "sleeping" /\ delivery[d].tries < Attempts
           \/ delivery'[d].at = "spent" /\ delivery[d].tries >= Attempts
    BY <1>l, <2>1
  <2>4. Stands(delivery[d], received[d], d, unsure)
    BY <1>0
  <2>5. received'[d] = received[d] /\ d \in unsure'
    BY <2>1
  <2>6. delivery[d].at = "entering"
    BY <2>1
  <2>2. Stands(delivery'[d], received'[d], d, unsure')
  <3>1. received[d] \in Nat
    BY <2>4 DEF Stands
  <3> QED BY <2>3, <2>4, <2>5, <2>6, <3>1, StandsLater
  <2> QED BY <1>0, <1>l, <2>1, <2>2, OneDelivery
<1>8. ASSUME NEW d \in Deliveries, Re!Post(d) PROVE ReportInv'
  <2>1. delivery[d].at = "posting" /\ Stands(delivery[d], received[d], d, unsure) /\ received[d] \in Nat
    BY <1>0, <1>8 DEF Re!Post, Stands
  <2>2. \A n \in 0 .. 1 : received' = [received EXCEPT ![d] = @ + n] =>
            /\ DOMAIN received' = Deliveries /\ received'[d] = received[d] + n
            /\ \A e \in Deliveries \ {d} : received'[e] = received[e]
    BY <1>0
  <2>3. ASSUME NEW a \in {"success", "failed"}, Re!Settles(d, a), UNCHANGED unsure,
               NEW n \in 0 .. 1, received' = [received EXCEPT ![d] = @ + n], a = "success" <=> n = 1
        PROVE  ReportInv'
    <3>1. /\ DOMAIN delivery' = Deliveries /\ DOMAIN delivery'[d] = DeliveryFields
          /\ \A e \in Deliveries \ {d} : delivery'[e] = delivery[e]
          /\ delivery'[d].at = "entering" /\ delivery'[d].answer = a
          /\ delivery'[d].status = delivery[d].status /\ delivery'[d].tries = delivery[d].tries
      BY <1>0, <2>3 DEF DeliveryFields
    <3>3. received'[d] = received[d] + n
      BY <2>2, <2>3
    <3>4. d \in unsure' <=> d \in unsure
      BY <2>3
    <3>5. (n = 0 /\ a = "failed") \/ (n = 1 /\ a = "success")
      BY <2>3
    <3>2. Stands(delivery'[d], received'[d], d, unsure')
      BY <2>1, <3>1, <3>3, <3>4, <3>5, ReportConstants DEF Stands
    <3> QED BY <2>2, <2>3, <3>1, <3>2, OneDelivery
  <2>4. ASSUME Re!Later(d), NEW n \in 0 .. 1, received' = [received EXCEPT ![d] = @ + n],
               unsure' = IF n = 1 THEN unsure \cup {d} ELSE unsure
        PROVE  ReportInv'
    <3>2. /\ delivery'[d].answer = "none" /\ delivery'[d].status = delivery[d].status
          /\ delivery'[d].tries = delivery[d].tries
          /\ \/ delivery'[d].at = "sleeping" /\ delivery[d].tries < Attempts
             \/ delivery'[d].at = "spent" /\ delivery[d].tries >= Attempts
      BY <1>l, <2>4
    <3>3. received'[d] = received[d] + n
      BY <2>2, <2>4
    <3>4. n = 1 => d \in unsure'
      BY <2>4
    <3>5. n = 0 => (d \in unsure' <=> d \in unsure)
      BY <2>4
    <3>6. n = 0 \/ n = 1
      BY <2>4
    <3>1. Stands(delivery'[d], received'[d], d, unsure')
      <4>1. received'[d] \in Nat /\ (received'[d] > 0 => d \in unsure')
        BY <2>1, <3>3, <3>4, <3>5, <3>6 DEF Stands
      <4> QED BY <2>1, <3>2, <4>1, StandsLater
    <3> QED BY <1>l, <2>2, <2>4, <3>1, OneDelivery
  <2> QED BY <1>8, <2>3, <2>4 DEF Re!Post
<1>9. CASE Re!Register \/ Re!Unregister \/ UNCHANGED reportVars
    BY <1>9 DEF ReportInv, reportVars, Re!Register, Re!Unregister
<1> QED BY <1>1, <1>2, <1>3, <1>4, <1>5, <1>6, <1>7, <1>8, <1>9 DEF Re!ReportNext, Re!Delivers

-----------------------------------------------------------------------------
(* How long a delivery sleeps.                                             *)

\* The most that sleeping off n attempts takes, with no longer a cap and no steeper a backoff than the code's.
SleptFor(n) == IF n <= 0 THEN 0 ELSE IF n = 1 THEN 5 ELSE IF n = 2 THEN 30 ELSE IF n = 3 THEN 155 ELSE 280

\* Whoever sleeps has counted the sleep of its attempt, the others only those before it.
Rested(r) ==
    /\ r.slept \in Int /\ r.tries \in Nat
    /\ r.at \in {"posting", "entering", "sleeping", "spent"} => r.tries > 0
    /\ r.at \in {"free", "recording"} => r.tries = 0
    /\ r.slept <= SleptFor(IF r.at \in {"sleeping", "over"} THEN r.tries ELSE r.tries - 1)

DelayInv == \A d \in Deliveries : Rested(delivery[d])

\* The first sleep is 5 seconds, the second 25, and none is more than 125.
LEMMA SleepsAreShort ==
    ASSUME NEW n \in 1 .. Attempts
    PROVE  /\ Re!Sleep(n) \in Int /\ Re!Sleep(n) <= 125
           /\ (n = 1 => Re!Sleep(n) <= 5) /\ (n = 2 => Re!Sleep(n) <= 25)
<1> DEFINE B == BackoffBase
           Grows(f) == f = [i \in 0 .. Attempts |-> IF i = 0 THEN 1 ELSE B * f[i-1]]
           g == [i \in 0 .. Attempts |-> IF i = 0 THEN 1 ELSE IF i = 1 THEN B * 1 ELSE IF i = 2 THEN B * (B * 1)
                    ELSE IF i = 3 THEN B * (B * (B * 1)) ELSE IF i = 4 THEN B * (B * (B * (B * 1)))
                    ELSE B * (B * (B * (B * (B * 1))))]
           h == CHOOSE f : Grows(f)
<1>0. Attempts \in Nat /\ Attempts <= 5 /\ B \in 0 .. 5 /\ LongestSleep \in 0 .. 125 /\ n \in Nat /\ n <= Attempts /\ n > 0
    BY ReportConstants, DelayConstants
<1>1. Re!Backoff = h
    BY DEF Re!Backoff
<1>2. Grows(g)
  <2>1. ASSUME NEW i \in 0 .. Attempts PROVE g[i] = IF i = 0 THEN 1 ELSE B * g[i-1]
    <3>1. i \in {0, 1, 2, 3, 4, 5}
      BY <1>0
    <3>2. i > 0 => i - 1 \in 0 .. Attempts
      BY <1>0
    <3> HIDE DEF B
    <3> QED BY <3>1, <3>2
  <2>2. g = [i \in 0 .. Attempts |-> g[i]]
    OBVIOUS
  <2> HIDE DEF g
  <2> QED BY <2>1, <2>2
<1>3. Grows(h)
  <2> HIDE DEF g
  <2> QED BY <1>2
<1>4. ASSUME NEW i \in 0 .. Attempts PROVE h[i] = IF i = 0 THEN 1 ELSE B * h[i-1]
  <2> HIDE DEF h
  <2>1. h[i] = [j \in 0 .. Attempts |-> IF j = 0 THEN 1 ELSE B * h[j-1]][i]
    BY <1>3
  <2> QED BY <2>1
<1> HIDE DEF h, g
<1>5. h[0] = 1
    BY <1>0, <1>4
<1>6. \A i \in 1 .. Attempts : i \in 0 .. Attempts /\ i - 1 \in 0 .. Attempts /\ i # 0
    BY <1>0
<1>7. \A i \in 1 .. Attempts : h[i] = B * h[i-1]
    BY <1>4, <1>6
<1>8. h[n] \in Int /\ (n = 1 => h[n] <= 5) /\ (n = 2 => h[n] <= 25)
  <2>1. h[1] = B * 1 /\ h[1] \in Int /\ h[1] <= 5
    <3>1. 1 \in 1 .. Attempts
      BY <1>0
    <3>2. h[1] = B * h[1-1] /\ 1 - 1 = 0
      BY <1>7, <3>1
    <3>3. h[1] = B * 1
      BY <3>2, <1>5
    <3> QED BY <3>3, <1>0
  <2>2. ASSUME NEW i \in 1 .. Attempts, h[i - 1] \in Int PROVE h[i] \in Int
    BY <1>0, <1>7, <2>2
  <2>3. n >= 2 => h[2] \in Int /\ h[2] <= 25
    <3>1. ASSUME n >= 2 PROVE h[2] = B * h[1]
      <4>1. 2 \in 1 .. Attempts /\ 2 - 1 = 1
        BY <1>0, <3>1
      <4> QED BY <1>7, <4>1
    <3>2. \A x, y \in 0 .. 5 : x * y \in Int /\ x * y <= 25
      <4>1. ASSUME NEW x \in 0 .. 5, NEW y \in 0 .. 5 PROVE x * y \in Int /\ x * y <= 25
        <5>1. y = 0 \/ y = 1 \/ y = 2 \/ y = 3 \/ y = 4 \/ y = 5
          OBVIOUS
        <5>2. x \in Int /\ x <= 5
          OBVIOUS
        <5>3. y = 0 => x * y = 0
          BY <5>2
        <5>4. y = 1 => x * y = x
          BY <5>2
        <5>5. y = 2 => x * y = 2 * x
          BY <5>2
        <5>6. y = 3 => x * y = 3 * x
          BY <5>2
        <5>7. y = 4 => x * y = 4 * x
          BY <5>2
        <5>8. y = 5 => x * y = 5 * x
          BY <5>2
        <5> QED BY <5>1, <5>2, <5>3, <5>4, <5>5, <5>6, <5>7, <5>8
      <4> QED BY <4>1
    <3>3. h[1] \in 0 .. 5
      BY <2>1, <1>0
    <3> HIDE DEF B
    <3> QED BY <3>1, <3>2, <3>3, <1>0
  <2>4. n >= 3 => h[3] \in Int
    BY <1>0, <2>2, <2>3
  <2>5. n >= 4 => h[4] \in Int
    BY <1>0, <2>2, <2>4
  <2>6. n >= 5 => h[5] \in Int
    BY <1>0, <2>2, <2>5
  <2>7. n = 1 \/ n = 2 \/ n = 3 \/ n = 4 \/ n = 5
    BY <1>0
  <2> QED BY <2>1, <2>3, <2>4, <2>5, <2>6, <2>7
<1>9. Re!Sleep(n) \in {h[n], LongestSleep} /\ Re!Sleep(n) <= h[n] /\ Re!Sleep(n) <= LongestSleep
  <2> DEFINE T == {h[n], LongestSleep}
  <2>1. \E x \in T : \A y \in T : x <= y
    BY <1>0, <1>8
  <2>2. Re!Sleep(n) = CHOOSE x \in T : \A y \in T : x <= y
    BY <1>1 DEF Re!Sleep, Re!Min
  <2> QED BY <2>1, <2>2
<1> QED BY <1>0, <1>8, <1>9

\* No delivery has slept.
LEMMA DelayInvInit == Re!ReportInit => DelayInv
<1> SUFFICES ASSUME Re!ReportInit, NEW d \in Deliveries PROVE Rested(delivery[d])
    BY DEF DelayInv
<1>1. delivery[d] = Re!NotStarted
    BY DEF Re!ReportInit
<1>2. delivery[d].at = "free" /\ delivery[d].slept = 0 /\ delivery[d].tries = 0
    BY <1>1 DEF Re!NotStarted
<1> QED BY <1>2 DEF Rested, SleptFor

\* One more sleep, at most as long as the attempt's number allows.
LEMMA RestedLater ==
    ASSUME NEW r, NEW s, Rested(r), r.at \in {"posting", "entering"}, s.tries = r.tries, r.tries <= Attempts,
           \/ s.at = "sleeping" /\ r.tries < Attempts /\ s.slept = r.slept + Re!Sleep(r.tries)
           \/ s.at = "spent" /\ s.slept = r.slept
    PROVE  Rested(s)
<1> DEFINE n == r.tries
           z == Re!Sleep(r.tries)
<1>1. n \in 1 .. Attempts /\ n \in Nat /\ Attempts <= 5 /\ r.slept \in Int /\ r.slept <= SleptFor(n - 1)
    BY ReportConstants, DelayConstants DEF Rested
<1>2. z \in Int /\ z <= 125 /\ (n = 1 => z <= 5) /\ (n = 2 => z <= 25)
    BY <1>1, SleepsAreShort
<1>3. CASE s.at = "sleeping" /\ r.tries < Attempts /\ s.slept = r.slept + Re!Sleep(r.tries)
  <2>0. s.slept = r.slept + z /\ s.tries = n /\ s.at = "sleeping"
    BY <1>3
  <2> HIDE DEF n, z
  <2>1. n = 1 \/ n = 2 \/ n = 3 \/ n = 4
    BY <1>1, <1>3, ReportConstants DEF n
  <2>2. s.slept \in Int /\ s.slept <= SleptFor(n)
    BY <1>1, <1>2, <2>0, <2>1 DEF SleptFor
  <2> QED BY <1>1, <2>0, <2>2 DEF Rested
<1>4. CASE s.at = "spent" /\ s.slept = r.slept
    BY <1>1, <1>4 DEF Rested
<1> QED BY <1>3, <1>4

\* A delivery that is over has slept no more than before.
LEMMA RestedOver ==
    ASSUME NEW r, NEW s, Rested(r), s.at = "over", s.tries = r.tries, s.slept = r.slept
    PROVE  Rested(s)
<1> DEFINE n == r.tries
<1>1. n \in Nat /\ r.slept \in Int /\ (r.slept <= SleptFor(n) \/ r.slept <= SleptFor(n - 1))
    BY DEF Rested
<1>2. r.slept <= SleptFor(n)
    BY <1>1 DEF SleptFor
<1>3. Rested(s) <=> s.slept \in Int /\ s.tries \in Nat /\ s.slept <= SleptFor(s.tries)
    BY DEF Rested
<1> QED BY <1>1, <1>2, <1>3

\* Every step of a delivery keeps it within its sleeps.
LEMMA DelayInvNext == ReportInv /\ DelayInv /\ [Re!ReportNext]_reportVars => DelayInv'
<1> SUFFICES ASSUME ReportInv, DelayInv, [Re!ReportNext]_reportVars PROVE DelayInv'
    OBVIOUS
<1> USE DEF Re!DeliveryAt, Re!Settles
<1>0. /\ DOMAIN delivery = Deliveries
      /\ \A d \in Deliveries : DOMAIN delivery[d] = DeliveryFields /\ Rested(delivery[d])
      /\ \A d \in Deliveries : delivery[d].at \in {"posting", "entering"} => delivery[d].tries <= Attempts
    BY DEF ReportInv, DelayInv, Stands
<1>o. ASSUME NEW d \in Deliveries, Rested(delivery'[d]), \A e \in Deliveries \ {d} : delivery'[e] = delivery[e]
      PROVE  DelayInv'
    BY <1>0, <1>o DEF DelayInv, Rested
<1>l. ASSUME NEW d \in Deliveries, Re!Later(d), delivery[d].at \in {"posting", "entering"} PROVE DelayInv'
  <2>1. DOMAIN delivery[d] = DeliveryFields /\ Rested(delivery[d]) /\ delivery[d].tries <= Attempts
    BY <1>0, <1>l
  <2>2. /\ \A e \in Deliveries \ {d} : delivery'[e] = delivery[e]
        /\ delivery'[d].tries = delivery[d].tries
        /\ \/ /\ delivery'[d].at = "sleeping" /\ delivery[d].tries < Attempts
              /\ delivery'[d].slept = delivery[d].slept + Re!Sleep(delivery[d].tries)
           \/ delivery'[d].at = "spent" /\ delivery'[d].slept = delivery[d].slept
    <3>2. CASE /\ delivery[d].tries < Attempts
               /\ delivery' = [delivery EXCEPT ![d].at = "sleeping", ![d].answer = "none",
                                               ![d].slept = @ + Re!Sleep(delivery[d].tries)]
      BY <1>0, <2>1, <3>2 DEF DeliveryFields
    <3>3. CASE /\ delivery[d].tries >= Attempts
               /\ delivery' = [delivery EXCEPT ![d].at = "spent", ![d].answer = "none"]
      BY <1>0, <2>1, <3>3 DEF DeliveryFields
    <3> QED BY <1>l, <3>2, <3>3 DEF Re!Later
  <2>3. Rested(delivery'[d])
    BY <1>l, <2>1, <2>2, RestedLater
  <2> QED BY <1>o, <2>2, <2>3
<1>1. ASSUME NEW d \in Deliveries, Re!Report(d) \/ Re!RecordDelivery(d) \/ Re!Enter(d) \/ Re!GiveUp(d) \/ Re!Abandon(d)
      PROVE  DelayInv'
  <2>1. DOMAIN delivery[d] = DeliveryFields /\ Rested(delivery[d])
    BY <1>0
  <2>2. /\ \A e \in Deliveries \ {d} : delivery'[e] = delivery[e]
        /\ delivery'[d].slept = delivery[d].slept
        /\ \/ delivery[d].at = "free" /\ delivery'[d].at = "recording" /\ delivery'[d].tries = delivery[d].tries
           \/ delivery[d].at = "recording" /\ delivery'[d].at = "posting" /\ delivery'[d].tries = 1
           \/ delivery'[d].at = "over" /\ delivery'[d].tries = delivery[d].tries
    <3>1. CASE Re!Report(d)
      BY <1>0, <2>1, <3>1 DEF Re!Report, DeliveryFields
    <3>2. CASE Re!RecordDelivery(d)
      BY <1>0, <2>1, <3>2 DEF Re!RecordDelivery, DeliveryFields
    <3>3. CASE Re!Enter(d)
      BY <1>0, <2>1, <3>3 DEF Re!Enter, DeliveryFields
    <3>4. CASE Re!GiveUp(d)
      BY <1>0, <2>1, <3>4 DEF Re!GiveUp, DeliveryFields
    <3>5. CASE Re!Abandon(d)
      BY <1>0, <2>1, <3>5 DEF Re!Abandon, DeliveryFields
    <3> QED BY <1>1, <3>1, <3>2, <3>3, <3>4, <3>5
  <2>3. Rested(delivery'[d])
    <3>1. delivery[d].tries \in Nat /\ delivery[d].slept \in Int
      BY <2>1 DEF Rested
    <3>2. CASE delivery'[d].at = "over"
      <4>1. delivery'[d].tries = delivery[d].tries /\ delivery'[d].slept = delivery[d].slept
        BY <2>2, <3>2
      <4> QED BY <2>1, <3>2, <4>1, RestedOver
    <3>3. CASE delivery'[d].at # "over"
      <4>1. SleptFor(0 - 1) = 0 /\ SleptFor(1 - 1) = 0
        BY DEF SleptFor
      <4>2. CASE delivery[d].at = "free" /\ delivery'[d].at = "recording" /\ delivery'[d].tries = delivery[d].tries
        BY <2>1, <2>2, <4>2 DEF Rested
      <4>3. CASE delivery[d].at = "recording" /\ delivery'[d].at = "posting" /\ delivery'[d].tries = 1
        BY <2>1, <2>2, <4>1, <4>3 DEF Rested
      <4> QED BY <2>2, <3>3, <4>2, <4>3
    <3> QED BY <3>2, <3>3
  <2> QED BY <1>o, <2>2, <2>3
<1>2. ASSUME NEW d \in Deliveries, Re!WakeUp(d) PROVE DelayInv'
  <2>1. DOMAIN delivery[d] = DeliveryFields /\ Rested(delivery[d]) /\ delivery[d].at = "sleeping"
    BY <1>0, <1>2 DEF Re!WakeUp
  <2>2. /\ \A e \in Deliveries \ {d} : delivery'[e] = delivery[e]
        /\ delivery'[d].slept = delivery[d].slept /\ delivery'[d].at = "posting"
        /\ delivery'[d].tries = delivery[d].tries + 1
    BY <1>0, <1>2, <2>1 DEF Re!WakeUp, DeliveryFields
  <2>3. Rested(delivery'[d])
    BY <2>1, <2>2 DEF Rested
  <2> QED BY <1>o, <2>2, <2>3
<1>3. ASSUME NEW d \in Deliveries, Re!Post(d) PROVE DelayInv'
  <2>1. DOMAIN delivery[d] = DeliveryFields /\ Rested(delivery[d]) /\ delivery[d].at = "posting"
    BY <1>0, <1>3 DEF Re!Post
  <2>2. ASSUME NEW a, Re!Settles(d, a) PROVE DelayInv'
    <3>1. /\ \A e \in Deliveries \ {d} : delivery'[e] = delivery[e]
          /\ delivery'[d].slept = delivery[d].slept /\ delivery'[d].at = "entering"
          /\ delivery'[d].tries = delivery[d].tries
      BY <1>0, <2>1, <2>2 DEF DeliveryFields
    <3>2. Rested(delivery'[d])
      BY <2>1, <3>1 DEF Rested
    <3> QED BY <1>o, <3>1, <3>2
  <2> QED BY <1>l, <1>3, <2>1, <2>2 DEF Re!Post
<1>4. ASSUME NEW d \in Deliveries, Re!EnterFails(d) PROVE DelayInv'
    BY <1>l, <1>4 DEF Re!EnterFails
<1>5. CASE Re!Register \/ Re!Unregister \/ UNCHANGED reportVars
  <2>1. delivery' = delivery
    BY <1>5 DEF reportVars, Re!Register, Re!Unregister
  <2> QED BY <2>1 DEF DelayInv, Rested
<1> QED BY <1>1, <1>2, <1>3, <1>4, <1>5 DEF Re!ReportNext, Re!Delivers

\* No delivery sleeps for longer than 280 seconds.
LEMMA DelaysAreShort == ReportInv /\ DelayInv => Re!DelayIsBounded
<1> SUFFICES ASSUME DelayInv, NEW d \in Deliveries PROVE delivery[d].slept <= Re!HeldUpFor
    BY DEF Re!DelayIsBounded
<1>1. Rested(delivery[d])
    BY DEF DelayInv
<1> QED BY <1>1 DEF Rested, SleptFor, Re!HeldUpFor

-----------------------------------------------------------------------------
(* Documents, their links and the requests that open them.                 *)

DocumentRow == [owner : Members, company : Companies, suffix : Nat, fresh : BOOLEAN, contacts : Nat]
VisitFields == {"at", "who", "company", "doc", "shown", "paid"}

\* A link is a company's name and a suffix: no user has two documents under one link.
LinksApart ==
    \A d, e \in DOMAIN docs :
        d # e /\ docs[d].owner = docs[e].owner /\ docs[d].company = docs[e].company => docs[d].suffix # docs[e].suffix

\* What a request asks for and what it shows are documents, of one name and one suffix.
Opens(r, table) ==
    /\ r.who \in Members /\ r.company \in Companies
    /\ r.at \in {"link", "enrich", "enriching"} \/ r.shown # 0 => r.doc \in DOMAIN table
    /\ r.shown # 0 => /\ r.shown \in DOMAIN table
                      /\ table[r.shown].company = table[r.doc].company
                      /\ table[r.shown].suffix = table[r.doc].suffix

PagesInv ==
    /\ docs \in Seq(DocumentRow) /\ LinksApart
    /\ DOMAIN visit = Visits
    /\ \A v \in Visits : DOMAIN visit[v] = VisitFields /\ Opens(visit[v], docs)

\* A request that is over asks for nothing and shows nothing.
LEMMA NobodysVisit ==
    /\ DOMAIN Do!NoVisit = VisitFields /\ Do!NoVisit.at = "idle" /\ Do!NoVisit.doc = 0 /\ Do!NoVisit.shown = 0
    /\ Do!NoVisit.who \in Members /\ Do!NoVisit.company \in Companies
<1>1. (CHOOSE u \in Members : TRUE) \in Members
    BY PagesConstants
<1>2. (CHOOSE c \in Companies : TRUE) \in Companies
    BY PagesConstants
<1> QED BY <1>1, <1>2 DEF Do!NoVisit, VisitFields

\* There are no documents yet.
LEMMA PagesInvInit == Do!PagesInit => PagesInv
<1> SUFFICES ASSUME Do!PagesInit PROVE PagesInv
    OBVIOUS
<1>1. docs = <<>> /\ docs \in Seq(DocumentRow) /\ DOMAIN docs = {}
    BY DEF Do!PagesInit
<1>2. LinksApart
    BY <1>1 DEF LinksApart
<1>3. DOMAIN visit = Visits /\ \A v \in Visits : visit[v] = Do!NoVisit
    BY DEF Do!PagesInit
<1>4. \A v \in Visits : DOMAIN visit[v] = VisitFields /\ Opens(visit[v], docs)
    BY <1>3, NobodysVisit DEF Opens
<1> QED BY <1>1, <1>2, <1>3, <1>4 DEF PagesInv

\* A request that goes on beside documents that stay, age or get contacts keeps the invariant.
LEMMA OneVisit ==
    ASSUME PagesInv, docs' \in Seq(DocumentRow), LinksApart', DOMAIN docs \subseteq DOMAIN docs',
           \A d \in DOMAIN docs : docs'[d].company = docs[d].company /\ docs'[d].suffix = docs[d].suffix,
           NEW v \in Visits, NEW r, visit' = [visit EXCEPT ![v] = r], DOMAIN r = VisitFields, Opens(r, docs)
    PROVE  PagesInv'
<1>1. DOMAIN visit' = Visits /\ visit'[v] = r /\ \A w \in Visits \ {v} : visit'[w] = visit[w]
    BY DEF PagesInv
<1>2. ASSUME NEW w \in Visits PROVE DOMAIN visit'[w] = VisitFields /\ Opens(visit'[w], docs')
  <2>1. DOMAIN visit'[w] = VisitFields /\ Opens(visit'[w], docs)
    BY <1>1 DEF PagesInv
  <2> QED BY <2>1 DEF Opens
<1> QED BY <1>1, <1>2 DEF PagesInv

\* So does a request beside documents that nothing happens to.
LEMMA VisitMoves ==
    ASSUME PagesInv, UNCHANGED docs, NEW v \in Visits, NEW r,
           visit' = [visit EXCEPT ![v] = r], DOMAIN r = VisitFields, Opens(r, docs)
    PROVE  PagesInv'
<1>1. docs' \in Seq(DocumentRow) /\ LinksApart'
    BY DEF PagesInv, LinksApart
<1> QED BY <1>1, OneVisit

\* A request that is over asks for no document.
LEMMA VisitEnds ==
    ASSUME NEW table PROVE DOMAIN Do!NoVisit = VisitFields /\ Opens(Do!NoVisit, table)
    BY NobodysVisit DEF Opens

\* Every step of a request preserves the invariant of DocumentPages.
LEMMA PagesInvNext == PagesInv /\ [Do!PagesNext]_pagesVars => PagesInv'
<1> SUFFICES ASSUME PagesInv, [Do!PagesNext]_pagesVars PROVE PagesInv'
    OBVIOUS
<1> USE DEF Do!VisitAt, Do!VisitTo, Do!Answered, Do!Shows, Do!OwnedBy
<1>0. /\ docs \in Seq(DocumentRow) /\ LinksApart /\ DOMAIN visit = Visits
      /\ \A v \in Visits : DOMAIN visit[v] = VisitFields /\ Opens(visit[v], docs)
    BY DEF PagesInv
<1>1. ASSUME NEW v \in Visits, UNCHANGED docs, visit' = [visit EXCEPT ![v] = Do!NoVisit]
      PROVE  PagesInv'
    BY <1>1, VisitEnds, VisitMoves
<1>2. ASSUME NEW v \in Visits, NEW u \in Members, NEW c \in Companies,
             Do!StartResearch(v, u, c) \/ Do!CreateResearch(v, u, c)
      PROVE  PagesInv'
  <2>1. UNCHANGED docs
    BY <1>2 DEF Do!StartResearch, Do!CreateResearch
  <2>2. ASSUME NEW p \in {"starting", "researching"},
               visit' = [visit EXCEPT ![v] = [Do!NoVisit EXCEPT !.at = p, !.who = u, !.company = c, !.paid = 2]]
        PROVE  PagesInv'
    <3> DEFINE r == [Do!NoVisit EXCEPT !.at = p, !.who = u, !.company = c, !.paid = 2]
    <3>1. /\ DOMAIN r = VisitFields /\ r.at = p /\ r.shown = 0
          /\ r.who = u /\ r.company = c
      BY NobodysVisit DEF VisitFields
    <3>2. Opens(r, docs)
      BY <3>1 DEF Opens
    <3>3. visit' = [visit EXCEPT ![v] = r]
      BY <2>2
    <3> HIDE DEF r
    <3> QED BY <2>1, <3>1, <3>2, <3>3, VisitMoves
  <2>3. CASE visit' = [visit EXCEPT ![v] = Do!NoVisit]
    BY <1>1, <2>1, <2>3
  <2> QED BY <1>2, <2>2, <2>3 DEF Do!StartResearch, Do!CreateResearch
<1>s. ASSUME NEW v \in Visits, Do!SendResearch(v) PROVE PagesInv'
  <2> DEFINE r == [visit[v] EXCEPT !.at = "researching"]
  <2>1. UNCHANGED docs /\ visit' = [visit EXCEPT ![v] = r] /\ visit[v].at = "starting"
    BY <1>s DEF Do!SendResearch
  <2>2. /\ DOMAIN r = VisitFields /\ r.at = "researching" /\ r.who = visit[v].who
        /\ r.company = visit[v].company /\ r.doc = visit[v].doc /\ r.shown = visit[v].shown
    BY <1>0 DEF VisitFields
  <2> HIDE DEF r
  <2>3. Opens(r, docs)
    BY <1>0, <2>1, <2>2 DEF Opens
  <2> QED BY <2>1, <2>2, <2>3, VisitMoves
<1>3. ASSUME NEW v \in Visits, Do!SaveDocument(v) PROVE PagesInv'
  <2> DEFINE u == visit[v].who
             c == visit[v].company
  <2>1. u \in Members /\ c \in Companies
    BY <1>0 DEF Opens
  <2>2. PICK n \in Do!FreeSuffixes(u, c) :
            docs' = Append(docs, [owner |-> u, company |-> c, suffix |-> n, fresh |-> TRUE, contacts |-> 0])
    BY <1>3 DEF Do!SaveDocument
  <2>3. n \in Nat /\ \A d \in DOMAIN docs : docs[d].owner = u /\ docs[d].company = c => docs[d].suffix # n
    BY <2>2, PagesConstants DEF Do!FreeSuffixes
  <2> DEFINE row0 == [owner |-> u, company |-> c, suffix |-> n, fresh |-> TRUE, contacts |-> 0]
  <2>4. row0 \in DocumentRow
    BY <2>1, <2>3 DEF DocumentRow
  <2>5. row0.owner = u /\ row0.company = c /\ row0.suffix = n
    OBVIOUS
  <2>6. visit' = [visit EXCEPT ![v] = Do!NoVisit] /\ docs' = Append(docs, row0)
    BY <1>3, <2>2 DEF Do!SaveDocument
  <2> HIDE DEF u, c, row0
  <2>7. /\ docs' \in Seq(DocumentRow) /\ DOMAIN docs' = DOMAIN docs \cup {Len(docs) + 1}
        /\ \A d \in DOMAIN docs : docs'[d] = docs[d]
        /\ docs'[Len(docs) + 1] = row0
    BY <1>0, <2>4, <2>6
  <2>8. LinksApart'
    BY <1>0, <2>3, <2>5, <2>7 DEF LinksApart
  <2> QED BY <2>6, <2>7, <2>8, VisitEnds, OneVisit
<1>4. ASSUME NEW v \in Visits, Do!ResearchFails(v) \/ Do!ContactsFail(v) \/ Do!CutOff(v) PROVE PagesInv'
    BY <1>1, <1>4 DEF Do!ResearchFails, Do!ContactsFail, Do!CutOff
<1>5. ASSUME NEW v \in Visits, Do!PayContacts(v) PROVE PagesInv'
  <2>1. UNCHANGED docs /\ visit[v].at = "enrich"
    BY <1>5 DEF Do!PayContacts
  <2>2. CASE visit' = [visit EXCEPT ![v] = [visit[v] EXCEPT !.at = "enriching", !.paid = 1]]
    <3> DEFINE r == [visit[v] EXCEPT !.at = "enriching", !.paid = 1]
    <3>1. /\ DOMAIN r = VisitFields /\ r.at = "enriching" /\ r.shown = visit[v].shown /\ r.doc = visit[v].doc
          /\ r.who = visit[v].who /\ r.company = visit[v].company
      BY <1>0 DEF VisitFields
    <3>2. Opens(r, docs)
      BY <1>0, <2>1, <3>1 DEF Opens
    <3>3. visit' = [visit EXCEPT ![v] = r]
      BY <2>2
    <3> HIDE DEF r
    <3> QED BY <2>1, <3>1, <3>2, <3>3, VisitMoves
  <2>3. CASE visit' = [visit EXCEPT ![v] = Do!NoVisit]
    BY <1>1, <2>1, <2>3
  <2> QED BY <1>5, <2>2, <2>3 DEF Do!PayContacts
<1>6. ASSUME NEW d \in DOMAIN docs, NEW f, NEW x,
             \/ f = "fresh" /\ x \in BOOLEAN
             \/ f = "contacts" /\ x \in Nat,
             docs' = [docs EXCEPT ![d] = [docs[d] EXCEPT ![f] = x]]
      PROVE  /\ docs' \in Seq(DocumentRow) /\ LinksApart' /\ DOMAIN docs \subseteq DOMAIN docs'
             /\ \A e \in DOMAIN docs : docs'[e].company = docs[e].company /\ docs'[e].suffix = docs[e].suffix
  <2>1. docs[d] \in DocumentRow
    BY <1>0
  <2> DEFINE s == [docs[d] EXCEPT ![f] = x]
  <2>2. s \in DocumentRow /\ s.owner = docs[d].owner /\ s.company = docs[d].company /\ s.suffix = docs[d].suffix
    <3>1. CASE f = "fresh" /\ x \in BOOLEAN
      BY <2>1, <3>1 DEF DocumentRow
    <3>2. CASE f = "contacts" /\ x \in Nat
      BY <2>1, <3>2 DEF DocumentRow
    <3> QED BY <1>6, <3>1, <3>2
  <2>3. docs' = [docs EXCEPT ![d] = s]
    BY <1>6
  <2> HIDE DEF s
  <2>4. /\ docs' \in Seq(DocumentRow) /\ DOMAIN docs' = DOMAIN docs /\ docs'[d] = s
        /\ \A e \in DOMAIN docs \ {d} : docs'[e] = docs[e]
    BY <1>0, <2>2, <2>3
  <2>5. \A e \in DOMAIN docs : /\ docs'[e].owner = docs[e].owner /\ docs'[e].company = docs[e].company
                               /\ docs'[e].suffix = docs[e].suffix
    BY <2>2, <2>4
  <2> QED BY <1>0, <2>4, <2>5 DEF LinksApart
<1>7. ASSUME NEW v \in Visits, Do!ContactsArrive(v) PROVE PagesInv'
  <2>1. visit' = [visit EXCEPT ![v] = Do!NoVisit] /\ visit[v].doc \in DOMAIN docs
    BY <1>0, <1>7 DEF Do!ContactsArrive, Opens
  <2>2. CASE UNCHANGED docs
    BY <1>1, <2>1, <2>2
  <2>3. CASE docs' = [docs EXCEPT ![visit[v].doc].contacts = @ + 1]
    <3> DEFINE d == visit[v].doc
    <3>3. docs[d] \in DocumentRow
      BY <1>0, <2>1
    <3>1. docs[d].contacts + 1 \in Nat
      BY <3>3 DEF DocumentRow
    <3>2. docs' = [docs EXCEPT ![d] = [docs[d] EXCEPT !["contacts"] = docs[d].contacts + 1]]
      BY <2>3
    <3> HIDE DEF d
    <3> QED BY <1>6, <2>1, <3>1, <3>2, VisitEnds, OneVisit DEF d
  <2> QED BY <1>7, <2>2, <2>3 DEF Do!ContactsArrive
<1>8. ASSUME NEW d \in DOMAIN docs, Do!DocumentAges(d) PROVE PagesInv'
  <2>1. docs' = [docs EXCEPT ![d] = [docs[d] EXCEPT !["fresh"] = FALSE]] /\ visit' = visit
    BY <1>8 DEF Do!DocumentAges
  <2>2. /\ docs' \in Seq(DocumentRow) /\ LinksApart' /\ DOMAIN docs \subseteq DOMAIN docs'
        /\ \A e \in DOMAIN docs : docs'[e].company = docs[e].company /\ docs'[e].suffix = docs[e].suffix
    BY <1>6, <2>1
  <2>3. \A v \in Visits : Opens(visit'[v], docs')
    BY <1>0, <2>1, <2>2 DEF Opens
  <2> QED BY <1>0, <2>1, <2>2, <2>3 DEF PagesInv
<1>9. ASSUME NEW v \in Visits, NEW u \in Members, NEW d \in DOMAIN docs, NEW token,
             Do!AskContacts(v, u, d) \/ Do!OpenLink(v, u, d) \/ Do!ViewByNumber(v, u, d, token)
      PROVE  PagesInv'
  <2>1. UNCHANGED docs
    BY <1>9 DEF Do!AskContacts, Do!OpenLink, Do!ViewByNumber
  <2>2. ASSUME NEW p \in {"link", "enrich"}, visit' = [visit EXCEPT ![v] = [Do!NoVisit EXCEPT !.at = p, !.who = u, !.doc = d]]
        PROVE  PagesInv'
    <3> DEFINE r == [Do!NoVisit EXCEPT !.at = p, !.who = u, !.doc = d]
    <3>1. /\ DOMAIN r = VisitFields /\ r.at = p /\ r.shown = 0 /\ r.doc = d
          /\ r.who = u /\ r.company \in Companies
      BY NobodysVisit DEF VisitFields
    <3>2. Opens(r, docs)
      BY <3>1 DEF Opens
    <3>3. visit' = [visit EXCEPT ![v] = r]
      BY <2>2
    <3> HIDE DEF r
    <3> QED BY <2>1, <3>1, <3>2, <3>3, VisitMoves
  <2>3. CASE visit' = [visit EXCEPT ![v] = Do!NoVisit]
    BY <1>1, <2>1, <2>3
  <2> QED BY <1>9, <2>2, <2>3 DEF Do!AskContacts, Do!OpenLink, Do!ViewByNumber
<1>10. ASSUME NEW v \in Visits, Do!FollowLink(v) PROVE PagesInv'
  <2>1. visit[v].doc \in DOMAIN docs /\ UNCHANGED docs
    BY <1>0, <1>10 DEF Do!FollowLink, Opens
  <2>2. PICK e \in Do!Linked(visit[v].doc) :
            visit' = [visit EXCEPT ![v] = [Do!NoVisit EXCEPT !.doc = visit[v].doc, !.shown = e]]
    BY <1>10 DEF Do!FollowLink
  <2>3. /\ e \in DOMAIN docs /\ docs[e].company = docs[visit[v].doc].company
        /\ docs[e].suffix = docs[visit[v].doc].suffix
    BY <2>2 DEF Do!Linked
  <2> DEFINE r == [Do!NoVisit EXCEPT !.doc = visit[v].doc, !.shown = e]
  <2>4. /\ DOMAIN r = VisitFields /\ r.at = "idle" /\ r.shown = e /\ r.doc = visit[v].doc
        /\ r.who \in Members /\ r.company \in Companies
    BY NobodysVisit DEF VisitFields
  <2>5. visit' = [visit EXCEPT ![v] = r]
    BY <2>2
  <2> HIDE DEF r
  <2>6. Opens(r, docs)
    BY <2>1, <2>3, <2>4 DEF Opens
  <2> QED BY <2>1, <2>4, <2>5, <2>6, VisitMoves
<1>11. CASE UNCHANGED pagesVars
  <2>1. docs' = docs /\ visit' = visit
    BY <1>11 DEF pagesVars
  <2> QED BY <2>1 DEF PagesInv, LinksApart, Opens
<1>12. CASE Do!PagesNext
    BY <1>2, <1>s, <1>3, <1>4, <1>5, <1>7, <1>8, <1>9, <1>10, <1>12 DEF Do!PagesNext
<1> QED BY <1>11, <1>12

\* Two documents of one owner with one name and one suffix are one.
LEMMA LinksOpenTheirs == PagesInv => Do!LinkOpensItsDocument
    BY DEF PagesInv, LinksApart, Opens, Do!LinkOpensItsDocument

-----------------------------------------------------------------------------
(* The money of DocumentPages.                                             *)

\* What a request has paid by its place; what the documents cost; what the requests under way have paid.
Price(p) == IF p \in {"starting", "researching"} THEN 2 ELSE IF p = "enriching" THEN 1 ELSE 0
Worth == [d \in DOMAIN docs |-> 2 + docs[d].contacts]
Payments == [v \in Visits |-> visit[v].paid]
Money ==
    SumFunctionOnSet(halves, Members) + SumFunctionOnSet(Worth, DOMAIN docs) + empty + cutOff.halves
Explained == Cardinality(Members) * Halves = Money + SumFunctionOnSet(Payments, Visits)

MoneyInv ==
    /\ halves \in [Members -> Int] /\ empty \in Int /\ cutOff.halves \in Int
    /\ \A v \in Visits : visit[v].paid = Price(visit[v].at)
    /\ Explained

\* DocumentPages's sums are those the lemmas are about.
LEMMA SameSum == \A f, S : Do!SumFunctionOnSet(f, S) = SumFunctionOnSet(f, S)
<1> SUFFICES ASSUME NEW f, NEW S PROVE Do!SumFunctionOnSet(f, S) = SumFunctionOnSet(f, S)
    OBVIOUS
<1> DEFINE sum == CHOOSE t : SumsFrom(f, S, t)
<1>1. Do!SumFunctionOnSet(f, S) = sum[S]
    BY DEF Do!SumFunctionOnSet, Do!FoldFunctionOnSet, Do!MapThenFoldSet, SumsFrom, Chosen
<1>2. SumFunctionOnSet(f, S) = sum[S]
    BY DEF SumFunctionOnSet, FoldFunctionOnSet, MapThenFoldSet, SumsFrom, Chosen
<1> QED BY <1>1, <1>2

\* Nobody has paid anything yet.
LEMMA MoneyInvInit == Do!PagesInit => MoneyInv
<1> SUFFICES ASSUME Do!PagesInit PROVE MoneyInv
    OBVIOUS
<1>1. /\ halves \in [Members -> Int] /\ empty \in Int /\ cutOff.halves \in Int
      /\ empty = 0 /\ cutOff.halves = 0 /\ \A u \in Members : halves[u] = Halves
    BY MoneyConstants DEF Do!PagesInit
<1>2. \A v \in Visits : visit[v].at = "idle" /\ visit[v].paid = 0
    BY DEF Do!PagesInit, Do!NoVisit
<1>3. SumFunctionOnSet(halves, Members) = Cardinality(Members) * Halves
    BY <1>1, MoneyConstants, SumOfEqual
<1>4. SumFunctionOnSet(Worth, DOMAIN docs) = 0
  <2>1. DOMAIN docs = {}
    BY DEF Do!PagesInit
  <2> QED BY <2>1, SumOfNone
<1>5. SumFunctionOnSet(Payments, Visits) = 0
  <2>1. \A v \in Visits : Payments[v] = 0
    BY <1>2 DEF Payments
  <2>2. SumFunctionOnSet(Payments, Visits) = Cardinality(Visits) * 0
    BY <2>1, MoneyConstants, SumOfEqual
  <2>3. Cardinality(Visits) * 0 = 0
    BY MoneyConstants, FS_CardinalityType
  <2> QED BY <2>2, <2>3
<1>6. Cardinality(Members) * Halves \in Int
    BY MoneyConstants, FS_CardinalityType
<1>7. Explained
    BY <1>1, <1>3, <1>4, <1>5, <1>6 DEF Explained, Money
<1>8. \A v \in Visits : visit[v].paid = Price(visit[v].at)
    BY <1>2 DEF Price
<1> QED BY <1>1, <1>7, <1>8 DEF MoneyInv

\* A user who pays, or gets back, n halves changes the sum of the balances by n.
LEMMA HalvesMove ==
    ASSUME halves \in [Members -> Int], NEW u \in Members, NEW n \in Int,
           halves' = [halves EXCEPT ![u] = halves[u] + n]
    PROVE  /\ halves' \in [Members -> Int]
           /\ SumFunctionOnSet(halves', Members) = SumFunctionOnSet(halves, Members) + n
           /\ SumFunctionOnSet(halves, Members) \in Int
<1>1. halves' \in [Members -> Int] /\ halves'[u] = halves[u] + n /\ \A x \in Members \ {u} : halves'[x] = halves[x]
    OBVIOUS
<1>2. \A x \in Members : halves[x] \in Int /\ halves'[x] \in Int
    BY <1>1
<1>3. IsFiniteSet(Members)
    BY MoneyConstants
<1>4. SumFunctionOnSet(halves', Members) = SumFunctionOnSet(halves, Members) - halves[u] + halves'[u]
  <2>1. \A x \in Members \ {u} : halves'[x] = halves[x]
    BY <1>1
  <2> DEFINE f == halves
             g == halves'
             M == Members
  <2>2. \A x \in M \ {u} : g[x] = f[x]
    BY <2>1
  <2>3. \A x \in M : f[x] \in Int /\ g[x] \in Int
    BY <1>2
  <2>4. IsFiniteSet(M) /\ u \in M
    BY <1>3
  <2> HIDE DEF f, g, M
  <2>5. SumFunctionOnSet(g, M) = SumFunctionOnSet(f, M) - f[u] + g[u]
    BY ONLY <2>2, <2>3, <2>4, SumChanges
  <2> QED BY <2>5 DEF f, g, M
<1>5. SumFunctionOnSet(halves, Members) \in Int
    BY <1>2, <1>3, SumIsInt
<1> QED BY <1>1, <1>2, <1>4, <1>5

\* A request that goes on changes what is under way by what it has paid more.
LEMMA PaymentsMove ==
    ASSUME \A w \in Visits : visit[w].paid \in Int /\ visit'[w].paid \in Int,
           NEW v \in Visits, \A w \in Visits \ {v} : visit'[w] = visit[w]
    PROVE  /\ SumFunctionOnSet(Payments', Visits) = SumFunctionOnSet(Payments, Visits) - visit[v].paid + visit'[v].paid
           /\ SumFunctionOnSet(Payments, Visits) \in Int
<1>1. \A w \in Visits : Payments[w] = visit[w].paid /\ Payments'[w] = visit'[w].paid
    BY DEF Payments
<1>2. \A w \in Visits : Payments[w] \in Int /\ Payments'[w] \in Int
    BY <1>1
<1>3. \A w \in Visits \ {v} : Payments'[w] = Payments[w]
    BY <1>1
<1>4. IsFiniteSet(Visits)
    BY MoneyConstants
<1>5. SumFunctionOnSet(Payments, Visits) \in Int
    BY <1>2, <1>4, SumIsInt
<1> HIDE DEF Payments
<1>6. SumFunctionOnSet(Payments', Visits) = SumFunctionOnSet(Payments, Visits) - Payments[v] + Payments'[v]
    BY <1>2, <1>3, <1>4, SumChanges
<1> QED BY <1>1, <1>5, <1>6

\* What the documents cost is an integer.
LEMMA WorthIsInt ==
    ASSUME docs \in Seq(DocumentRow)
    PROVE  /\ IsFiniteSet(DOMAIN docs) /\ \A d \in DOMAIN docs : Worth[d] = 2 + docs[d].contacts /\ Worth[d] \in Int
           /\ SumFunctionOnSet(Worth, DOMAIN docs) \in Int
<1>1. DOMAIN docs = 1 .. Len(docs) /\ Len(docs) \in Nat
    OBVIOUS
<1>2. IsFiniteSet(DOMAIN docs)
    BY <1>1, FS_Interval
<1>3. ASSUME NEW d \in DOMAIN docs PROVE Worth[d] = 2 + docs[d].contacts /\ Worth[d] \in Int
  <2>1. docs[d] \in DocumentRow
    OBVIOUS
  <2>2. docs[d].contacts \in Nat
    BY <2>1 DEF DocumentRow
  <2> QED BY <2>2 DEF Worth
<1>4. \A d \in DOMAIN docs : Worth[d] \in Int
    BY <1>3
<1> QED BY <1>2, <1>3, <1>4, SumIsInt

\* A new document costs a credit, two halves.
LEMMA WorthGrows ==
    ASSUME docs \in Seq(DocumentRow), NEW row0 \in DocumentRow, row0.contacts = 0, docs' = Append(docs, row0)
    PROVE  SumFunctionOnSet(Worth', DOMAIN docs') = SumFunctionOnSet(Worth, DOMAIN docs) + 2
<1> DEFINE n == Len(docs) + 1
           D == DOMAIN docs
           E == DOMAIN docs'
<1>1. docs' \in Seq(DocumentRow) /\ E = D \cup {n} /\ n \notin D /\ docs'[n] = row0 /\ \A d \in D : docs'[d] = docs[d]
    OBVIOUS
<1>2. /\ IsFiniteSet(D) /\ SumFunctionOnSet(Worth, D) \in Int
      /\ \A d \in D : Worth[d] = 2 + docs[d].contacts /\ Worth[d] \in Int
    BY WorthIsInt
<1>3. IsFiniteSet(E)
    BY <1>1, <1>2, FS_AddElement
<1>4. ASSUME NEW d \in E PROVE Worth'[d] = 2 + docs'[d].contacts /\ Worth'[d] \in Int
  <2>1. docs'[d] \in DocumentRow
    BY <1>1
  <2>2. docs'[d].contacts \in Nat
    BY <2>1 DEF DocumentRow
  <2> QED BY <2>2 DEF Worth
<1>5. Worth'[n] = 2 /\ n \in E /\ \A d \in D : Worth'[d] = Worth[d]
    BY <1>1, <1>2, <1>4
<1>6. E \ {n} = D
    BY <1>1
<1> HIDE DEF n, D, E
<1>7. SumFunctionOnSet(Worth', E) = Worth'[n] + SumFunctionOnSet(Worth', D)
    BY <1>3, <1>4, <1>5, <1>6, SumWithout
<1>8. SumFunctionOnSet(Worth', D) = SumFunctionOnSet(Worth, D)
    BY <1>2, <1>5, SumsOfAlike
<1>9. SumFunctionOnSet(Worth', E) = SumFunctionOnSet(Worth, D) + 2
    BY <1>2, <1>5, <1>7, <1>8
<1> QED BY <1>9 DEF D, E

\* Contacts found for a document make it worth half a credit more, and nothing else changes its worth.
LEMMA WorthChanges ==
    ASSUME docs \in Seq(DocumentRow), docs' \in Seq(DocumentRow), DOMAIN docs' = DOMAIN docs,
           NEW d \in DOMAIN docs, NEW n \in Int, docs'[d].contacts = docs[d].contacts + n,
           \A e \in DOMAIN docs \ {d} : docs'[e] = docs[e]
    PROVE  SumFunctionOnSet(Worth', DOMAIN docs') = SumFunctionOnSet(Worth, DOMAIN docs) + n
<1> DEFINE D == DOMAIN docs
<1>1. /\ IsFiniteSet(D) /\ SumFunctionOnSet(Worth, D) \in Int
      /\ \A e \in D : Worth[e] = 2 + docs[e].contacts /\ Worth[e] \in Int
    BY WorthIsInt
<1>2. ASSUME NEW e \in D PROVE Worth'[e] = 2 + docs'[e].contacts /\ Worth'[e] \in Int
  <2>1. docs'[e] \in DocumentRow
    OBVIOUS
  <2>2. docs'[e].contacts \in Nat
    BY <2>1 DEF DocumentRow
  <2> QED BY <2>2 DEF Worth
<1>3. \A e \in D \ {d} : Worth'[e] = Worth[e]
    BY <1>1, <1>2
<1>4. Worth'[d] = Worth[d] + n
  <2>1. docs[d] \in DocumentRow
    OBVIOUS
  <2>2. docs[d].contacts \in Nat
    BY <2>1 DEF DocumentRow
  <2>3. Worth'[d] = 2 + docs'[d].contacts /\ Worth[d] = 2 + docs[d].contacts
    BY <1>1, <1>2
  <2> QED BY <2>2, <2>3
<1>5. Worth[d] \in Int /\ d \in D
    BY <1>1
<1>6. \A e \in D : Worth[e] \in Int /\ Worth'[e] \in Int
    BY <1>1, <1>2
<1> HIDE DEF D
<1>7. SumFunctionOnSet(Worth', D) = SumFunctionOnSet(Worth, D) - Worth[d] + Worth'[d]
    BY <1>1, <1>3, <1>5, <1>6, SumChanges
<1>8. SumFunctionOnSet(Worth', D) = SumFunctionOnSet(Worth, D) + n
    BY <1>1, <1>4, <1>5, <1>7
<1> QED BY <1>8 DEF D

\* What a price is, and that a request that is over has paid nothing.
LEMMA PricesAre ==
    /\ \A p : Price(p) \in Int
    /\ Do!NoVisit.paid = 0 /\ Do!NoVisit.at = "idle"
    BY DEF Price, Do!NoVisit

\* All of it is integers.
LEMMA MoneyIsInt ==
    ASSUME docs \in Seq(DocumentRow), halves \in [Members -> Int], empty \in Int, cutOff.halves \in Int
    PROVE  /\ Money \in Int /\ SumFunctionOnSet(halves, Members) \in Int
           /\ SumFunctionOnSet(Worth, DOMAIN docs) \in Int
<1>1. SumFunctionOnSet(halves, Members) \in Int
    BY MoneyConstants, SumIsInt
<1>2. SumFunctionOnSet(Worth, DOMAIN docs) \in Int
    BY WorthIsInt
<1> QED BY <1>1, <1>2 DEF Money

\* A user who pays has n halves less, one who gets them back has n more.
LEMMA Paying ==
    ASSUME PagesInv, MoneyInv, NEW u \in Members, NEW n \in 1 .. 2, Do!Pays(u, n), UNCHANGED <<docs, empty, cutOff>>
    PROVE  halves' \in [Members -> Int] /\ Money' = Money - n
<1>1. halves \in [Members -> Int] /\ docs \in Seq(DocumentRow) /\ empty \in Int /\ cutOff.halves \in Int
    BY DEF MoneyInv, PagesInv
<1>2. halves' = [halves EXCEPT ![u] = halves[u] + (0 - n)] /\ 0 - n \in Int
  <2>1. n \in Int /\ halves[u] \in Int
    BY <1>1
  <2>2. halves' = [halves EXCEPT ![u] = halves[u] - n]
    BY DEF Do!Pays
  <2>3. halves[u] - n = halves[u] + (0 - n) /\ 0 - n \in Int
    BY <2>1
  <2> QED BY <2>2, <2>3
<1>3. /\ halves' \in [Members -> Int]
      /\ SumFunctionOnSet(halves', Members) = SumFunctionOnSet(halves, Members) + (0 - n)
    BY <1>1, <1>2, HalvesMove
<1>4. /\ Worth' = Worth /\ DOMAIN docs' = DOMAIN docs
      /\ empty' = empty /\ cutOff'.halves = cutOff.halves
    BY DEF Worth
<1>5. /\ SumFunctionOnSet(halves, Members) \in Int /\ SumFunctionOnSet(Worth, DOMAIN docs) \in Int
    BY <1>1, MoneyIsInt
<1>6. Money' = SumFunctionOnSet(halves', Members) + SumFunctionOnSet(Worth, DOMAIN docs) + empty + cutOff.halves
    BY <1>4 DEF Money
<1>7. n \in Int
    OBVIOUS
<1> DEFINE a == SumFunctionOnSet(halves, Members)
           b == SumFunctionOnSet(Worth, DOMAIN docs)
           c == cutOff.halves
<1>8. /\ Money' = (a + (0 - n)) + b + empty + c /\ Money = a + b + empty + c
      /\ a \in Int /\ b \in Int /\ c \in Int
    BY <1>1, <1>3, <1>5, <1>6 DEF Money
<1> HIDE DEF a, b, c
<1>9. Money' = Money - n
    BY <1>1, <1>7, <1>8
<1> QED BY <1>3, <1>9

\* A user who gets n halves back.
LEMMA PayingBack ==
    ASSUME PagesInv, MoneyInv, NEW u \in Members, NEW n \in 1 .. 2, Do!IsGivenBack(u, n), UNCHANGED <<docs, empty, cutOff>>
    PROVE  halves' \in [Members -> Int] /\ Money' = Money + n
<1>1. halves \in [Members -> Int] /\ docs \in Seq(DocumentRow) /\ empty \in Int /\ cutOff.halves \in Int
    BY DEF MoneyInv, PagesInv
<1>2. halves' = [halves EXCEPT ![u] = halves[u] + n] /\ n \in Int
    BY <1>1 DEF Do!IsGivenBack
<1>3. /\ halves' \in [Members -> Int]
      /\ SumFunctionOnSet(halves', Members) = SumFunctionOnSet(halves, Members) + n
    BY <1>1, <1>2, HalvesMove
<1>4. /\ Worth' = Worth /\ DOMAIN docs' = DOMAIN docs
      /\ empty' = empty /\ cutOff'.halves = cutOff.halves
    BY DEF Worth
<1>5. /\ SumFunctionOnSet(halves, Members) \in Int /\ SumFunctionOnSet(Worth, DOMAIN docs) \in Int
    BY <1>1, MoneyIsInt
<1>6. Money' = SumFunctionOnSet(halves', Members) + SumFunctionOnSet(Worth, DOMAIN docs) + empty + cutOff.halves
    BY <1>4 DEF Money
<1>7. n \in Int
    OBVIOUS
<1> DEFINE a == SumFunctionOnSet(halves, Members)
           b == SumFunctionOnSet(Worth, DOMAIN docs)
           c == cutOff.halves
<1>8. /\ Money' = (a + n) + b + empty + c /\ Money = a + b + empty + c
      /\ a \in Int /\ b \in Int /\ c \in Int
    BY <1>1, <1>3, <1>5, <1>6 DEF Money
<1> HIDE DEF a, b, c
<1>9. Money' = Money + n
    BY <1>1, <1>7, <1>8
<1> QED BY <1>3, <1>9

\* A step of one request in which what it has paid more left the money it was paid from.
LEMMA MoneyMoves ==
    ASSUME PagesInv, MoneyInv, NEW v \in Visits, \A x \in Visits \ {v} : visit'[x] = visit[x],
           visit'[v].paid = Price(visit'[v].at),
           halves' \in [Members -> Int], empty' \in Int, cutOff'.halves \in Int,
           Money' = Money + visit[v].paid - visit'[v].paid
    PROVE  MoneyInv'
<1>1. /\ halves \in [Members -> Int] /\ empty \in Int /\ cutOff.halves \in Int /\ Explained
      /\ \A x \in Visits : visit[x].paid = Price(visit[x].at)
    BY DEF MoneyInv
<1>2. \A x \in Visits : visit'[x].paid = Price(visit'[x].at)
    BY <1>1
<1>3. \A x \in Visits : visit[x].paid \in Int /\ visit'[x].paid \in Int
    BY <1>1, <1>2, PricesAre
<1>4. /\ SumFunctionOnSet(Payments', Visits) = SumFunctionOnSet(Payments, Visits) - visit[v].paid + visit'[v].paid
      /\ SumFunctionOnSet(Payments, Visits) \in Int
    BY <1>3, PaymentsMove
<1>5. Money \in Int
    BY <1>1, MoneyIsInt DEF PagesInv
<1>6. Explained'
  <2> DEFINE m == Money
             c == SumFunctionOnSet(Payments, Visits)
             p == visit[v].paid
             q == visit'[v].paid
             all == Cardinality(Members) * Halves
  <2>1. all = m + c
    BY <1>1 DEF Explained
  <2>2. Explained' <=> all = (m + p - q) + (c - p + q)
    BY <1>4 DEF Explained
  <2>3. m \in Int /\ c \in Int /\ p \in Int /\ q \in Int
    BY <1>3, <1>4, <1>5
  <2> HIDE DEF m, c, p, q, all
  <2> QED BY <2>1, <2>2, <2>3
<1> QED BY <1>2, <1>6 DEF MoneyInv

\* Every step of a request keeps every half credit explained.
LEMMA MoneyInvNext == PagesInv /\ MoneyInv /\ [Do!PagesNext]_pagesVars => MoneyInv'
<1> SUFFICES ASSUME PagesInv, MoneyInv, [Do!PagesNext]_pagesVars PROVE MoneyInv'
    OBVIOUS
<1> USE DEF Do!VisitAt, Do!VisitTo, Do!Answered, Do!Shows
<1>0. /\ docs \in Seq(DocumentRow) /\ DOMAIN visit = Visits
      /\ halves \in [Members -> Int] /\ empty \in Int /\ cutOff.halves \in Int
      /\ \A v \in Visits : DOMAIN visit[v] = VisitFields /\ Opens(visit[v], docs) /\ visit[v].paid = Price(visit[v].at)
    BY DEF PagesInv, MoneyInv
<1>p. /\ Price("idle") = 0 /\ Price("link") = 0 /\ Price("enrich") = 0
      /\ Price("starting") = 2 /\ Price("researching") = 2 /\ Price("enriching") = 1
    BY DEF Price
<1>i. Money \in Int /\ SumFunctionOnSet(halves, Members) \in Int /\ SumFunctionOnSet(Worth, DOMAIN docs) \in Int
    BY <1>0, MoneyIsInt
\* Where a request that moves is, and that the others stay.
<1>v. ASSUME NEW v \in Visits, NEW r, visit' = [visit EXCEPT ![v] = r]
      PROVE  visit'[v] = r /\ \A x \in Visits \ {v} : visit'[x] = visit[x]
    BY <1>0, <1>v
<1>e. ASSUME NEW v \in Visits, visit' = [visit EXCEPT ![v] = Do!NoVisit]
      PROVE  /\ visit'[v].paid = 0 /\ visit'[v].at = "idle" /\ visit'[v].paid = Price(visit'[v].at)
             /\ \A x \in Visits \ {v} : visit'[x] = visit[x]
    BY <1>e, <1>v, <1>p, PricesAre
\* Without money a request goes from a place without a price to another one.
<1>m. ASSUME NEW v \in Visits, \A x \in Visits \ {v} : visit'[x] = visit[x],
             visit'[v].paid = 0, visit'[v].at \in {"idle", "link", "enrich"}, visit[v].at \in {"idle", "link", "enrich"},
             UNCHANGED <<docs, halves, empty, cutOff>>
      PROVE  MoneyInv'
  <2>1. visit[v].paid = 0 /\ visit'[v].paid = Price(visit'[v].at)
    BY <1>0, <1>m, <1>p
  <2>2. Worth' = Worth
    BY <1>m DEF Worth
  <2>3. Money' = Money
    BY <1>m, <2>2 DEF Money
  <2>4. halves' \in [Members -> Int] /\ empty' \in Int /\ cutOff'.halves \in Int
    BY <1>0, <1>m
  <2>5. Money' = Money + visit[v].paid - visit'[v].paid
    BY <1>i, <1>m, <2>1, <2>3
  <2> QED BY <1>m, <2>1, <2>4, <2>5, MoneyMoves
<1>2. ASSUME NEW v \in Visits, NEW u \in Members, NEW c \in Companies,
             Do!StartResearch(v, u, c) \/ Do!CreateResearch(v, u, c)
      PROVE  MoneyInv'
  <2>1. UNCHANGED <<docs, empty, cutOff>> /\ visit[v].at = "idle"
    BY <1>2 DEF Do!StartResearch, Do!CreateResearch
  <2>2. ASSUME NEW p \in {"starting", "researching"}, Do!Pays(u, 2),
               visit' = [visit EXCEPT ![v] = [Do!NoVisit EXCEPT !.at = p, !.who = u, !.company = c, !.paid = 2]]
        PROVE  MoneyInv'
    <3> DEFINE r == [Do!NoVisit EXCEPT !.at = p, !.who = u, !.company = c, !.paid = 2]
    <3>1. r.paid = 2 /\ r.at = p /\ visit' = [visit EXCEPT ![v] = r]
      BY <2>2 DEF Do!NoVisit
    <3> HIDE DEF r
    <3>2. /\ visit'[v].paid = 2 /\ visit'[v].paid = Price(visit'[v].at) /\ \A x \in Visits \ {v} : visit'[x] = visit[x]
      BY <1>p, <1>v, <3>1
    <3>3. halves' \in [Members -> Int] /\ Money' = Money - 2
      BY <2>1, <2>2, Paying
    <3>4. visit[v].paid = 0 /\ empty' \in Int /\ cutOff'.halves \in Int
      BY <1>0, <1>p, <2>1
    <3>5. Money' = Money + visit[v].paid - visit'[v].paid
      BY <1>i, <3>2, <3>3, <3>4
    <3> QED BY <3>2, <3>3, <3>4, <3>5, MoneyMoves
  <2>3. CASE visit' = [visit EXCEPT ![v] = Do!NoVisit] /\ UNCHANGED halves
    BY <1>e, <1>m, <2>1, <2>3
  <2> QED BY <1>2, <2>2, <2>3 DEF Do!StartResearch, Do!CreateResearch
<1>s. ASSUME NEW v \in Visits, Do!SendResearch(v) PROVE MoneyInv'
  <2> DEFINE r == [visit[v] EXCEPT !.at = "researching"]
  <2>1. /\ UNCHANGED <<docs, halves, empty, cutOff>> /\ visit' = [visit EXCEPT ![v] = r]
        /\ visit[v].at = "starting" /\ visit[v].paid = 2
    BY <1>0, <1>p, <1>s DEF Do!SendResearch
  <2>2. r.at = "researching" /\ r.paid = 2
    BY <1>0, <2>1 DEF VisitFields
  <2> HIDE DEF r
  <2>3. /\ visit'[v].paid = 2 /\ visit'[v].paid = Price(visit'[v].at) /\ \A x \in Visits \ {v} : visit'[x] = visit[x]
    BY <1>p, <1>v, <2>1, <2>2
  <2>4. halves' \in [Members -> Int] /\ empty' \in Int /\ cutOff'.halves \in Int
    BY <1>0, <2>1
  <2>5. Worth' = Worth
    BY <2>1 DEF Worth
  <2>6. Money' = Money
    BY <2>1, <2>5 DEF Money
  <2>7. Money' = Money + visit[v].paid - visit'[v].paid
    BY <1>i, <2>1, <2>3, <2>6
  <2> QED BY <2>3, <2>4, <2>7, MoneyMoves
<1>3. ASSUME NEW v \in Visits, Do!SaveDocument(v) PROVE MoneyInv'
  <2>a. PICK n \in Do!FreeSuffixes(visit[v].who, visit[v].company) :
            docs' = Append(docs, [owner |-> visit[v].who, company |-> visit[v].company, suffix |-> n,
                                  fresh |-> TRUE, contacts |-> 0])
    BY <1>3 DEF Do!SaveDocument
  <2>1. n \in Nat
    BY PagesConstants DEF Do!FreeSuffixes
  <2> DEFINE row0 == [owner |-> visit[v].who, company |-> visit[v].company, suffix |-> n, fresh |-> TRUE, contacts |-> 0]
  <2>2. row0 \in DocumentRow /\ row0.contacts = 0 /\ docs' = Append(docs, row0)
    BY <1>0, <2>1, <2>a DEF DocumentRow, Opens
  <2> HIDE DEF row0
  <2>3. SumFunctionOnSet(Worth', DOMAIN docs') = SumFunctionOnSet(Worth, DOMAIN docs) + 2
    BY <1>0, <2>2, WorthGrows
  <2>4. /\ UNCHANGED <<halves, empty, cutOff>> /\ visit' = [visit EXCEPT ![v] = Do!NoVisit]
        /\ visit[v].paid = 2
    BY <1>0, <1>3, <1>p DEF Do!SaveDocument
  <2>5. halves' \in [Members -> Int] /\ empty' \in Int /\ cutOff'.halves \in Int
    BY <1>0, <2>4
  <2>6. Money' = Money + 2
    BY <1>0, <1>i, <2>3, <2>4 DEF Money
  <2>7. /\ visit'[v].paid = 0 /\ visit'[v].paid = Price(visit'[v].at) /\ \A x \in Visits \ {v} : visit'[x] = visit[x]
    BY <1>e, <2>4
  <2>8. Money' = Money + visit[v].paid - visit'[v].paid
    BY <1>i, <2>4, <2>6, <2>7
  <2> QED BY <2>5, <2>7, <2>8, MoneyMoves
<1>4. ASSUME NEW v \in Visits, Do!ResearchFails(v) \/ Do!ContactsFail(v) PROVE MoneyInv'
  <2>1. UNCHANGED <<docs, empty, cutOff>> /\ visit' = [visit EXCEPT ![v] = Do!NoVisit] /\ visit[v].who \in Members
    BY <1>0, <1>4 DEF Do!ResearchFails, Do!ContactsFail, Opens
  <2>2. PICK n \in 1 .. 2 : n = visit[v].paid /\ Do!IsGivenBack(visit[v].who, n)
    BY <1>0, <1>4, <1>p DEF Do!ResearchFails, Do!ContactsFail
  <2>3. halves' \in [Members -> Int] /\ Money' = Money + n
    BY <2>1, <2>2, PayingBack
  <2>4. /\ visit'[v].paid = 0 /\ visit'[v].paid = Price(visit'[v].at) /\ \A x \in Visits \ {v} : visit'[x] = visit[x]
    BY <1>e, <2>1
  <2>5. Money' = Money + visit[v].paid - visit'[v].paid
    BY <1>i, <2>2, <2>3, <2>4
  <2>6. empty' \in Int /\ cutOff'.halves \in Int
    BY <1>0, <2>1
  <2> QED BY <2>3, <2>4, <2>5, <2>6, MoneyMoves
<1>5. ASSUME NEW v \in Visits, Do!PayContacts(v) PROVE MoneyInv'
  <2>1. UNCHANGED <<docs, empty, cutOff>> /\ visit[v].at = "enrich"
    BY <1>5 DEF Do!PayContacts
  <2>a. visit[v].who \in Members
    BY <1>0 DEF Opens
  <2>2. CASE /\ Do!Pays(visit[v].who, 1)
             /\ visit' = [visit EXCEPT ![v] = [visit[v] EXCEPT !.at = "enriching", !.paid = 1]]
    <3> DEFINE r == [visit[v] EXCEPT !.at = "enriching", !.paid = 1]
    <3>1. r.paid = 1 /\ r.at = "enriching" /\ visit' = [visit EXCEPT ![v] = r]
      BY <1>0, <2>2 DEF VisitFields
    <3> HIDE DEF r
    <3>2. /\ visit'[v].paid = 1 /\ visit'[v].paid = Price(visit'[v].at) /\ \A x \in Visits \ {v} : visit'[x] = visit[x]
      BY <1>p, <1>v, <3>1
    <3>3. halves' \in [Members -> Int] /\ Money' = Money - 1
      BY <2>1, <2>2, <2>a, Paying
    <3>4. visit[v].paid = 0 /\ empty' \in Int /\ cutOff'.halves \in Int
      BY <1>0, <1>p, <2>1
    <3>5. Money' = Money + visit[v].paid - visit'[v].paid
      BY <1>i, <3>2, <3>3, <3>4
    <3> QED BY <3>2, <3>3, <3>4, <3>5, MoneyMoves
  <2>3. CASE visit' = [visit EXCEPT ![v] = Do!NoVisit] /\ UNCHANGED halves
    BY <1>e, <1>m, <2>1, <2>3
  <2> QED BY <1>5, <2>2, <2>3 DEF Do!PayContacts
<1>6. ASSUME NEW v \in Visits, Do!ContactsArrive(v) PROVE MoneyInv'
  <2>1. /\ UNCHANGED <<halves, cutOff>> /\ visit' = [visit EXCEPT ![v] = Do!NoVisit]
        /\ visit[v].paid = 1 /\ visit[v].doc \in DOMAIN docs
    BY <1>0, <1>6, <1>p DEF Do!ContactsArrive, Opens
  <2>2. /\ visit'[v].paid = 0 /\ visit'[v].paid = Price(visit'[v].at) /\ \A x \in Visits \ {v} : visit'[x] = visit[x]
    BY <1>e, <2>1
  <2>3. Money' = Money + 1 /\ empty' \in Int
    <3>1. CASE empty' = empty + 1 /\ UNCHANGED docs
      <4>1. Worth' = Worth
        BY <3>1 DEF Worth
      <4> QED BY <1>0, <1>i, <2>1, <3>1, <4>1 DEF Money
    <3>2. CASE docs' = [docs EXCEPT ![visit[v].doc].contacts = @ + 1] /\ UNCHANGED empty
      <4> DEFINE d == visit[v].doc
      <4>1. docs[d] \in DocumentRow /\ d \in DOMAIN docs
        BY <1>0, <2>1
      <4> DEFINE row0 == [docs[d] EXCEPT !.contacts = docs[d].contacts + 1]
      <4>2. docs' = [docs EXCEPT ![d] = row0]
        BY <3>2
      <4>3. row0 \in DocumentRow /\ row0.contacts = docs[d].contacts + 1
        BY <4>1 DEF DocumentRow
      <4> HIDE DEF d, row0
      <4>4. /\ docs' \in Seq(DocumentRow) /\ DOMAIN docs' = DOMAIN docs
            /\ docs'[d] = row0 /\ \A e \in DOMAIN docs \ {d} : docs'[e] = docs[e]
        BY <1>0, <4>1, <4>2, <4>3
      <4>5. docs'[d].contacts = docs[d].contacts + 1
        BY <4>3, <4>4
      <4>6. SumFunctionOnSet(Worth', DOMAIN docs') = SumFunctionOnSet(Worth, DOMAIN docs) + 1
        BY <1>0, <4>1, <4>4, <4>5, WorthChanges
      <4> QED BY <1>0, <1>i, <2>1, <3>2, <4>6 DEF Money
    <3> QED BY <1>6, <3>1, <3>2 DEF Do!ContactsArrive
  <2>4. Money' = Money + visit[v].paid - visit'[v].paid
    BY <1>i, <2>1, <2>2, <2>3
  <2>5. halves' \in [Members -> Int] /\ cutOff'.halves \in Int
    BY <1>0, <2>1
  <2> QED BY <2>2, <2>3, <2>4, <2>5, MoneyMoves
<1>7. ASSUME NEW v \in Visits, Do!CutOff(v) PROVE MoneyInv'
  <2>1. /\ UNCHANGED <<docs, halves, empty>> /\ visit' = [visit EXCEPT ![v] = Do!NoVisit]
        /\ cutOff'.halves = cutOff.halves + visit[v].paid
    BY <1>7 DEF Do!CutOff
  <2>2. visit[v].paid \in Int
    BY <1>0, PricesAre
  <2>3. halves' \in [Members -> Int] /\ empty' \in Int /\ cutOff'.halves \in Int
    BY <1>0, <2>1, <2>2
  <2>4. Worth' = Worth
    BY <2>1 DEF Worth
  <2>5. Money' = Money + visit[v].paid
    BY <1>0, <1>i, <2>1, <2>2, <2>4 DEF Money
  <2>6. /\ visit'[v].paid = 0 /\ visit'[v].paid = Price(visit'[v].at) /\ \A x \in Visits \ {v} : visit'[x] = visit[x]
    BY <1>e, <2>1
  <2>7. Money' = Money + visit[v].paid - visit'[v].paid
    BY <1>i, <2>2, <2>5, <2>6
  <2> QED BY <2>3, <2>6, <2>7, MoneyMoves
<1>8. ASSUME NEW d \in DOMAIN docs, Do!DocumentAges(d) PROVE MoneyInv'
  <2>1. docs' = [docs EXCEPT ![d] = [docs[d] EXCEPT !.fresh = FALSE]] /\ UNCHANGED <<visit, halves, empty, cutOff>>
    BY <1>8 DEF Do!DocumentAges
  <2>2. docs[d] \in DocumentRow
    BY <1>0
  <2> DEFINE row0 == [docs[d] EXCEPT !.fresh = FALSE]
  <2>3. row0 \in DocumentRow /\ row0.contacts = docs[d].contacts /\ docs[d].contacts \in Nat
    BY <2>2 DEF DocumentRow
  <2> HIDE DEF row0
  <2>4. /\ docs' \in Seq(DocumentRow) /\ DOMAIN docs' = DOMAIN docs
        /\ docs'[d] = row0 /\ \A e \in DOMAIN docs \ {d} : docs'[e] = docs[e]
    BY <1>0, <2>1, <2>3 DEF row0
  <2>5. docs'[d].contacts = docs[d].contacts + 0
    BY <2>3, <2>4
  <2>6. SumFunctionOnSet(Worth', DOMAIN docs') = SumFunctionOnSet(Worth, DOMAIN docs) + 0
    BY <1>0, <2>4, <2>5, WorthChanges
  <2>7. SumFunctionOnSet(Worth', DOMAIN docs') = SumFunctionOnSet(Worth, DOMAIN docs)
    BY <1>i, <2>6
  <2>8. Payments' = Payments
    BY <2>1 DEF Payments
  <2>9. Explained'
    BY <2>1, <2>7, <2>8 DEF MoneyInv, Explained, Money
  <2> QED BY <1>0, <2>1, <2>9 DEF MoneyInv
<1>9. ASSUME NEW v \in Visits, NEW u \in Members, NEW d \in DOMAIN docs, NEW token,
             Do!AskContacts(v, u, d) \/ Do!OpenLink(v, u, d) \/ Do!ViewByNumber(v, u, d, token)
      PROVE  MoneyInv'
  <2>1. UNCHANGED <<docs, halves, empty, cutOff>> /\ visit[v].at = "idle"
    BY <1>9 DEF Do!AskContacts, Do!OpenLink, Do!ViewByNumber
  <2>2. ASSUME NEW p \in {"link", "enrich"}, visit' = [visit EXCEPT ![v] = [Do!NoVisit EXCEPT !.at = p, !.who = u, !.doc = d]]
        PROVE  MoneyInv'
    <3> DEFINE r == [Do!NoVisit EXCEPT !.at = p, !.who = u, !.doc = d]
    <3>1. r.paid = 0 /\ r.at = p /\ visit' = [visit EXCEPT ![v] = r]
      BY <2>2 DEF Do!NoVisit
    <3> HIDE DEF r
    <3>2. visit'[v].paid = 0 /\ visit'[v].at = p /\ \A x \in Visits \ {v} : visit'[x] = visit[x]
      BY <1>v, <3>1
    <3> QED BY <1>m, <2>1, <3>2
  <2>3. CASE visit' = [visit EXCEPT ![v] = Do!NoVisit]
    BY <1>e, <1>m, <2>1, <2>3
  <2> QED BY <1>9, <2>2, <2>3 DEF Do!AskContacts, Do!OpenLink, Do!ViewByNumber
<1>10. ASSUME NEW v \in Visits, Do!FollowLink(v) PROVE MoneyInv'
  <2>1. PICK e : visit' = [visit EXCEPT ![v] = [Do!NoVisit EXCEPT !.doc = visit[v].doc, !.shown = e]]
    BY <1>10 DEF Do!FollowLink
  <2> DEFINE r == [Do!NoVisit EXCEPT !.doc = visit[v].doc, !.shown = e]
  <2>2. r.paid = 0 /\ r.at = "idle" /\ visit' = [visit EXCEPT ![v] = r]
    BY <2>1 DEF Do!NoVisit
  <2> HIDE DEF r
  <2>3. visit'[v].paid = 0 /\ visit'[v].at = "idle" /\ \A x \in Visits \ {v} : visit'[x] = visit[x]
    BY <1>v, <2>2
  <2>4. UNCHANGED <<docs, halves, empty, cutOff>> /\ visit[v].at = "link"
    BY <1>10 DEF Do!FollowLink
  <2> QED BY <1>m, <2>3, <2>4
<1>11. CASE UNCHANGED pagesVars
  <2>1. UNCHANGED <<docs, visit, halves, empty, cutOff>>
    BY <1>11 DEF pagesVars
  <2>2. Payments' = Payments /\ Worth' = Worth
    BY <2>1 DEF Payments, Worth
  <2>3. Explained'
    BY <2>1, <2>2 DEF MoneyInv, Explained, Money
  <2> QED BY <1>0, <2>1, <2>3 DEF MoneyInv
<1>12. CASE Do!PagesNext
    BY <1>2, <1>s, <1>3, <1>4, <1>5, <1>6, <1>7, <1>8, <1>9, <1>10, <1>12 DEF Do!PagesNext
<1> QED BY <1>11, <1>12

\* What the invariant says of the money is what the property says.
LEMMA MoneyIsAllExplained == PagesInv /\ MoneyInv => Do!MoneyIsExplained
<1> SUFFICES ASSUME PagesInv, MoneyInv PROVE Do!MoneyIsExplained
    OBVIOUS
<1>0. /\ docs \in Seq(DocumentRow) /\ halves \in [Members -> Int] /\ empty \in Int /\ cutOff.halves \in Int
      /\ Explained /\ \A v \in Visits : visit[v].paid \in Int
    BY PricesAre DEF PagesInv, MoneyInv
<1>1. Do!Cardinality(Members) = Cardinality(Members)
    BY Zenon DEF Do!Cardinality, Cardinality
<1>2. DOMAIN halves = Members /\ DOMAIN Worth = DOMAIN docs /\ DOMAIN Payments = Visits
    BY <1>0 DEF Worth, Payments
<1>3. /\ Do!SumFunction(halves) = SumFunctionOnSet(halves, Members)
      /\ Do!SumFunction(Worth) = SumFunctionOnSet(Worth, DOMAIN docs)
      /\ Do!SumFunction(Payments) = SumFunctionOnSet(Payments, Visits)
    BY <1>2, SameSum DEF Do!SumFunction, Do!SumFunctionOnSet, Do!FoldFunction
<1>4. Do!MoneyIsExplained <=>
        Do!Cardinality(Members) * Halves =
            Do!SumFunction(halves) + Do!SumFunction(Worth) + Do!SumFunction(Payments) + empty + cutOff.halves
    BY DEF Do!MoneyIsExplained, Worth, Payments
<1>5. /\ SumFunctionOnSet(halves, Members) \in Int /\ SumFunctionOnSet(Worth, DOMAIN docs) \in Int
    BY <1>0, MoneyIsInt
<1>6. SumFunctionOnSet(Payments, Visits) \in Int
  <2>1. \A v \in Visits : Payments[v] \in Int
    BY <1>0 DEF Payments
  <2> QED BY <2>1, MoneyConstants, SumIsInt
<1>7. Cardinality(Members) * Halves = (SumFunctionOnSet(halves, Members)
          + SumFunctionOnSet(Worth, DOMAIN docs) + empty + cutOff.halves) + SumFunctionOnSet(Payments, Visits)
    BY <1>0 DEF Explained, Money
<1> DEFINE a == SumFunctionOnSet(halves, Members)
           c == SumFunctionOnSet(Worth, DOMAIN docs)
           d == SumFunctionOnSet(Payments, Visits)
           h == cutOff.halves
           all == Cardinality(Members) * Halves
<1>8. all = (a + c + empty + h) + d /\ a \in Int /\ c \in Int /\ d \in Int /\ h \in Int
    BY <1>0, <1>5, <1>6, <1>7
<1>9. Do!MoneyIsExplained <=> all = a + c + d + empty + h
    BY <1>1, <1>3, <1>4
<1> HIDE DEF a, c, d, h, all
<1> QED BY <1>0, <1>8, <1>9

-----------------------------------------------------------------------------
(* The rate limiter: hits, admissions and promises.                        *)

\* The ages of a key's hits, oldest first.
Aged(s) == s \in Seq(Ra!Ages) /\ \A i, j \in DOMAIN s : i <= j => s[i] >= s[j]
Recent(k) == Ra!InWindow(Ra!Known(k))

LimitTypes ==
    /\ enforce \in BOOLEAN
    /\ DOMAIN hits \subseteq Keys /\ \A k \in DOMAIN hits : Aged(hits[k])
    /\ DOMAIN granted = Keys
    /\ \A k \in Keys : Aged(granted[k]) /\ \A i \in DOMAIN granted[k] : granted[k][i] < Window
    /\ promise \in [Keys -> Int]

\* What the limiter knows of a key are the latest of its admissions, all of them unless it was evicted.
IsTail(w, g) == Len(w) <= Len(g) /\ \A i \in DOMAIN w : w[i] = g[Len(g) - Len(w) + i]

KnowsLatest ==
    \A k \in Keys : IsTail(Recent(k), granted[k]) /\ (k \notin forgotten => Len(Recent(k)) = Len(granted[k]))

NoneOverfull == enforce => \A k \in Keys : Len(Recent(k)) <= Requests

\* What is left of a Retry-After is at least what the oldest hit of a full window still has to go.
PromisesSuffice ==
    \A k \in Keys : promise[k] >= 0 =>
        enforce /\ (Len(Recent(k)) >= Requests => Recent(k)[1] + promise[k] > Window)

LimitInv == LimitTypes /\ KnowsLatest /\ NoneOverfull /\ PromisesSuffice

\* What is left of s without its first n ages, seen from its first i ages.
Cut(s, n) == [i \in 0 .. Len(s) |-> IF i <= n THEN <<>> ELSE [j \in 1 .. i - n |-> s[n + j]]]

\* A filter that drops the first n ages and no other leaves the rest as it is.
LEMMA WindowIsCut ==
    ASSUME NEW s \in Seq(Nat), NEW n \in 0 .. Len(s),
           \A i \in 1 .. n : ~(s[i] < Window), \A i \in n + 1 .. Len(s) : s[i] < Window
    PROVE  Ra!InWindow(s) = Cut(s, n)[Len(s)]
<1> DEFINE Kept(f) == f = [i \in 0 .. Len(s) |-> IF i = 0 THEN <<>>
                           ELSE IF s[i] < Window THEN Append(f[i-1], s[i]) ELSE f[i-1]]
<1> DEFINE g == CHOOSE f : Kept(f)
<1>1. Ra!InWindow(s) = g[Len(s)]
    BY DEF Ra!InWindow
<1>2. Kept(Cut(s, n))
  <2>1. ASSUME NEW i \in 0 .. Len(s)
        PROVE  Cut(s, n)[i] = IF i = 0 THEN <<>>
                           ELSE IF s[i] < Window THEN Append(Cut(s, n)[i-1], s[i]) ELSE Cut(s, n)[i-1]
    <3>0. Len(s) \in Nat /\ n \in Nat /\ n <= Len(s) /\ i \in Nat /\ i <= Len(s)
      OBVIOUS
    <3>1. CASE i <= n
      BY <3>0, <3>1 DEF Cut
    <3>2. CASE i > n
      <4>0. i - 1 \in 0 .. Len(s) /\ i - n \in Nat /\ i - n >= 1 /\ s[i] < Window /\ s[i] \in Nat
        BY <3>0, <3>2
      <4>1. Cut(s, n)[i - 1] = [j \in 1 .. i - 1 - n |-> s[n + j]]
        BY <3>0, <3>2, <4>0 DEF Cut
      <4>2. Cut(s, n)[i] = [j \in 1 .. i - n |-> s[n + j]]
        BY <3>0, <3>2, <4>0 DEF Cut
      <4>3. [j \in 1 .. i - 1 - n |-> s[n + j]] \in Seq(Nat)
        BY <3>0, <3>2, <4>0
      <4>4. Append([j \in 1 .. i - 1 - n |-> s[n + j]], s[i]) = [j \in 1 .. i - n |-> s[n + j]]
        BY <3>0, <3>2, <4>0, <4>3
      <4>5. Cut(s, n)[i] = Append(Cut(s, n)[i - 1], s[i])
        BY <4>1, <4>2, <4>4
      <4>6. i # 0
        BY <3>0, <3>2
      <4> QED BY <4>0, <4>5, <4>6
    <3> QED BY <3>0, <3>1, <3>2
  <2> QED BY <2>1 DEF Cut
<1>3. Kept(g)
    BY <1>2
<1> HIDE DEF g
<1>4. ASSUME NEW i \in Nat, i + 1 \in 0 .. Len(s)
      PROVE  /\ g[i + 1] = IF s[i + 1] < Window THEN Append(g[i], s[i + 1]) ELSE g[i]
             /\ Cut(s, n)[i + 1] = IF s[i + 1] < Window THEN Append(Cut(s, n)[i], s[i + 1]) ELSE Cut(s, n)[i]
  <2>1. i + 1 - 1 = i /\ i + 1 # 0
    OBVIOUS
  <2>2. ASSUME NEW f, Kept(f)
        PROVE  f[i + 1] = IF s[i + 1] < Window THEN Append(f[i], s[i + 1]) ELSE f[i]
    <3>1. f[i + 1] = [j \in 0 .. Len(s) |-> IF j = 0 THEN <<>>
                         ELSE IF s[j] < Window THEN Append(f[j-1], s[j]) ELSE f[j-1]][i + 1]
      BY <2>2
    <3> QED BY <1>4, <2>1, <3>1
  <2> QED BY <1>2, <1>3, <2>2
<1>5. g[0] = <<>> /\ Cut(s, n)[0] = <<>>
    BY <1>2, <1>3
<1> DEFINE Same == {i \in Nat : i <= Len(s) => g[i] = Cut(s, n)[i]}
<1>6. 0 \in Same
    BY <1>5
<1>7. ASSUME NEW i \in Nat, i \in Same PROVE i + 1 \in Same
  <2> SUFFICES ASSUME i + 1 <= Len(s) PROVE g[i + 1] = Cut(s, n)[i + 1]
      OBVIOUS
  <2>1. i + 1 \in 0 .. Len(s) /\ i <= Len(s)
    OBVIOUS
  <2>2. g[i] = Cut(s, n)[i]
    BY <1>7, <2>1
  <2> QED BY <1>4, <2>1, <2>2
<1> HIDE DEF Same
<1>8. Nat \subseteq Same
    BY <1>6, <1>7, NumbersFromZero
<1> QED BY <1>1, <1>8 DEF Same

\* What is in the window of ages in order is what is left of them without the first ones.
LEMMA WindowOf ==
    ASSUME NEW s, Aged(s)
    PROVE  /\ Aged(Ra!InWindow(s)) /\ \A i \in DOMAIN Ra!InWindow(s) : Ra!InWindow(s)[i] < Window
           /\ IsTail(Ra!InWindow(s), s)
           /\ \A i \in 1 .. Len(s) - Len(Ra!InWindow(s)) : s[i] = Window
<1>1. s \in Seq(Nat) /\ Len(s) \in Nat /\ \A i \in 1 .. Len(s) : s[i] \in 0 .. Window
    BY LimitConstants DEF Aged, Ra!Ages
<1> DEFINE T == {n \in 0 .. Len(s) : \A i \in n + 1 .. Len(s) : s[i] < Window}
<1>2. Len(s) \in T /\ T \subseteq Nat
    BY <1>1
<1>3. PICK n \in T : \A m \in T : n <= m
  <2> HIDE DEF T
  <2> QED BY <1>2, LeastNumber
<1>4. n \in 0 .. Len(s) /\ \A i \in n + 1 .. Len(s) : s[i] < Window
    BY <1>3
<1>5. ASSUME NEW i \in 1 .. n PROVE s[i] = Window
  <2>0. n \in 1 .. Len(s) /\ n - 1 \in 0 .. Len(s) /\ ~(n <= n - 1)
    BY <1>1, <1>4
  <2>1. n \in 1 .. Len(s) /\ n - 1 \in 0 .. Len(s) /\ n - 1 \notin T
    BY <1>3, <2>0
  <2>2. ~(s[n] < Window)
    BY <1>1, <1>4, <2>1
  <2>3. s[i] >= s[n] /\ s[i] \in 0 .. Window /\ s[n] \in 0 .. Window
    BY <1>1, <2>1 DEF Aged
  <2> QED BY <2>2, <2>3, LimitConstants
<1>6. \A i \in 1 .. n : ~(s[i] < Window)
    BY <1>5, LimitConstants
<1> DEFINE w == [j \in 1 .. Len(s) - n |-> s[n + j]]
<1>7. Ra!InWindow(s) = w
  <2>1. Ra!InWindow(s) = Cut(s, n)[Len(s)]
    BY <1>1, <1>4, <1>6, WindowIsCut
  <2>2. Cut(s, n)[Len(s)] = IF Len(s) <= n THEN <<>> ELSE w
    BY <1>1 DEF Cut
  <2>3. CASE Len(s) <= n
    <3>1. Len(s) - n = 0
      BY <1>1, <1>4, <2>3
    <3>2. w = <<>>
      BY <3>1
    <3> QED BY <2>1, <2>2, <2>3, <3>2
  <2> QED BY <2>1, <2>2, <2>3
<1>8. Len(s) - n \in Nat /\ n \in Nat
    BY <1>1, <1>4
<1>9. \A j \in 1 .. Len(s) - n : n + j \in n + 1 .. Len(s) /\ n + j \in 1 .. Len(s)
    BY <1>1, <1>8
<1>10. w \in Seq(0 .. Window) /\ Len(w) = Len(s) - n /\ DOMAIN w = 1 .. Len(s) - n
    BY <1>1, <1>8, <1>9
<1>11. \A j \in 1 .. Len(s) - n : w[j] = s[n + j] /\ w[j] < Window /\ Len(s) - Len(w) + j = n + j
    BY <1>1, <1>4, <1>8, <1>9, <1>10
<1>12. ASSUME NEW i \in DOMAIN w, NEW j \in DOMAIN w, i <= j PROVE w[i] >= w[j]
  <2>1. n + i <= n + j /\ n + i \in DOMAIN s /\ n + j \in DOMAIN s
    BY <1>1, <1>8, <1>9, <1>10, <1>12
  <2> QED BY <1>10, <1>11, <2>1 DEF Aged
<1> HIDE DEF w
<1>13. Aged(w)
    BY <1>10, <1>12 DEF Aged, Ra!Ages
<1>14. IsTail(w, s)
  <2>1. Len(w) <= Len(s)
    BY <1>1, <1>8, <1>10
  <2>2. \A j \in DOMAIN w : w[j] = s[Len(s) - Len(w) + j]
    BY <1>10, <1>11
  <2> QED BY <2>1, <2>2 DEF IsTail
<1>15. \A i \in 1 .. Len(s) - Len(w) : s[i] = Window
    BY <1>1, <1>5, <1>8, <1>10
<1> QED BY <1>7, <1>10, <1>11, <1>13, <1>14, <1>15

\* Nothing is in the window of a key without hits, and all of it where every hit is recent.
LEMMA WindowOfRecent ==
    ASSUME NEW s, Aged(s), \A i \in DOMAIN s : s[i] < Window
    PROVE  Ra!InWindow(s) = s
<1> DEFINE w == Ra!InWindow(s)
<1>1. /\ Aged(w) /\ IsTail(w, s) /\ \A i \in 1 .. Len(s) - Len(w) : s[i] = Window
    BY WindowOf
<1> HIDE DEF w
<1>2. s \in Seq(Ra!Ages) /\ w \in Seq(Ra!Ages) /\ Len(w) <= Len(s)
    BY <1>1 DEF Aged, IsTail
<1>3. Len(s) = Len(w)
  <2> SUFFICES ASSUME Len(s) > Len(w) PROVE FALSE
      BY <1>2
  <2>1. 1 \in 1 .. Len(s) - Len(w) /\ 1 \in DOMAIN s
    BY <1>2
  <2>2. s[1] = Window /\ s[1] < Window
    BY <1>1, <2>1
  <2> QED BY <2>2, LimitConstants
<1>4. \A i \in 1 .. Len(s) : Len(s) - Len(w) + i = i
    BY <1>2, <1>3
<1>5. DOMAIN w = 1 .. Len(s) /\ \A i \in 1 .. Len(s) : w[i] = s[i]
    BY <1>1, <1>2, <1>3, <1>4 DEF IsTail
<1>6. w = s
    BY <1>2, <1>5
<1> QED BY <1>6 DEF w

\* Where nobody called, the window is empty.
LEMMA NoHits == Aged(<<>>) /\ Ra!InWindow(<<>>) = <<>>
<1>1. Aged(<<>>)
    BY DEF Aged
<1> QED BY <1>1, WindowOfRecent

\* A hit more, of age 0.
LEMMA OneHitMore ==
    ASSUME NEW s, Aged(s), \A i \in DOMAIN s : s[i] < Window
    PROVE  /\ Aged(Append(s, 0)) /\ \A i \in DOMAIN Append(s, 0) : Append(s, 0)[i] < Window
           /\ Ra!InWindow(Append(s, 0)) = Append(s, 0) /\ Len(Append(s, 0)) = Len(s) + 1
<1>1. /\ s \in Seq(Ra!Ages) /\ 0 \in Ra!Ages /\ Ra!Ages = 0 .. Window
      /\ \A i \in 1 .. Len(s) : s[i] \in 0 .. Window
    BY LimitConstants DEF Aged, Ra!Ages
<1> DEFINE t == Append(s, 0)
<1>2. t \in Seq(Ra!Ages) /\ Len(t) = Len(s) + 1 /\ DOMAIN t = 1 .. Len(s) + 1 /\ Len(s) \in Nat
    BY <1>1
<1>3. t[Len(s) + 1] = 0 /\ \A i \in 1 .. Len(s) : t[i] = s[i] /\ s[i] \in 0 .. Window
    BY <1>1
<1>4. \A i \in DOMAIN t : t[i] < Window /\ t[i] \in 0 .. Window
    BY <1>1, <1>2, <1>3, LimitConstants
<1>5. ASSUME NEW i \in DOMAIN t, NEW j \in DOMAIN t, i <= j PROVE t[i] >= t[j]
  <2> HIDE DEF t
  <2>1. CASE j = Len(s) + 1
    BY <1>2, <1>3, <1>4, <2>1, LimitConstants
  <2>2. CASE j # Len(s) + 1
    <3>1. j \in 1 .. Len(s) /\ i \in 1 .. Len(s)
      BY <1>2, <1>5, <2>2
    <3>2. s[i] >= s[j]
      BY <1>1, <1>5, <3>1 DEF Aged
    <3> QED BY <1>3, <3>1, <3>2
  <2> QED BY <2>1, <2>2
<1> HIDE DEF t
<1>6. Aged(t)
    BY <1>2, <1>5 DEF Aged
<1>7. Ra!InWindow(t) = t
    BY <1>4, <1>6, WindowOfRecent
<1> QED BY <1>2, <1>4, <1>6, <1>7 DEF t

\* A tick makes every hit older, up to Window.
LEMMA OlderHits ==
    ASSUME NEW s, Aged(s)
    PROVE  /\ Aged(Ra!Older(s)) /\ Len(Ra!Older(s)) = Len(s) /\ DOMAIN Ra!Older(s) = DOMAIN s
           /\ \A i \in DOMAIN s : s[i] \in 0 .. Window /\ Ra!Older(s)[i] = IF s[i] < Window THEN s[i] + 1 ELSE Window
<1>1. /\ s \in Seq(0 .. Window) /\ Len(s) \in Nat /\ DOMAIN s = 1 .. Len(s)
      /\ \A i \in 1 .. Len(s) : s[i] \in 0 .. Window
    BY LimitConstants DEF Aged, Ra!Ages
<1> DEFINE o == Ra!Older(s)
<1>2. DOMAIN o = DOMAIN s /\ \A i \in DOMAIN s : o[i] = IF s[i] < Window THEN s[i] + 1 ELSE Window
    BY DEF Ra!Older
<1>3. \A i \in DOMAIN s : s[i] \in 0 .. Window
    BY <1>1
<1>4. \A i \in DOMAIN s : o[i] \in 0 .. Window
  <2> HIDE DEF o
  <2> QED BY <1>2, <1>3, LimitConstants
<1>5. o \in Seq(0 .. Window) /\ Len(o) = Len(s)
  <2>1. o = [i \in 1 .. Len(s) |-> o[i]]
    BY <1>1 DEF Ra!Older
  <2> HIDE DEF o
  <2> QED BY <1>1, <1>2, <1>4, <2>1
<1> HIDE DEF o
<1>6. \A i, j \in DOMAIN o : i <= j => o[i] >= o[j]
  <2> TAKE i, j \in DOMAIN o
  <2> HAVE i <= j
  <2>1. s[i] >= s[j] /\ s[i] \in 0 .. Window /\ s[j] \in 0 .. Window
    BY <1>2, <1>3 DEF Aged
  <2>2. o[i] = IF s[i] < Window THEN s[i] + 1 ELSE Window
    BY <1>2
  <2>3. o[j] = IF s[j] < Window THEN s[j] + 1 ELSE Window
    BY <1>2
  <2> QED BY <2>1, <2>2, <2>3, LimitConstants
<1>7. Aged(o)
    BY <1>5, <1>6 DEF Aged, Ra!Ages
<1> QED BY <1>2, <1>3, <1>5, <1>7 DEF o

\* What was the tail of the admissions of a window is the tail of those still in it after a tick.
LEMMA TailsAge ==
    ASSUME NEW s, NEW g, Aged(s), Aged(g), IsTail(Ra!InWindow(s), g), \A i \in DOMAIN g : g[i] < Window
    PROVE  /\ IsTail(Ra!InWindow(Ra!Older(s)), Ra!InWindow(Ra!Older(g)))
           /\ Len(Ra!InWindow(s)) = Len(g) => Len(Ra!InWindow(Ra!Older(s))) = Len(Ra!InWindow(Ra!Older(g)))
           /\ Len(Ra!InWindow(Ra!Older(s))) <= Len(Ra!InWindow(s))
           /\ Len(Ra!InWindow(Ra!Older(s))) = Len(Ra!InWindow(s)) /\ Len(Ra!InWindow(s)) > 0
                => Ra!InWindow(Ra!Older(s))[1] = Ra!InWindow(s)[1] + 1
<1> DEFINE w == Ra!InWindow(s)
           os == Ra!Older(s)
           og == Ra!Older(g)
           ws == Ra!InWindow(os)
           wg == Ra!InWindow(og)
           Old(a) == IF a < Window THEN a + 1 ELSE Window
<1>1. /\ Aged(w) /\ IsTail(w, s) /\ \A i \in 1 .. Len(s) - Len(w) : s[i] = Window
      /\ \A i \in DOMAIN w : w[i] < Window
    BY WindowOf
<1>2. /\ Aged(os) /\ Len(os) = Len(s) /\ \A i \in DOMAIN s : os[i] = Old(s[i])
      /\ Aged(og) /\ Len(og) = Len(g) /\ \A i \in DOMAIN g : og[i] = Old(g[i])
    BY OlderHits
<1>3. /\ Aged(ws) /\ IsTail(ws, os) /\ \A i \in 1 .. Len(os) - Len(ws) : os[i] = Window
      /\ \A i \in DOMAIN ws : ws[i] < Window
    BY <1>2, WindowOf
<1>4. /\ Aged(wg) /\ IsTail(wg, og) /\ \A i \in 1 .. Len(og) - Len(wg) : og[i] = Window
      /\ \A i \in DOMAIN wg : wg[i] < Window
    BY <1>2, WindowOf
<1>5. IsTail(w, g)
    OBVIOUS
<1> HIDE DEF w, os, og, ws, wg
<1>6. /\ Len(s) \in Nat /\ DOMAIN s = 1 .. Len(s) /\ Len(g) \in Nat /\ DOMAIN g = 1 .. Len(g)
      /\ Len(w) \in Nat /\ DOMAIN w = 1 .. Len(w)
      /\ Len(ws) \in Nat /\ DOMAIN ws = 1 .. Len(ws) /\ Len(wg) \in Nat /\ DOMAIN wg = 1 .. Len(wg)
    BY <1>1, <1>3, <1>4 DEF Aged
<1>7. Len(w) <= Len(s) /\ Len(w) <= Len(g) /\ Len(ws) <= Len(s) /\ Len(wg) <= Len(g)
    BY <1>1, <1>2, <1>3, <1>4, <1>5 DEF IsTail
\* The elements, counted from the end.
<1>8. \A i \in 1 .. Len(w) : w[i] = s[Len(s) - Len(w) + i] /\ w[i] = g[Len(g) - Len(w) + i]
    BY <1>1, <1>5, <1>6 DEF IsTail
<1>9. ASSUME NEW i \in 1 .. Len(ws) PROVE ws[i] = Old(s[Len(s) - Len(ws) + i]) /\ ws[i] < Window
  <2>1. Len(s) - Len(ws) + i \in DOMAIN s
    BY <1>6, <1>7
  <2>2. ws[i] = os[Len(s) - Len(ws) + i]
    BY <1>2, <1>3, <1>6 DEF IsTail
  <2> QED BY <1>2, <1>3, <1>6, <2>1, <2>2
<1>10. ASSUME NEW i \in 1 .. Len(wg) PROVE wg[i] = Old(g[Len(g) - Len(wg) + i]) /\ wg[i] < Window
  <2>1. Len(g) - Len(wg) + i \in DOMAIN g
    BY <1>6, <1>7
  <2>2. wg[i] = og[Len(g) - Len(wg) + i]
    BY <1>2, <1>4, <1>6 DEF IsTail
  <2> QED BY <1>2, <1>4, <1>6, <2>1, <2>2
<1>11. \A i \in 1 .. Len(s) - Len(ws) : Old(s[i]) = Window
  <2> TAKE i \in 1 .. Len(s) - Len(ws)
  <2>1. i \in DOMAIN s
    BY <1>6, <1>7
  <2> QED BY <1>2, <1>3, <2>1
<1>12. \A i \in 1 .. Len(g) - Len(wg) : Old(g[i]) = Window
  <2> TAKE i \in 1 .. Len(g) - Len(wg)
  <2>1. i \in DOMAIN g
    BY <1>6, <1>7
  <2> QED BY <1>2, <1>4, <2>1
\* From one end to the other.
<1>13. \A d \in 1 .. Len(w) : s[Len(s) - d + 1] = g[Len(g) - d + 1]
  <2> TAKE d \in 1 .. Len(w)
  <2> DEFINE e == Len(w) - d + 1
  <2>1. e \in 1 .. Len(w)
    BY <1>6
  <2>2. Len(s) - Len(w) + e = Len(s) - d + 1 /\ Len(g) - Len(w) + e = Len(g) - d + 1
    BY <1>6
  <2> HIDE DEF e
  <2>3. w[e] = s[Len(s) - Len(w) + e] /\ w[e] = g[Len(g) - Len(w) + e]
    BY <1>8, <2>1
  <2> QED BY <2>2, <2>3
<1>14. Len(ws) <= Len(w)
  <2> SUFFICES ASSUME Len(ws) > Len(w) PROVE FALSE
      BY <1>6
  <2>1. 1 \in 1 .. Len(ws) /\ Len(s) - Len(ws) + 1 \in 1 .. Len(s) - Len(w)
    BY <1>6, <1>7
  <2>2. s[Len(s) - Len(ws) + 1] = Window
    BY <1>1, <2>1
  <2>3. Old(s[Len(s) - Len(ws) + 1]) < Window
    BY <1>9, <2>1
  <2> QED BY <2>2, <2>3, LimitConstants
<1>15. Len(ws) <= Len(wg)
  <2> SUFFICES ASSUME Len(ws) > Len(wg) PROVE FALSE
      BY <1>6
  <2>1. 1 \in 1 .. Len(ws) /\ Len(ws) \in 1 .. Len(w) /\ Len(g) - Len(ws) + 1 \in 1 .. Len(g) - Len(wg)
    BY <1>6, <1>7, <1>14
  <2>2. Old(g[Len(g) - Len(ws) + 1]) = Window
    BY <1>12, <2>1
  <2>3. Old(s[Len(s) - Len(ws) + 1]) < Window
    BY <1>9, <2>1
  <2>4. s[Len(s) - Len(ws) + 1] = g[Len(g) - Len(ws) + 1]
    BY <1>13, <2>1
  <2> QED BY <2>2, <2>3, <2>4, LimitConstants
<1>16. IsTail(ws, wg)
  <2> SUFFICES ASSUME NEW i \in 1 .. Len(ws) PROVE ws[i] = wg[Len(wg) - Len(ws) + i]
      BY <1>6, <1>15 DEF IsTail
  <2> DEFINE d == Len(ws) - i + 1
  <2>1. d \in 1 .. Len(w) /\ Len(wg) - Len(ws) + i \in 1 .. Len(wg)
    BY <1>6, <1>14, <1>15
  <2>2. /\ Len(s) - Len(ws) + i = Len(s) - d + 1
        /\ Len(g) - Len(wg) + (Len(wg) - Len(ws) + i) = Len(g) - d + 1
    BY <1>6
  <2> HIDE DEF d
  <2>3. ws[i] = Old(s[Len(s) - d + 1])
    BY <1>9, <2>2
  <2>4. wg[Len(wg) - Len(ws) + i] = Old(g[Len(g) - d + 1])
    BY <1>10, <2>1, <2>2
  <2> QED BY <1>13, <2>1, <2>3, <2>4
<1>17. ASSUME Len(w) = Len(g) PROVE Len(ws) = Len(wg)
  <2> SUFFICES ASSUME ~(Len(wg) <= Len(ws)) PROVE FALSE
    <3>1. Len(ws) \in Nat /\ Len(wg) \in Nat /\ Len(ws) <= Len(wg)
      BY <1>6, <1>15
    <3> QED BY <3>1
  <2>1. 1 \in 1 .. Len(wg) /\ Len(wg) \in 1 .. Len(w) /\ Len(s) - Len(wg) + 1 \in 1 .. Len(s) - Len(ws)
    BY <1>6, <1>7, <1>17
  <2>2. Old(s[Len(s) - Len(wg) + 1]) = Window
    BY <1>11, <2>1
  <2>3. Old(g[Len(g) - Len(wg) + 1]) < Window
    BY <1>10, <2>1
  <2>4. s[Len(s) - Len(wg) + 1] = g[Len(g) - Len(wg) + 1]
    BY <1>13, <2>1
  <2> QED BY <2>2, <2>3, <2>4, LimitConstants
<1>18. ASSUME Len(ws) = Len(w), Len(w) > 0 PROVE ws[1] = w[1] + 1
  <2>1. 1 \in 1 .. Len(w) /\ 1 \in 1 .. Len(ws)
    BY <1>6, <1>18
  <2>2. ws[1] = Old(s[Len(s) - Len(w) + 1]) /\ w[1] = s[Len(s) - Len(w) + 1] /\ w[1] < Window
    BY <1>1, <1>6, <1>8, <1>9, <1>18, <2>1
  <2> QED BY <2>2
<1> QED BY <1>14, <1>16, <1>17, <1>18 DEF w, os, og, ws, wg

\* Evicting keys, or dropping those without hits, takes away what they are known by.
LEMMA ForgetKeeps ==
    ASSUME NEW h, NEW ks, ks \subseteq DOMAIN h, DOMAIN h \subseteq Keys, \A k \in DOMAIN h : Aged(h[k]),
           Ra!Forget(h, ks)
    PROVE  /\ DOMAIN hits' \subseteq Keys /\ \A k \in DOMAIN hits' : Aged(hits'[k])
           /\ forgotten \subseteq forgotten'
           /\ \A k \in Keys :
                LET was == Ra!InWindow(IF k \in DOMAIN h THEN h[k] ELSE <<>>)
                IN  Recent(k)' = was \/ (Recent(k)' = <<>> /\ k \in forgotten')
<1>1. /\ DOMAIN hits' = DOMAIN h \ ks /\ \A k \in DOMAIN h \ ks : hits'[k] = h[k]
      /\ forgotten' = forgotten \cup {k \in ks : Ra!InWindow(h[k]) # <<>>}
    BY DEF Ra!Forget, Ra!Without
<1>2. ASSUME NEW k \in Keys
      PROVE  LET was == Ra!InWindow(IF k \in DOMAIN h THEN h[k] ELSE <<>>)
             IN  Recent(k)' = was \/ (Recent(k)' = <<>> /\ k \in forgotten')
  <2>1. Recent(k)' = Ra!InWindow(IF k \in DOMAIN hits' THEN hits'[k] ELSE <<>>)
    BY DEF Recent, Ra!Known
  <2>2. CASE k \in DOMAIN h \ ks
    BY <1>1, <2>1, <2>2
  <2>3. CASE k \in ks
    <3>1. Recent(k)' = <<>>
      BY <1>1, <2>1, <2>3, NoHits
    <3>2. Ra!InWindow(h[k]) = <<>> \/ k \in forgotten'
      BY <1>1, <2>3
    <3> QED BY <2>3, <3>1, <3>2
  <2>4. CASE k \notin DOMAIN h
    BY <1>1, <2>1, <2>4
  <2> QED BY <2>2, <2>3, <2>4
<1> QED BY <1>1, <1>2

\* Nobody has called yet.
LEMMA LimitInvInit == Ra!LimitInit => LimitInv
<1> SUFFICES ASSUME Ra!LimitInit PROVE LimitInv
    OBVIOUS
<1>1. /\ enforce \in BOOLEAN /\ DOMAIN hits = {} /\ forgotten = {}
      /\ granted = [k \in Keys |-> <<>>] /\ promise = [k \in Keys |-> -1]
    BY DEF Ra!LimitInit, Ra!NoPromise
<1>2. \A k \in Keys : Recent(k) = <<>> /\ granted[k] = <<>> /\ promise[k] = -1
    BY <1>1, NoHits DEF Recent, Ra!Known
<1>3. LimitTypes
    BY <1>1, <1>2, NoHits DEF LimitTypes
<1>4. KnowsLatest
    BY <1>2 DEF KnowsLatest, IsTail
<1>5. NoneOverfull /\ PromisesSuffice
    BY <1>2, LimitConstants DEF NoneOverfull, PromisesSuffice
<1> QED BY <1>3, <1>4, <1>5 DEF LimitInv

\* What a key is known by is recent, and in order.
LEMMA RecentAged ==
    ASSUME LimitTypes, NEW k \in Keys
    PROVE  /\ Aged(Ra!Known(k)) /\ Aged(Recent(k)) /\ \A i \in DOMAIN Recent(k) : Recent(k)[i] < Window
           /\ Len(Recent(k)) \in Nat /\ \A i \in 1 .. Len(Recent(k)) : Recent(k)[i] \in Int
<1>1. Aged(Ra!Known(k))
    BY NoHits DEF LimitTypes, Ra!Known
<1>2. Aged(Recent(k)) /\ \A i \in DOMAIN Recent(k) : Recent(k)[i] < Window
    BY <1>1, WindowOf DEF Recent
<1>3. Len(Recent(k)) \in Nat /\ \A i \in 1 .. Len(Recent(k)) : Recent(k)[i] \in Int
    BY <1>2, LimitConstants DEF Aged, Ra!Ages
<1> QED BY <1>1, <1>2, <1>3

\* An admission, whoever is evicted for it.
LEMMA AdmitKeeps == \A k \in Keys : LimitInv /\ Ra!Admit(k) => LimitInv'
<1> SUFFICES ASSUME LimitInv, NEW k \in Keys, Ra!Admit(k) PROVE LimitInv'
    OBVIOUS
<1>0. LimitTypes /\ KnowsLatest /\ NoneOverfull /\ PromisesSuffice
    BY DEF LimitInv
<1> DEFINE h == [j \in DOMAIN hits \cup {k} |-> IF j = k THEN Append(Recent(k), 0) ELSE hits[j]]
<1>1. \E ks \in SUBSET DOMAIN h : Ra!Forget(h, ks)
    BY DEF Ra!Admit, Ra!Store, Ra!Evict, Recent
<1>2. /\ Aged(Append(Recent(k), 0)) /\ Ra!InWindow(Append(Recent(k), 0)) = Append(Recent(k), 0)
      /\ Len(Append(Recent(k), 0)) = Len(Recent(k)) + 1
    BY <1>0, RecentAged, OneHitMore
<1>3. DOMAIN h \subseteq Keys /\ \A j \in DOMAIN h : Aged(h[j])
    BY <1>0, <1>2 DEF LimitTypes
<1>4. /\ DOMAIN hits' \subseteq Keys /\ \A j \in DOMAIN hits' : Aged(hits'[j])
      /\ forgotten \subseteq forgotten'
      /\ \A j \in Keys :
            LET was == Ra!InWindow(IF j \in DOMAIN h THEN h[j] ELSE <<>>)
            IN  Recent(j)' = was \/ (Recent(j)' = <<>> /\ j \in forgotten')
  <2> HIDE DEF h
  <2> QED BY <1>1, <1>3, ForgetKeeps
<1>5. Recent(k)' = Append(Recent(k), 0) \/ (Recent(k)' = <<>> /\ k \in forgotten')
    BY <1>2, <1>4
<1>6. \A j \in Keys \ {k} : Recent(j)' = Recent(j) \/ (Recent(j)' = <<>> /\ j \in forgotten')
  <2> TAKE j \in Keys \ {k}
  <2>1. (IF j \in DOMAIN h THEN h[j] ELSE <<>>) = Ra!Known(j)
    BY DEF Ra!Known
  <2> QED BY <1>4, <2>1 DEF Recent
<1>7. /\ enforce' = enforce /\ (Ra!Full(k) => ~enforce)
      /\ granted' = [granted EXCEPT ![k] = Append(granted[k], 0)] /\ promise' = [promise EXCEPT ![k] = -1]
    BY DEF Ra!Admit, Ra!NoPromise
<1> HIDE DEF h
<1>8. /\ Aged(granted[k]) /\ \A i \in DOMAIN granted[k] : granted[k][i] < Window
      /\ DOMAIN granted = Keys /\ promise \in [Keys -> Int] /\ enforce \in BOOLEAN
    BY <1>0 DEF LimitTypes
<1>9. granted'[k] = Append(granted[k], 0) /\ promise'[k] = -1
    BY <1>7, <1>8
<1>10. \A j \in Keys \ {k} : granted'[j] = granted[j] /\ promise'[j] = promise[j]
    BY <1>7, <1>8
<1>11. LimitTypes'
  <2>1. Aged(granted'[k]) /\ \A i \in DOMAIN granted'[k] : granted'[k][i] < Window
    BY <1>8, <1>9, OneHitMore
  <2>2. \A j \in Keys \ {k} : Aged(granted'[j]) /\ \A i \in DOMAIN granted'[j] : granted'[j][i] < Window
    BY <1>0, <1>10 DEF LimitTypes
  <2>3. DOMAIN granted' = Keys /\ promise' \in [Keys -> Int] /\ enforce' \in BOOLEAN
    BY <1>7, <1>8
  <2> QED BY <1>4, <2>1, <2>2, <2>3 DEF LimitTypes
<1>12. \A j \in Keys : Len(Recent(j)) \in Nat /\ Len(granted[j]) \in Nat
    BY <1>0, RecentAged DEF LimitTypes, Aged
<1>13. KnowsLatest'
  <2>1. \A g : IsTail(<<>>, g) \/ ~(Len(g) \in Nat)
    BY DEF IsTail
  <2>2. ASSUME NEW j \in Keys PROVE IsTail(Recent(j)', granted'[j]) /\ (j \notin forgotten' => Len(Recent(j)') = Len(granted'[j]))
    <3>0. Len(granted'[j]) \in Nat
      BY <1>11 DEF LimitTypes, Aged
    <3>1. CASE Recent(j)' = <<>> /\ j \in forgotten'
      BY <2>1, <3>0, <3>1
    <3>2. CASE j # k /\ Recent(j)' = Recent(j)
      BY <1>0, <1>4, <1>10, <3>2 DEF KnowsLatest
    <3>3. CASE j = k /\ Recent(j)' = Append(Recent(k), 0)
      <4> DEFINE w == Recent(k)
                 g == granted[k]
      <4>1. IsTail(w, g) /\ (k \notin forgotten => Len(w) = Len(g))
        BY <1>0 DEF KnowsLatest
      <4>2. w \in Seq(Ra!Ages) /\ g \in Seq(Ra!Ages) /\ 0 \in Ra!Ages
        BY <1>0, <1>8, RecentAged, LimitConstants DEF Aged, Ra!Ages
      <4>3. Recent(j)' = Append(w, 0) /\ granted'[j] = Append(g, 0)
        BY <1>9, <3>3
      <4> HIDE DEF w, g
      <4>4. Len(Append(w, 0)) = Len(w) + 1 /\ Len(Append(g, 0)) = Len(g) + 1 /\ Len(w) \in Nat /\ Len(g) \in Nat
        BY <4>2
      <4>5. IsTail(Append(w, 0), Append(g, 0))
        <5>0. DOMAIN Append(w, 0) = 1 .. Len(w) + 1 /\ Len(w) <= Len(g) /\ DOMAIN w = 1 .. Len(w)
          BY <4>1, <4>2 DEF IsTail
        <5>1. ASSUME NEW i \in 1 .. Len(w) + 1
              PROVE  Append(w, 0)[i] = Append(g, 0)[Len(g) - Len(w) + i]
          <6>1. CASE i = Len(w) + 1
            BY <4>2, <4>4, <6>1
          <6>2. CASE i # Len(w) + 1
            <7>1. i \in 1 .. Len(w) /\ Len(g) - Len(w) + i \in 1 .. Len(g)
              BY <4>4, <5>0, <6>2
            <7>2. w[i] = g[Len(g) - Len(w) + i]
              BY <4>1, <5>0, <7>1 DEF IsTail
            <7>3. Append(w, 0)[i] = w[i]
              BY <4>2, <7>1
            <7>4. Append(g, 0)[Len(g) - Len(w) + i] = g[Len(g) - Len(w) + i]
              BY <4>2, <7>1
            <7> QED BY <7>2, <7>3, <7>4
          <6> QED BY <6>1, <6>2
        <5>2. Len(g) + 1 - (Len(w) + 1) = Len(g) - Len(w) /\ Len(w) + 1 <= Len(g) + 1
          BY <4>4, <5>0
        <5> QED BY <4>4, <5>0, <5>1, <5>2 DEF IsTail
      <4>6. j \notin forgotten' => Len(Append(w, 0)) = Len(Append(g, 0))
        BY <1>4, <3>3, <4>1, <4>4
      <4> QED BY <4>3, <4>5, <4>6
    <3> QED BY <1>5, <1>6, <3>1, <3>2, <3>3
  <2> QED BY <2>2 DEF KnowsLatest
<1>14. NoneOverfull'
  <2> SUFFICES ASSUME enforce, NEW j \in Keys PROVE Len(Recent(j)') <= Requests
      BY <1>7 DEF NoneOverfull
  <2>1. Len(Recent(j)) <= Requests /\ Len(<<>>) <= Requests
    BY <1>0, LimitConstants DEF NoneOverfull
  <2>2. CASE j = k
    <3>1. Len(Recent(k)) < Requests
      BY <1>7, <1>12, LimitConstants DEF Ra!Full, Recent
    <3>2. Len(Append(Recent(k), 0)) <= Requests
      BY <1>2, <1>12, <3>1, LimitConstants
    <3> QED BY <1>5, <2>1, <2>2, <3>2
  <2>3. CASE j # k
    BY <1>6, <2>1, <2>3
  <2> QED BY <2>2, <2>3
<1>15. PromisesSuffice'
  <2> SUFFICES ASSUME NEW j \in Keys, promise'[j] >= 0
               PROVE  enforce' /\ (Len(Recent(j)') >= Requests => Recent(j)'[1] + promise'[j] > Window)
      BY DEF PromisesSuffice
  <2>1. j # k /\ promise'[j] = promise[j]
    BY <1>9, <1>10
  <2>2. enforce /\ (Len(Recent(j)) >= Requests => Recent(j)[1] + promise[j] > Window)
    BY <1>0, <2>1 DEF PromisesSuffice
  <2>3. ~(Len(<<>>) >= Requests)
    BY LimitConstants
  <2> QED BY <1>6, <1>7, <2>1, <2>2, <2>3
<1> QED BY <1>11, <1>13, <1>14, <1>15 DEF LimitInv

\* A refusal: with what it promises, the oldest hit has left the window.
LEMMA RefuseKeeps == \A k \in Keys : LimitInv /\ Ra!Refuse(k) => LimitInv'
<1> SUFFICES ASSUME LimitInv, NEW k \in Keys, Ra!Refuse(k) PROVE LimitInv'
    OBVIOUS
<1>0. LimitTypes /\ KnowsLatest /\ NoneOverfull /\ PromisesSuffice
    BY DEF LimitInv
<1>1. /\ enforce /\ Len(Recent(k)) >= Requests
      /\ promise' = [promise EXCEPT ![k] = (Window - Recent(k)[1]) + 1]
      /\ enforce' = enforce /\ hits' = hits /\ granted' = granted /\ forgotten' = forgotten
    BY DEF Ra!Refuse, Ra!Full, Ra!RetryAfter, Recent
<1>2. \A j \in Keys : Recent(j)' = Recent(j)
    BY <1>1 DEF Recent, Ra!Known
<1>3. Recent(k)[1] \in Int
  <2>1. Len(Recent(k)) \in Nat /\ \A i \in 1 .. Len(Recent(k)) : Recent(k)[i] \in Int
    BY <1>0, RecentAged
  <2>2. 1 \in 1 .. Len(Recent(k))
    BY <1>1, <2>1, LimitConstants
  <2> QED BY <2>1, <2>2
<1>4. promise \in [Keys -> Int]
    BY <1>0 DEF LimitTypes
<1>5. LimitTypes'
  <2>1. promise' \in [Keys -> Int]
    BY <1>1, <1>3, <1>4, LimitConstants
  <2> QED BY <1>0, <1>1, <2>1 DEF LimitTypes
<1>6. KnowsLatest'
    BY <1>0, <1>1, <1>2 DEF KnowsLatest
<1>7. NoneOverfull'
    BY <1>0, <1>1, <1>2 DEF NoneOverfull
<1>8. PromisesSuffice'
  <2> SUFFICES ASSUME NEW j \in Keys, promise'[j] >= 0
               PROVE  enforce' /\ (Len(Recent(j)') >= Requests => Recent(j)'[1] + promise'[j] > Window)
      BY DEF PromisesSuffice
  <2>1. CASE j = k
    <3>1. promise'[j] = (Window - Recent(k)[1]) + 1
      BY <1>1, <1>4, <2>1
    <3>2. Recent(k)[1] + ((Window - Recent(k)[1]) + 1) > Window
      BY <1>3, LimitConstants
    <3> QED BY <1>1, <1>2, <2>1, <3>1, <3>2
  <2>2. CASE j # k
    <3>1. promise'[j] = promise[j]
      BY <1>1, <1>4, <2>2
    <3> QED BY <1>0, <1>1, <1>2, <3>1 DEF PromisesSuffice
  <2> QED BY <2>1, <2>2
<1> QED BY <1>5, <1>6, <1>7, <1>8 DEF LimitInv

\* The cleanup thread.
LEMMA CleanupKeeps == LimitInv /\ Ra!Cleanup => LimitInv'
<1> SUFFICES ASSUME LimitInv, Ra!Cleanup PROVE LimitInv'
    OBVIOUS
<1>0. LimitTypes /\ KnowsLatest /\ NoneOverfull /\ PromisesSuffice
    BY DEF LimitInv
<1> DEFINE gone == {k \in DOMAIN hits : Ra!InWindow(hits[k]) = <<>>}
<1>1. /\ Ra!Forget(hits, gone) /\ gone \subseteq DOMAIN hits
      /\ enforce' = enforce /\ granted' = granted /\ promise' = promise
    BY DEF Ra!Cleanup
<1>2. forgotten' = forgotten
    BY <1>1 DEF Ra!Forget
<1>3. /\ DOMAIN hits' \subseteq Keys /\ \A k \in DOMAIN hits' : Aged(hits'[k])
      /\ hits' = [k \in DOMAIN hits \ gone |-> hits[k]]
    BY <1>0, <1>1 DEF Ra!Forget, Ra!Without, LimitTypes
<1>4. \A k \in Keys : Recent(k)' = Recent(k)
  <2> TAKE k \in Keys
  <2>1. Recent(k)' = Ra!InWindow(IF k \in DOMAIN hits \ gone THEN hits[k] ELSE <<>>)
    BY <1>3 DEF Recent, Ra!Known
  <2>2. Recent(k) = Ra!InWindow(IF k \in DOMAIN hits THEN hits[k] ELSE <<>>)
    BY DEF Recent, Ra!Known
  <2>3. CASE k \in gone
    BY <2>1, <2>2, <2>3, NoHits
  <2>4. CASE k \notin gone
    BY <2>1, <2>2, <2>4
  <2> QED BY <2>3, <2>4
<1> HIDE DEF gone
<1>5. LimitTypes'
    BY <1>0, <1>1, <1>3 DEF LimitTypes
<1>6. KnowsLatest'
    BY <1>0, <1>1, <1>2, <1>4 DEF KnowsLatest
<1>7. NoneOverfull' /\ PromisesSuffice'
    BY <1>0, <1>1, <1>4 DEF NoneOverfull, PromisesSuffice
<1> QED BY <1>5, <1>6, <1>7 DEF LimitInv

\* A tick of the clock.
LEMMA TickKeeps == LimitInv /\ Ra!Tick => LimitInv'
<1> SUFFICES ASSUME LimitInv, Ra!Tick PROVE LimitInv'
    OBVIOUS
<1>0. LimitTypes /\ KnowsLatest /\ NoneOverfull /\ PromisesSuffice
    BY DEF LimitInv
<1>1. /\ hits' = [k \in DOMAIN hits |-> Ra!Older(hits[k])]
      /\ granted' = [k \in Keys |-> Ra!InWindow(Ra!Older(granted[k]))]
      /\ forgotten' = {k \in forgotten : granted'[k] # <<>>}
      /\ promise' = [k \in Keys |-> IF promise[k] > 0 THEN promise[k] - 1 ELSE promise[k]]
      /\ enforce' = enforce
    BY DEF Ra!Tick
<1>2. ASSUME NEW k \in Keys PROVE Recent(k)' = Ra!InWindow(Ra!Older(Ra!Known(k)))
  <2>1. Ra!Older(<<>>) = <<>>
    BY DEF Ra!Older
  <2>2. Ra!Known(k)' = IF k \in DOMAIN hits THEN Ra!Older(hits[k]) ELSE <<>>
    BY <1>1 DEF Ra!Known
  <2>3. Ra!Known(k)' = Ra!Older(Ra!Known(k))
    BY <2>1, <2>2 DEF Ra!Known
  <2> QED BY <2>3 DEF Recent
<1>3. LimitTypes'
  <2>1. \A k \in DOMAIN hits' : Aged(hits'[k])
    BY <1>0, <1>1, OlderHits DEF LimitTypes
  <2>2. \A k \in Keys : Aged(granted'[k]) /\ \A i \in DOMAIN granted'[k] : granted'[k][i] < Window
    <3> TAKE k \in Keys
    <3>1. Aged(Ra!Older(granted[k]))
      BY <1>0, OlderHits DEF LimitTypes
    <3>2. granted'[k] = Ra!InWindow(Ra!Older(granted[k]))
      BY <1>1
    <3> QED BY <3>1, <3>2, WindowOf
  <2>3. promise' \in [Keys -> Int]
    BY <1>0, <1>1 DEF LimitTypes
  <2>4. DOMAIN hits' = DOMAIN hits /\ DOMAIN granted' = Keys
    BY <1>1
  <2> QED BY <1>0, <1>1, <2>1, <2>2, <2>3, <2>4 DEF LimitTypes
<1>4. ASSUME NEW k \in Keys
      PROVE  /\ IsTail(Recent(k)', granted'[k])
             /\ Len(Recent(k)) = Len(granted[k]) => Len(Recent(k)') = Len(granted'[k])
             /\ Len(Recent(k)') <= Len(Recent(k))
             /\ Len(Recent(k)') = Len(Recent(k)) /\ Len(Recent(k)) > 0 => Recent(k)'[1] = Recent(k)[1] + 1
             /\ Len(Recent(k)') \in Nat /\ Len(Recent(k)) \in Nat
  <2>1. /\ Aged(Ra!Known(k)) /\ Aged(granted[k]) /\ IsTail(Ra!InWindow(Ra!Known(k)), granted[k])
        /\ \A i \in DOMAIN granted[k] : granted[k][i] < Window
    BY <1>0, RecentAged DEF LimitTypes, KnowsLatest, Recent
  <2>2. granted'[k] = Ra!InWindow(Ra!Older(granted[k])) /\ Recent(k) = Ra!InWindow(Ra!Known(k))
    BY <1>1 DEF Recent
  <2>3. Len(Recent(k)) \in Nat
    BY <1>0, RecentAged DEF Aged
  <2>4. Len(Ra!InWindow(Ra!Older(Ra!Known(k)))) \in Nat
    BY <2>1, OlderHits, WindowOf DEF Aged
  <2> QED BY <1>2, <2>1, <2>2, <2>3, <2>4, TailsAge
<1>5. KnowsLatest'
  <2> SUFFICES ASSUME NEW k \in Keys, k \notin forgotten' PROVE Len(Recent(k)') = Len(granted'[k])
      BY <1>4 DEF KnowsLatest
  <2>1. CASE k \in forgotten
    <3>1. granted'[k] = <<>>
      BY <1>1, <2>1
    <3>2. Len(Recent(k)') <= 0 /\ Len(granted'[k]) = 0
      BY <1>4, <3>1 DEF IsTail
    <3> QED BY <1>4, <3>2
  <2>2. CASE k \notin forgotten
    BY <1>0, <1>4, <2>2 DEF KnowsLatest
  <2> QED BY <2>1, <2>2
<1>6. NoneOverfull'
  <2> SUFFICES ASSUME enforce, NEW k \in Keys PROVE Len(Recent(k)') <= Requests
      BY <1>1 DEF NoneOverfull
  <2>1. Len(Recent(k)) <= Requests
    BY <1>0 DEF NoneOverfull
  <2> QED BY <1>4, <2>1, LimitConstants
<1>7. PromisesSuffice'
  <2> SUFFICES ASSUME NEW k \in Keys, promise'[k] >= 0
               PROVE  enforce' /\ (Len(Recent(k)') >= Requests => Recent(k)'[1] + promise'[k] > Window)
      BY DEF PromisesSuffice
  <2>1. promise'[k] \in Int /\ promise[k] \in Int /\ promise[k] >= 0 /\ promise'[k] >= promise[k] - 1
    BY <1>0, <1>1 DEF LimitTypes
  <2>2. enforce /\ (Len(Recent(k)) >= Requests => Recent(k)[1] + promise[k] > Window) /\ Len(Recent(k)) <= Requests
    BY <1>0, <2>1 DEF PromisesSuffice, NoneOverfull
  <2>3. ASSUME Len(Recent(k)') >= Requests PROVE Recent(k)'[1] + promise'[k] > Window
    <3>1. Len(Recent(k)') = Len(Recent(k)) /\ Len(Recent(k)) > 0 /\ Len(Recent(k)) >= Requests
      BY <1>4, <2>2, <2>3, LimitConstants
    <3>2. Recent(k)'[1] = Recent(k)[1] + 1 /\ Recent(k)[1] + promise[k] > Window
      BY <1>4, <2>2, <3>1
    <3>3. Recent(k)[1] \in Int
      <4>1. \A i \in 1 .. Len(Recent(k)) : Recent(k)[i] \in Int
        BY <1>0, RecentAged
      <4>2. 1 \in 1 .. Len(Recent(k))
        BY <1>4, <3>1
      <4> QED BY <4>1, <4>2
    <3> QED BY <2>1, <3>2, <3>3, LimitConstants
  <2> QED BY <1>1, <2>2, <2>3
<1> QED BY <1>3, <1>5, <1>6, <1>7 DEF LimitInv

\* Every call, every cleanup and every tick preserves the invariant of RateLimits.
LEMMA LimitInvNext == LimitInv /\ [Ra!LimitNext]_limitVars => LimitInv'
<1> SUFFICES ASSUME LimitInv, [Ra!LimitNext]_limitVars PROVE LimitInv'
    OBVIOUS
<1>1. CASE UNCHANGED limitVars
  <2>1. enforce' = enforce /\ hits' = hits /\ granted' = granted /\ forgotten' = forgotten /\ promise' = promise
    BY <1>1 DEF limitVars
  <2>2. \A k \in Keys : Recent(k)' = Recent(k)
    BY <2>1 DEF Recent, Ra!Known
  <2> QED BY <2>1, <2>2 DEF LimitInv, LimitTypes, KnowsLatest, NoneOverfull, PromisesSuffice
<1>2. CASE Ra!LimitNext
    BY <1>2, AdmitKeeps, RefuseKeeps, CleanupKeeps, TickKeeps DEF Ra!LimitNext
<1> QED BY <1>1, <1>2

\* What the limiter knows of a key that was not evicted is all it admitted within the window.
LEMMA LimitsAreKept == LimitInv => Ra!LimitHolds /\ Ra!RetryAfterHolds
<1> SUFFICES ASSUME LimitInv PROVE Ra!LimitHolds /\ Ra!RetryAfterHolds
    OBVIOUS
<1>0. LimitTypes /\ KnowsLatest /\ NoneOverfull /\ PromisesSuffice
    BY DEF LimitInv
<1>1. Ra!LimitHolds
  <2> SUFFICES ASSUME enforce, NEW k \in Keys \ forgotten PROVE Len(granted[k]) <= Requests
      BY DEF Ra!LimitHolds
  <2>1. Len(granted[k]) = Len(Recent(k)) /\ Len(Recent(k)) <= Requests
    BY <1>0 DEF KnowsLatest, NoneOverfull
  <2> QED BY <2>1
<1>2. Ra!RetryAfterHolds
  <2> SUFFICES ASSUME NEW k \in Keys, promise[k] = 0, Len(Recent(k)) >= Requests PROVE FALSE
      BY DEF Ra!RetryAfterHolds, Ra!Full, Recent
  <2>1. Recent(k)[1] + 0 > Window
    BY <1>0 DEF PromisesSuffice
  <2>2. /\ Aged(Recent(k)) /\ Len(Recent(k)) \in Nat /\ \A i \in 1 .. Len(Recent(k)) : Recent(k)[i] \in Int
        /\ \A i \in DOMAIN Recent(k) : Recent(k)[i] < Window
    BY <1>0, RecentAged
  <2>3. 1 \in 1 .. Len(Recent(k)) /\ DOMAIN Recent(k) = 1 .. Len(Recent(k))
    BY <2>2, LimitConstants DEF Aged
  <2>4. Recent(k)[1] < Window /\ Recent(k)[1] \in Int
    BY <2>2, <2>3
  <2> QED BY <2>1, <2>4, LimitConstants
<1> QED BY <1>1, <1>2

-----------------------------------------------------------------------------
(* The parts together. *)

ServicesInv ==
    /\ StartInv /\ UserInv /\ TeamInv /\ CollectInv /\ AutoInv /\ ReportInv /\ DelayInv
    /\ PagesInv /\ MoneyInv /\ LimitInv

\* The parts begin in their initial states.
LEMMA ServicesInvInit == PartsInit => ServicesInv
    BY StartInvInit, UserInvInit, TeamInvInit, CollectInvInit, AutoInvInit, ReportInvInit, DelayInvInit,
       PagesInvInit, MoneyInvInit, LimitInvInit
    DEF PartsInit, ServicesInv

\* A step of one part is a stutter of the others.
LEMMA PartsStep ==
    [PartsNext]_partsVars =>
        /\ [St!StartNext]_startVars /\ [Us!UserNext]_userVars /\ [Te!TeamNext]_teamVars
        /\ [Co!CollectNext]_collectVars /\ [Au!AutoNext]_autoVars /\ [Re!ReportNext]_reportVars
        /\ [Do!PagesNext]_pagesVars /\ [Ra!LimitNext]_limitVars
<1> SUFFICES ASSUME [PartsNext]_partsVars
             PROVE  /\ St!StartNext \/ UNCHANGED startVars
                    /\ Us!UserNext \/ UNCHANGED userVars
                    /\ Te!TeamNext \/ UNCHANGED teamVars
                    /\ Co!CollectNext \/ UNCHANGED collectVars
                    /\ Au!AutoNext \/ UNCHANGED autoVars
                    /\ Re!ReportNext \/ UNCHANGED reportVars
                    /\ Do!PagesNext \/ UNCHANGED pagesVars
                    /\ Ra!LimitNext \/ UNCHANGED limitVars
    OBVIOUS
<1>1. CASE UNCHANGED partsVars
    BY <1>1 DEF partsVars
<1>2. CASE PartsNext
  <2>1. OnlyItsPart
    BY <1>2 DEF PartsNext
  <2>2. (part = "startup" /\ St!StartNext) \/ UNCHANGED startVars
    BY <1>2, <2>1 DEF PartsNext, OnlyItsPart
  <2>3. (part \in {"balance", "profile"} /\ Us!UserNext) \/ UNCHANGED userVars
    BY <1>2, <2>1 DEF PartsNext, OnlyItsPart, Us!UserNext
  <2>4. (part = "team" /\ Te!TeamNext) \/ UNCHANGED teamVars
    BY <1>2, <2>1 DEF PartsNext, OnlyItsPart
  <2>5. (part = "collection" /\ Co!CollectNext) \/ UNCHANGED collectVars
    BY <1>2, <2>1 DEF PartsNext, OnlyItsPart
  <2>6. (part = "automation" /\ Au!AutoNext) \/ UNCHANGED autoVars
    BY <1>2, <2>1 DEF PartsNext, OnlyItsPart
  <2>7. (part = "reports" /\ Re!ReportNext) \/ UNCHANGED reportVars
    BY <1>2, <2>1 DEF PartsNext, OnlyItsPart
  <2>8. (part = "pages" /\ Do!PagesNext) \/ UNCHANGED pagesVars
    BY <1>2, <2>1 DEF PartsNext, OnlyItsPart
  <2>9. (part = "limits" /\ Ra!LimitNext) \/ UNCHANGED limitVars
    BY <1>2, <2>1 DEF PartsNext, OnlyItsPart
  <2> QED BY <2>2, <2>3, <2>4, <2>5, <2>6, <2>7, <2>8, <2>9
<1> QED BY <1>1, <1>2

\* Every step preserves the invariant of every part.
LEMMA ServicesInvNext == ServicesInv /\ [PartsNext]_partsVars => ServicesInv'
    BY PartsStep, StartInvNext, UserInvNext, TeamInvNext, CollectInvNext, AutoInvNext, ReportInvNext, DelayInvNext,
       PagesInvNext, MoneyInvNext, LimitInvNext
    DEF ServicesInv

\* The invariants of the eight parts hold in every reachable state.
THEOREM ServicesInvariant == PartsSpec => []ServicesInv
    BY ServicesInvInit, ServicesInvNext, PTL DEF PartsSpec

\* However many instances start at once, however many people sign in and accept
\* invitations at once: the credits of an older release move once, a new account is
\* welcomed once and an invitation lets one person in.
THEOREM GrantsAreOnce == PartsSpec => []NothingGrantedTwice
<1>1. StartInv => St!CreditsMovedOnce
    BY DEF StartInv
<1>2. TeamInv => Te!WelcomedOnce
    BY DEF TeamInv, AccountsWelcomed, Te!WelcomedOnce
<1>3. TeamInv => Te!JoinedOncePerInvite
    BY DEF TeamInv, TeamTyped, JoinsCounted, Te!JoinedOncePerInvite
<1>4. ServicesInv => NothingGrantedTwice
    BY <1>1, <1>2, <1>3 DEF ServicesInv, NothingGrantedTwice
<1> QED BY <1>4, ServicesInvariant, PTL

\* The caches of a user follow the row, the profile is that of the stored website, and a
\* job uses its own company's mentions, headers and industry, however many run at once.
THEOREM WhatIsKeptIsCurrent == PartsSpec => []KeptIsCurrent
<1>1. ServicesInv => KeptIsCurrent
    BY DEF ServicesInv, UserInv, CollectInv, KeptIsCurrent
<1> QED BY <1>1, ServicesInvariant, PTL

\* A record that says something was done is right: migrations run in order and once for each
\* instance that died, deliveries were received, rules acted on the accounts that match them,
\* and a link opens the document it was made for.
THEOREM RecordsAreRight == PartsSpec => []RecordsMatchEffects
<1>1. PagesInv => Do!LinkOpensItsDocument
    BY LinksOpenTheirs
<1>2. StartInv => St!FilesInOrder
  <2> SUFFICES ASSUME StartInv PROVE St!FilesInOrder
      OBVIOUS
  <2>1. /\ deaths \in Nat
        /\ \A m \in 1 .. Migrations : /\ executed[m] \in Nat /\ executed[m] <= deaths + 1
                                      /\ executed[m] > 0 => \A k \in 1 .. Migrations : k < m => k \in applied
    BY DEF StartInv, StartTypes, ExecutionsCounted
  <2> QED BY <2>1, StartConstants DEF St!FilesInOrder
<1>3. ReportInv => Re!RecordsAreTrue
    BY DEF ReportInv, Stands, Re!RecordsAreTrue
<1>4. AutoInv => Au!RulesActOnMatches
    BY RulesActOnTheirs
<1>5. AutoInv => Au!RulesAreIndependent
    BY DEF AutoInv
<1>6. ServicesInv => RecordsMatchEffects
    BY <1>1, <1>2, <1>3, <1>4, <1>5 DEF ServicesInv, RecordsMatchEffects
<1> QED BY <1>6, ServicesInvariant, PTL

\* However many jobs probe, no more requests are under way than the semaphore has permits.
THEOREM ProbesHavePermits == PartsSpec => []Co!ProbesAreLimited
<1>1. ServicesInv => Co!ProbesAreLimited
    BY DEF ServicesInv, CollectInv, PermitsHeld
<1> QED BY <1>1, ServicesInvariant, PTL

\* What is given out is limited and accounted for: calls in any window of a key that was not
\* evicted, an admission once a Retry-After has passed, 280 seconds of sleep for a delivery,
\* the permits of the probes, and every half credit paid for documents and contacts.
THEOREM LimitsAreHeld == PartsSpec => []LimitsHold
<1>1. ServicesInv => LimitsHold
  <2> SUFFICES ASSUME ServicesInv PROVE LimitsHold
      OBVIOUS
  <2>1. Ra!LimitHolds /\ Ra!RetryAfterHolds
    BY LimitsAreKept DEF ServicesInv
  <2>2. Re!DelayIsBounded
    BY DelaysAreShort DEF ServicesInv
  <2>3. Co!ProbesAreLimited
    BY DEF ServicesInv, CollectInv, PermitsHeld
  <2>4. Do!MoneyIsExplained
    BY MoneyIsAllExplained DEF ServicesInv
  <2> QED BY <2>1, <2>2, <2>3, <2>4 DEF LimitsHold
<1> QED BY <1>1, ServicesInvariant, PTL
=============================================================================
