---------------------------- MODULE DocumentsProofs ----------------------------
(* Proofs about the modules whose operations work on documents of single       *)
(* collections: the locking of administrators, the registry with its pages and *)
(* favourites, and the documents that belong to a user.                        *)
EXTENDS AdminLock, Catalogue, Records, FiniteSetTheorems, TLAPS

-------------------------------------------------------------------------------
(* Administrators, for any finite set of them and any number of requests.      *)

LEMMA InitLockInv == Init => LockInv
<1> SUFFICES ASSUME Init PROVE LockInv
    OBVIOUS
<1>1. overlapped \in BOOLEAN
    BY DEF Init
<1>2. active \in SUBSET Admins /\ active \notin {{}}
    BY DEF Init
<1>3. TypeOK
    BY <1>1, <1>2 DEF Init, TypeOK
<1>4. Busy = {} /\ \A r \in Requests : pc[r] = "idle"
    BY DEF Init, Busy
<1> QED
    BY <1>2, <1>3, <1>4 DEF LockInv

(* Counting more than one active administrator means that one is left when any *)
(* single one is locked.                                                       *)
LEMMA AnotherIsActive ==
    ASSUME NEW S \in SUBSET Admins, ~(Cardinality(S) <= 1), NEW a
    PROVE  S \ {a} # {}
<1> SUFFICES ASSUME S \ {a} = {} PROVE FALSE
    OBVIOUS
<1>1. IsFiniteSet(S)
    BY AdminsAreFinite, FS_Subset
<1>2. S \subseteq {a}
    OBVIOUS
<1>3. IsFiniteSet({a}) /\ Cardinality({a}) = 1
    BY FS_Singleton
<1>4. Cardinality(S) <= Cardinality({a})
    BY <1>2, <1>3, FS_Subset
<1> QED
    BY <1>3, <1>4

LEMMA ReadKeeps ==
    ASSUME LockInv, NEW r \in Requests, NEW actor \in Admins, NEW admin \in Admins,
           ReadTarget(r, actor, admin)
    PROVE  LockInv'
<1>1. TypeOK'
    BY DEF LockInv, TypeOK, ReadTarget, Go
<1>2. ASSUME ~overlapped'
      PROVE  /\ active' # {}
             /\ \A p, q \in Busy' : p = q
             /\ \A s \in Requests : pc'[s] = "set" => active' \ {target'[s]} # {}
  <2>1. ~overlapped /\ Busy = {} /\ active' = active
      BY <1>2 DEF ReadTarget
  <2>2. active # {}
      BY <2>1 DEF LockInv
  <2>3. \A s \in Requests \ {r} : pc'[s] = "idle"
      BY <2>1 DEF ReadTarget, Go, Busy, LockInv, TypeOK
  <2>4. pc'[r] = "set" => admin \notin active /\ target'[r] = admin
      BY DEF ReadTarget, Go, LockInv, TypeOK
  <2> QED
      BY <2>1, <2>2, <2>3, <2>4 DEF Busy
<1> QED
    BY <1>1, <1>2 DEF LockInv

(* What any later step of a request does: it never makes an idle request busy. *)
LEMMA NoNewRequest ==
    ASSUME LockInv, NEW r \in Requests, NEW to, NEW admin, Go(r, to, admin), pc[r] # "idle"
    PROVE  Busy' \subseteq Busy
    BY DEF Go, Busy, LockInv, TypeOK

LEMMA CountKeeps ==
    ASSUME LockInv, NEW r \in Requests, CountActiveAdmins(r)
    PROVE  LockInv'
<1>1. TypeOK'
    BY NoneIsNoAdmin DEF LockInv, TypeOK, CountActiveAdmins, Done, Go
<1>2. Busy' \subseteq Busy
    BY NoNewRequest DEF CountActiveAdmins, Done
<1>3. ASSUME ~overlapped'
      PROVE  /\ active' # {}
             /\ \A p, q \in Busy' : p = q
             /\ \A s \in Requests : pc'[s] = "set" => active' \ {target'[s]} # {}
  <2>1. ~overlapped /\ active' = active
      BY <1>3 DEF CountActiveAdmins
  <2>2. \A s \in Requests : pc'[s] = "set" => active \ {target'[s]} # {}
    <3> SUFFICES ASSUME NEW s \in Requests, pc'[s] = "set"
                 PROVE  active \ {target'[s]} # {}
        OBVIOUS
    <3>1. CASE s = r
      <4>1. ~(Cardinality(active) <= 1)
          BY <3>1 DEF CountActiveAdmins, Done, Go, LockInv, TypeOK
      <4> QED
          BY <4>1, AnotherIsActive DEF LockInv, TypeOK
    <3>2. CASE s # r
        BY <2>1, <3>2 DEF CountActiveAdmins, Done, Go, LockInv, TypeOK
    <3> QED
        BY <3>1, <3>2
  <2> QED
      BY <1>2, <2>1, <2>2 DEF LockInv
<1> QED
    BY <1>1, <1>3 DEF LockInv

LEMMA LockKeeps ==
    ASSUME LockInv, NEW r \in Requests, Lock(r)
    PROVE  LockInv'
<1>1. TypeOK'
    BY NoneIsNoAdmin DEF LockInv, TypeOK, Lock, Done, Go
<1>2. ASSUME ~overlapped'
      PROVE  /\ active' # {}
             /\ \A p, q \in Busy' : p = q
             /\ \A s \in Requests : pc'[s] = "set" => active' \ {target'[s]} # {}
  <2>1. ~overlapped /\ pc[r] = "set" /\ active' = active \ {target[r]}
      BY <1>2 DEF Lock
  <2>2. active' # {}
      BY <2>1 DEF LockInv
  <2>3. \A s \in Requests : pc'[s] = "idle"
    <3>1. pc'[r] = "idle"
        BY DEF Lock, Done, Go, LockInv, TypeOK
    <3>2. \A s \in Requests \ {r} : pc'[s] = pc[s]
        BY DEF Lock, Done, Go, LockInv, TypeOK
    <3>3. \A s \in Requests \ {r} : pc[s] = "idle"
        BY <2>1 DEF LockInv, Busy
    <3> QED
        BY <3>1, <3>2, <3>3
  <2> QED
      BY <2>2, <2>3 DEF Busy
<1> QED
    BY <1>1, <1>2 DEF LockInv

LEMMA FailKeeps ==
    ASSUME LockInv, NEW r \in Requests, Fail(r)
    PROVE  LockInv'
<1>1. TypeOK'
    BY NoneIsNoAdmin DEF LockInv, TypeOK, Fail, Done, Go
<1>2. Busy' \subseteq Busy
    BY NoNewRequest DEF Fail, Done
<1>3. \A s \in Requests : pc'[s] = "set" => pc[s] = "set" /\ target'[s] = target[s]
    BY DEF LockInv, TypeOK, Fail, Done, Go
<1> QED
    BY <1>1, <1>2, <1>3 DEF LockInv, Fail

(* Logins and expiries touch only the tokens, and an unlock only adds to the   *)
(* active administrators.                                                      *)
LEMMA OthersKeep ==
    ASSUME LockInv, NEW a \in Admins, NEW b \in Admins,
           LogIn(a) \/ TokenExpires(a) \/ Unlock(a, b) \/ UNCHANGED vars
    PROVE  LockInv'
<1>1. /\ active \subseteq active'
      /\ active' \subseteq Admins
      /\ tokens' \subseteq Admins
      /\ UNCHANGED <<pc, target, overlapped>>
    BY DEF LockInv, TypeOK, LogIn, TokenExpires, Unlock, vars
<1> QED
    BY <1>1 DEF LockInv, TypeOK, Busy

LEMMA LockStep ==
    ASSUME LockInv, [Next]_vars
    PROVE  LockInv'
<1>1. ASSUME NEW r \in Requests,
             \/ \E a, b \in Admins : ReadTarget(r, a, b)
             \/ CountActiveAdmins(r) \/ Lock(r) \/ Fail(r)
      PROVE  LockInv'
    BY <1>1, ReadKeeps, CountKeeps, LockKeeps, FailKeeps
<1>2. ASSUME NEW a \in Admins, NEW b \in Admins,
             LogIn(a) \/ TokenExpires(a) \/ Unlock(a, b)
      PROVE  LockInv'
    BY <1>2, OthersKeep
<1>3. CASE UNCHANGED vars
    BY <1>3 DEF vars, LockInv, TypeOK, Busy
<1> QED
    BY <1>1, <1>2, <1>3 DEF Next

(* For any number of administrators and requests, the check for the last       *)
(* active administrator holds good while lock requests come one at a time.     *)
THEOREM LastAdmin == Spec => []LastAdminStaysAlone
<1>1. LockInv => LastAdminStaysAlone
    BY DEF LockInv, LastAdminStaysAlone
<1> QED
    BY <1>1, InitLockInv, LockStep, PTL DEF Spec
-------------------------------------------------------------------------------
(* The registry and the favourites: their keys are unique, and concurrent      *)
(* writes change only what they name, for any number of applications, users    *)
(* and requests in flight.                                                     *)

(* What a create request writes is an application.                             *)
LEMMA CompleteBodyIsApp ==
    ASSUME NEW body \in Bodies, Complete(body), body.categoryId \in Categories
    PROVE  NewApp(body) \in App
<1>1. body \in Body
    BY CatalogueAssumption
<1>2. /\ body.name # Undefined /\ body.status # Undefined
      /\ body.requiredRoles # Undefined /\ body.details # Undefined
    BY <1>1 DEF Complete, Body
<1> QED
    BY <1>1, <1>2 DEF Body, App, NewApp

(* What an update writes is an application, whatever the body leaves out.      *)
LEMMA UpdatedIsApp ==
    ASSUME NEW app \in App, NEW body \in Bodies,
           body.categoryId \in Categories \cup {Undefined}
    PROVE  Updated(app, body) \in App
<1>1. body \in Body
    BY CatalogueAssumption
<1> QED
    BY <1>1 DEF Updated, Chosen, Body, App

(* Initially nothing is stored.                                                *)
LEMMA CatalogueInitInv == CatalogueInit => CatalogueInv
<1> SUFFICES ASSUME CatalogueInit PROVE CatalogueInv
    OBVIOUS
<1>1. CatalogueTypeOK
    BY CatalogueAssumption DEF CatalogueInit, CatalogueTypeOK, Edit, Idle
<1>2. UniqueNames /\ OneFavorite
    BY DEF CatalogueInit, UniqueNames, OneFavorite, Stored
<1>3. EditsAreChecked
    BY DEF CatalogueInit, EditsAreChecked, Idle
<1> QED
    BY <1>1, <1>2, <1>3 DEF CatalogueInv

(* A step that only moves one request along keeps the invariant when the new   *)
(* place of the request has what it needs.                                     *)
LEMMA WaitKeepsInv ==
    ASSUME CatalogueInv, NEW e \in Editors, NEW r \in Edit,
           edits' = [edits EXCEPT ![e] = r],
           UNCHANGED <<apps, favorites, roleOf, now, adding>>,
           r.at # "idle" => r.body \in Bodies,
           r.at \in {"createCategory", "insert"} => Complete(r.body),
           r.at = "insert" => r.body.categoryId \in Categories,
           r.at \in {"name", "category", "write"} => r.app \in Stored,
           r.at = "write" => r.body.categoryId \in Categories \cup {Undefined}
    PROVE  CatalogueInv'
<1>1. CatalogueTypeOK'
    BY DEF CatalogueInv, CatalogueTypeOK
<1>2. UniqueNames' /\ OneFavorite'
    BY DEF CatalogueInv, UniqueNames, OneFavorite, Stored
<1>3. Stored' = Stored
    BY DEF Stored
<1>4. ASSUME NEW f \in Editors PROVE edits'[f] = IF f = e THEN r ELSE edits[f]
    BY DEF CatalogueInv, CatalogueTypeOK
<1>5. EditsAreChecked'
    BY <1>3, <1>4 DEF CatalogueInv, EditsAreChecked
<1> QED
    BY <1>1, <1>2, <1>5 DEF CatalogueInv

(* A request that is answered needs nothing.                                   *)
LEMMA AnswerKeepsInv ==
    ASSUME CatalogueInv, NEW e \in Editors, Answer(e),
           UNCHANGED <<apps, favorites, roleOf, now, adding>>
    PROVE  CatalogueInv'
<1>1. Idle \in Edit /\ Idle.at = "idle"
    BY DEF Idle, Edit
<1> QED
    BY <1>1, WaitKeepsInv DEF Answer

(* A write of one document that the index allows, after which its request is   *)
(* answered.                                                                   *)
LEMMA WriteKeepsInv ==
    ASSUME CatalogueInv, NEW e \in Editors, NEW a \in Apps, NEW app \in App,
           apps' = IF IndexAllows(app.name, a) THEN [apps EXCEPT ![a] = app]
                   ELSE apps,
           Answer(e), UNCHANGED <<favorites, roleOf, now, adding>>
    PROVE  CatalogueInv'
<1>1. CASE ~IndexAllows(app.name, a)
    BY <1>1, AnswerKeepsInv
<1>2. CASE IndexAllows(app.name, a)
    <2>1. /\ apps' = [apps EXCEPT ![a] = app]
          /\ \A b \in Apps : apps'[b] = IF b = a THEN app ELSE apps[b]
        BY <1>2 DEF CatalogueInv, CatalogueTypeOK
    <2>2. Idle \in Edit /\ Idle.at = "idle"
        BY DEF Idle, Edit
    <2>3. \A f \in Editors : edits'[f] = IF f = e THEN Idle ELSE edits[f]
        BY DEF Answer, CatalogueInv, CatalogueTypeOK
    <2>4. CatalogueTypeOK'
        BY <2>1, <2>2 DEF CatalogueInv, CatalogueTypeOK, Answer
    <2>5. Stored' = Stored \cup {a}
        BY <2>1, CatalogueAssumption DEF Stored
    <2>6. \A b \in Stored \ {a} : apps[b].name # app.name
        BY <1>2 DEF IndexAllows, existsByNameExcludingId
    <2>7. UniqueNames'
        BY <2>1, <2>5, <2>6 DEF CatalogueInv, UniqueNames, Stored
    <2>8. OneFavorite'
        BY DEF CatalogueInv, OneFavorite
    <2>9. EditsAreChecked'
        BY <2>2, <2>3, <2>5 DEF CatalogueInv, EditsAreChecked
    <2> QED
        BY <2>4, <2>7, <2>8, <2>9 DEF CatalogueInv
<1> QED
    BY <1>1, <1>2

(* Steps of administrators.                                                    *)
LEMMA EditKeepsInv ==
    ASSUME CatalogueInv, NEW e \in Editors, EditNext(e)
    PROVE  CatalogueInv'
<1> DEFINE r == edits[e]
<1>0. /\ r \in Edit /\ apps \in [Apps -> App \cup {NoApp}]
      /\ NoApp \notin App
    BY CatalogueAssumption DEF CatalogueInv, CatalogueTypeOK
<1>1. ASSUME NEW body \in Bodies, CreateApp(e, body) PROVE CatalogueInv'
    <2>1. [at |-> "createCategory", app |-> NoApp, body |-> body] \in Edit
        BY DEF Edit
    <2> QED
        BY <1>1, <2>1, WaitKeepsInv DEF CreateApp, Wait
<1>2. ASSUME NEW a \in Apps, NEW body \in Bodies, UpdateApp(e, a, body)
      PROVE  CatalogueInv'
    <2>1. CASE body.name \notin {Undefined, apps[a].name}
        <3>1. [at |-> "name", app |-> a, body |-> body] \in Edit
            BY DEF Edit
        <3> QED
            BY <1>2, <2>1, <3>1, WaitKeepsInv DEF UpdateApp, Wait
    <2>2. CASE body.name \in {Undefined, apps[a].name} /\ body.categoryId # Undefined
        <3>1. [at |-> "category", app |-> a, body |-> body] \in Edit
            BY DEF Edit
        <3> QED
            BY <1>2, <2>2, <3>1, WaitKeepsInv DEF UpdateApp, Wait, AfterName
    <2>3. CASE body.name \in {Undefined, apps[a].name} /\ body.categoryId = Undefined
        <3>1. [at |-> "write", app |-> a, body |-> body] \in Edit
            BY DEF Edit
        <3> QED
            BY <1>2, <2>3, <3>1, WaitKeepsInv DEF UpdateApp, Wait, AfterName
    <2> QED
        BY <2>1, <2>2, <2>3
<1>3. ASSUME CheckCreateCategory(e) PROVE CatalogueInv'
    <2>1. r.body \in Bodies /\ Complete(r.body)
        BY <1>3 DEF CheckCreateCategory, CatalogueInv, EditsAreChecked
    <2>2. CASE existsById(r.body.categoryId)
        <3>1. [at |-> "insert", app |-> NoApp, body |-> r.body] \in Edit
            BY <2>1 DEF Edit
        <3> QED
            BY <1>3, <2>1, <2>2, <3>1, WaitKeepsInv
               DEF CheckCreateCategory, Wait, existsById
    <2>3. CASE ~existsById(r.body.categoryId)
        BY <1>3, <2>3, AnswerKeepsInv DEF CheckCreateCategory
    <2> QED
        BY <2>2, <2>3
<1>4. ASSUME InsertApp(e) PROVE CatalogueInv'
    <2> DEFINE app == NewApp(r.body)
    <2>1. app \in App
        BY <1>4, CompleteBodyIsApp
        DEF InsertApp, CatalogueInv, EditsAreChecked
    <2>2. PICK a \in Apps \ Stored :
             apps' = IF IndexAllows(app.name, a)
                     THEN [apps EXCEPT ![a] = app] ELSE apps
        BY <1>4 DEF InsertApp
    <2> HIDE DEF app
    <2> QED
        BY <1>4, <2>1, <2>2, WriteKeepsInv DEF InsertApp
<1>5. ASSUME CheckName(e) PROVE CatalogueInv'
    <2>1. r.body \in Bodies /\ r.app \in Stored /\ r.app \in Apps
        BY <1>5 DEF CheckName, CatalogueInv, EditsAreChecked, Stored
    <2>2. CASE existsByNameExcludingId(r.body.name, r.app)
        BY <1>5, <2>2, AnswerKeepsInv DEF CheckName
    <2>3. CASE ~existsByNameExcludingId(r.body.name, r.app)
        <3>1. [at |-> "category", app |-> r.app, body |-> r.body] \in Edit
            BY <2>1 DEF Edit
        <3>2. [at |-> "write", app |-> r.app, body |-> r.body] \in Edit
            BY <2>1 DEF Edit
        <3>3. CASE r.body.categoryId # Undefined
            BY <1>5, <2>1, <2>3, <3>1, <3>3, WaitKeepsInv
               DEF CheckName, Wait, AfterName
        <3>4. CASE r.body.categoryId = Undefined
            BY <1>5, <2>1, <2>3, <3>2, <3>4, WaitKeepsInv
               DEF CheckName, Wait, AfterName
        <3> QED
            BY <3>3, <3>4
    <2> QED
        BY <2>2, <2>3
<1>6. ASSUME CheckCategory(e) PROVE CatalogueInv'
    <2>1. r.body \in Bodies /\ r.app \in Stored /\ r.app \in Apps
        BY <1>6 DEF CheckCategory, CatalogueInv, EditsAreChecked, Stored
    <2>2. CASE existsById(r.body.categoryId)
        <3>1. [at |-> "write", app |-> r.app, body |-> r.body] \in Edit
            BY <2>1 DEF Edit
        <3> QED
            BY <1>6, <2>1, <2>2, <3>1, WaitKeepsInv
               DEF CheckCategory, Wait, existsById
    <2>3. CASE ~existsById(r.body.categoryId)
        BY <1>6, <2>3, AnswerKeepsInv DEF CheckCategory
    <2> QED
        BY <2>2, <2>3
<1>7. ASSUME WriteApp(e) PROVE CatalogueInv'
    <2> DEFINE app == Updated(apps[r.app], r.body)
    <2>1. /\ r.app \in Apps /\ apps[r.app] \in App /\ r.body \in Bodies
          /\ r.body.categoryId \in Categories \cup {Undefined}
        BY <1>0, <1>7 DEF WriteApp, CatalogueInv, EditsAreChecked, Stored
    <2>2. app \in App
        BY <2>1, UpdatedIsApp
    <2>3. apps' = IF IndexAllows(app.name, r.app)
                  THEN [apps EXCEPT ![r.app] = app] ELSE apps
        BY <1>7 DEF WriteApp
    <2> HIDE DEF app
    <2> QED
        BY <1>7, <2>1, <2>2, <2>3, WriteKeepsInv DEF WriteApp
<1>8. ASSUME EditFails(e) PROVE CatalogueInv'
    BY <1>8, AnswerKeepsInv DEF EditFails
<1> QED
    BY <1>1, <1>2, <1>3, <1>4, <1>5, <1>6, <1>7, <1>8 DEF EditNext

(* What an insert leaves: the index refuses a second favourite of the same.     *)
LEMMA InsertedIsNew ==
    ASSUME CatalogueInv, NEW u \in Users, NEW a \in Apps, InsertFavorite(u, a)
    PROVE  /\ favorites' \subseteq Favorite /\ OneFavorite'
           /\ FavoritesKeepOrder
<1> DEFINE new == [userId |-> u, webAppId |-> a, createdAt |-> now]
<1>1. favorites \subseteq Favorite /\ now \in 0..MaxTime /\ OneFavorite
    BY DEF CatalogueInv, CatalogueTypeOK
<1>2. CASE ~FavoriteIndexAllows(u, a)
    <2>1. favorites' = favorites
        BY <1>2 DEF InsertFavorite
    <2> QED
        BY <1>1, <2>1 DEF OneFavorite, FavoritesKeepOrder
<1>3. CASE FavoriteIndexAllows(u, a)
    <2>1. favorites' = favorites \cup {new}
        BY <1>3 DEF InsertFavorite
    <2>2. new \in Favorite /\ new.userId = u /\ new.webAppId = a
        BY <1>1 DEF Favorite
    <2>3. \A d \in favorites : ~(d.userId = u /\ d.webAppId = a)
        BY <1>3 DEF FavoriteIndexAllows, Matching
    <2> HIDE DEF new
    <2> QED
        BY <1>1, <2>1, <2>2, <2>3 DEF OneFavorite, FavoritesKeepOrder
<1> QED
    BY <1>2, <1>3

(* Steps of users leave the registry alone.                                    *)
LEMMA FavoriteKeepsInv ==
    ASSUME CatalogueInv, FavoriteNext
    PROVE  CatalogueInv'
<1> DEFINE Clicks == [userId : Users, webAppId : Apps, at : Upsert]
<1>1. UNCHANGED <<apps, edits, roleOf>>
    BY DEF FavoriteNext, AddFavorite, MatchFavorite, InsertFavorite,
           RemoveFavorite, AddFails, Tick
<1>2. UniqueNames' /\ EditsAreChecked'
    BY <1>1 DEF CatalogueInv, UniqueNames, EditsAreChecked, Stored
<1>3. /\ favorites \subseteq Favorite /\ now \in 0..MaxTime /\ MaxTime \in Nat
      /\ adding \subseteq Clicks /\ OneFavorite
    BY CatalogueAssumption DEF CatalogueInv, CatalogueTypeOK
<1>4. /\ favorites' \subseteq Favorite /\ adding' \subseteq Clicks
      /\ now' \in 0..MaxTime /\ OneFavorite'
    <2>1. CASE Tick
        BY <1>3, <2>1 DEF Tick, OneFavorite
    <2>2. ASSUME NEW u \in Users, NEW a \in Apps, InsertFavorite(u, a)
          PROVE  /\ favorites' \subseteq Favorite /\ adding' \subseteq Clicks
                 /\ now' = now /\ OneFavorite'
        BY <1>3, <2>2, InsertedIsNew DEF InsertFavorite
    <2>3. ASSUME NEW u \in Users, NEW a \in Apps,
                 AddFavorite(u, a) \/ MatchFavorite(u, a)
          PROVE  /\ favorites' \subseteq Favorite /\ adding' \subseteq Clicks
                 /\ now' = now /\ OneFavorite'
        <3>1. /\ Adding(u, a, "match") \in Clicks
              /\ Adding(u, a, "insert") \in Clicks
            BY DEF Adding, Upsert
        <3>2. favorites' = favorites /\ now' = now
            BY <2>3 DEF AddFavorite, MatchFavorite
        <3>3. adding' \subseteq Clicks
            BY <1>3, <2>3, <3>1 DEF AddFavorite, MatchFavorite
        <3> QED
            BY <1>3, <3>2, <3>3 DEF OneFavorite
    <2>4. ASSUME NEW u \in Users, NEW a \in Apps,
                 RemoveFavorite(u, a) \/ AddFails(u, a)
          PROVE  /\ favorites' \subseteq Favorite /\ adding' \subseteq Clicks
                 /\ now' = now /\ OneFavorite'
        BY <1>3, <2>4 DEF RemoveFavorite, AddFails, OneFavorite, Matching
    <2> QED
        BY <1>3, <2>1, <2>2, <2>3, <2>4 DEF FavoriteNext
<1>5. CatalogueTypeOK'
    BY <1>1, <1>4 DEF CatalogueInv, CatalogueTypeOK
<1> QED
    BY <1>2, <1>4, <1>5 DEF CatalogueInv

(* Names of applications and favourites stay unique, however requests that     *)
(* have asked before they write interleave.                                    *)
THEOREM CatalogueKeepsKeys == CatalogueSpec => []CatalogueInv
<1>1. CatalogueInv /\ [CatalogueNext]_catalogueVars => CatalogueInv'
    <2> SUFFICES ASSUME CatalogueInv, [CatalogueNext]_catalogueVars
                 PROVE  CatalogueInv'
        OBVIOUS
    <2>1. CASE UNCHANGED catalogueVars
        BY <2>1 DEF catalogueVars, CatalogueInv, CatalogueTypeOK, UniqueNames,
                    OneFavorite, EditsAreChecked, Stored
    <2> QED
        BY <2>1, EditKeepsInv, FavoriteKeepsInv DEF CatalogueNext
<1> QED
    BY <1>1, CatalogueInitInv, PTL DEF CatalogueSpec

(* Of two concurrent edits neither undoes fields of the other, and no click    *)
(* moves a favourite that is stored.                                           *)
THEOREM WritesAreNarrow == CatalogueSpec => WritesStayNarrow
<1>1. ASSUME CatalogueInv, [CatalogueNext]_catalogueVars
      PROVE  FavoritesKeepOrder
    <2>1. OneFavorite /\ favorites \subseteq Favorite
        BY <1>1 DEF CatalogueInv, CatalogueTypeOK
    <2>2. ASSUME NEW u \in Users, NEW a \in Apps, InsertFavorite(u, a)
          PROVE  FavoritesKeepOrder
        BY <1>1, <2>2, InsertedIsNew
    <2>3. CASE favorites' \subseteq favorites
        BY <2>1, <2>3 DEF OneFavorite, FavoritesKeepOrder
    <2>4. \/ favorites' \subseteq favorites
          \/ \E u \in Users, a \in Apps : InsertFavorite(u, a)
        BY <1>1 DEF CatalogueNext, FavoriteNext, EditNext, catalogueVars,
                    AddFavorite, MatchFavorite, RemoveFavorite, AddFails, Tick,
                    Matching,
                    CreateApp, UpdateApp, CheckCreateCategory, InsertApp,
                    CheckName, CheckCategory, WriteApp, EditFails
    <2> QED
        BY <2>2, <2>3, <2>4
<1>2. ASSUME CatalogueInv, [CatalogueNext]_catalogueVars
      PROVE  NoLostUpdate
    <2> SUFFICES ASSUME NEW a \in Stored, NEW field \in DOMAIN apps[a],
                        apps'[a][field] # apps[a][field]
                 PROVE  \E e \in Editors :
                            /\ edits[e].at = "write" /\ edits[e].app = a
                            /\ edits[e].body[field] = apps'[a][field]
        BY DEF NoLostUpdate
    <2>1. apps \in [Apps -> App \cup {NoApp}] /\ a \in Apps /\ apps[a] \in App
        BY <1>2 DEF CatalogueInv, CatalogueTypeOK, Stored
    <2>2. field \in {"name", "categoryId", "status", "requiredRoles", "details"}
        BY <2>1 DEF App
    <2>3. PICK e \in Editors : InsertApp(e) \/ WriteApp(e)
        BY <1>2, <2>1 DEF CatalogueNext, FavoriteNext, EditNext, catalogueVars,
                    AddFavorite, MatchFavorite, InsertFavorite, RemoveFavorite,
                    AddFails, Tick,
                    CreateApp, UpdateApp, CheckCreateCategory,
                    CheckName, CheckCategory, EditFails
    <2>4. ~InsertApp(e)
        BY <2>1 DEF InsertApp, Stored
    <2>5. WriteApp(e)
        BY <2>3, <2>4
    <2> DEFINE body == edits[e].body
    <2>6. apps' = [apps EXCEPT ![edits[e].app] = Updated(apps[edits[e].app], body)]
        BY <2>5 DEF WriteApp
    <2>7. edits[e].app = a /\ apps'[a] = Updated(apps[a], body)
        BY <2>1, <2>6
    <2>8. body[field] = apps'[a][field]
        BY <2>1, <2>2, <2>7 DEF Updated, Chosen, App
    <2> QED
        BY <2>5, <2>7, <2>8 DEF WriteApp
<1> QED
    BY <1>1, <1>2, CatalogueKeepsKeys, PTL DEF CatalogueSpec, WritesStayNarrow
-------------------------------------------------------------------------------
(* Pages.                                                                      *)

(* Pages do not overlap: a later one begins after an earlier one's end.        *)
LEMMA LaterPagesSkipMore ==
    ASSUME NEW limit \in Nat, NEW p \in Nat, NEW q \in Nat, p < q
    PROVE  Skip(p, limit) + limit <= Skip(q, limit)
<1>1. PICK k \in Nat : q = p + 1 + k
  <2>1. q - p - 1 \in Nat /\ q = p + 1 + (q - p - 1)
    OBVIOUS
  <2> QED
    BY <2>1
<1>2. (q - 1) * limit = (p - 1) * limit + limit + k * limit
  BY <1>1
<1>3. k * limit \in Nat
  OBVIOUS
<1> QED
  BY <1>2, <1>3 DEF Skip

(* TotalPages rounds up: none of nothing, else just enough.                    *)
LEMMA TotalPagesRoundsUp ==
    ASSUME NEW total \in Nat, NEW limit \in Nat \ {0}
    PROVE  LET pages == TotalPages(total, limit)
           IN  /\ pages \in Nat
               /\ total # 0 => /\ pages # 0
                              /\ total <= Skip(pages, limit) + limit
                              /\ Skip(pages, limit) < total
<1> DEFINE pages == TotalPages(total, limit)
           m == total + limit - 1
<1>1. m \in Nat /\ pages = m \div limit
    BY DEF TotalPages
<1> HIDE DEF pages, m
<1>2. /\ m \div limit \in Nat
      /\ limit * (m \div limit) <= m
      /\ m < limit * (m \div limit) + limit
  BY <1>1
<1>3. CASE total # 0
  <2>1. pages \in Nat \ {0}
    BY <1>1, <1>2, <1>3 DEF m
  <2>2. Skip(pages, limit) + limit = limit * pages
    BY <2>1 DEF Skip
  <2>3. total <= Skip(pages, limit) + limit /\ Skip(pages, limit) < total
    BY <1>1, <1>2, <2>1, <2>2 DEF m, Skip
  <2> QED
    BY <2>1, <2>3 DEF pages
<1> QED
  BY <1>1, <1>2, <1>3 DEF pages

(* An item of a sequence is on the page its place divides to.                  *)
LEMMA PlaceHasPage ==
    ASSUME NEW limit \in Nat \ {0}, NEW total \in Nat, NEW i \in 1..total
    PROVE  \E p \in 1..TotalPages(total, limit) :
              Skip(p, limit) + 1 <= i /\ i <= Skip(p, limit) + limit
<1> DEFINE p == (i - 1) \div limit + 1
           pages == TotalPages(total, limit)
<1>1. /\ (i - 1) \div limit \in Nat
      /\ limit * ((i - 1) \div limit) <= i - 1
      /\ i - 1 < limit * ((i - 1) \div limit) + limit
  <2>1. i - 1 \in Nat
    OBVIOUS
  <2> QED
    BY <2>1
<1>2. p \in Nat \ {0} /\ Skip(p, limit) = limit * ((i - 1) \div limit)
  BY <1>1 DEF Skip
<1>3. Skip(p, limit) + 1 <= i /\ i <= Skip(p, limit) + limit
  <2>1. Skip(p, limit) \in Nat
    BY <1>1, <1>2
  <2> QED
    BY <1>1, <1>2, <2>1
<1>4. pages \in Nat \ {0} /\ total <= Skip(pages, limit) + limit
  <2>1. total # 0
    OBVIOUS
  <2> QED
    BY <2>1, TotalPagesRoundsUp
<1> HIDE DEF p, pages
<1>5. p <= pages
  <2> SUFFICES ASSUME pages < p PROVE FALSE
    BY <1>2, <1>4
  <2>1. Skip(pages, limit) + limit <= Skip(p, limit)
    BY <1>2, <1>4, LaterPagesSkipMore
  <2>2. Skip(pages, limit) \in Int /\ Skip(p, limit) \in Int
    BY <1>2, <1>4 DEF Skip
  <2> QED
    BY <1>3, <1>4, <2>1, <2>2
<1> QED
  BY <1>2, <1>3, <1>4, <1>5 DEF pages

(* The places that a page shows, and what it shows.                            *)
PlacesOn(n, p, limit) ==
    {k \in 1..n : Skip(p, limit) + 1 <= k /\ k <= Skip(p, limit) + limit}

ItemsOn(s, p, limit) ==
    {PageOf(s, p, limit)[i] : i \in DOMAIN PageOf(s, p, limit)}

LEMMA ItemsOnPage ==
    ASSUME NEW S, NEW s \in Seq(S), NEW n \in Nat, Len(s) = n,
           NEW limit \in Nat \ {0}, NEW p \in Nat \ {0}
    PROVE  \A x : x \in ItemsOn(s, p, limit)
                 <=> \E j \in PlacesOn(n, p, limit) : x = s[j]
<1> DEFINE skip == Skip(p, limit)
           last == Least(skip + limit, Len(s))
           places == {k \in 1..n : skip + 1 <= k /\ k <= skip + limit}
<1>1. skip \in Nat
  <2>1. p - 1 \in Nat
    OBVIOUS
  <2> QED
    BY <2>1 DEF Skip
<1>2. s \in Seq(S) /\ Len(s) = n
  OBVIOUS
<1>3. PageOf(s, p, limit) = SubSeq(s, skip + 1, last)
  BY DEF PageOf
<1>4. last \in Nat /\ \A k \in 1..n : k <= last <=> k <= skip + limit
  BY <1>1, <1>2 DEF Least
<1>5. last <= n
  BY <1>1, <1>2 DEF Least
<1> HIDE DEF skip, last
<1>6. SubSeq(s, skip + 1, last)
      = [i \in 1..((last - (skip + 1)) + 1) |-> s[i + (skip + 1) - 1]]
  BY <1>1, <1>2, <1>4
<1> DEFINE page == [i \in 1..(last - skip) |-> s[i + skip]]
<1>7. PageOf(s, p, limit) = page
  BY <1>1, <1>3, <1>4, <1>6
<1>8. \A i \in 1..(last - skip) : i + skip \in places
  BY <1>1, <1>4, <1>5
<1>9. ASSUME NEW k \in places
      PROVE  k - skip \in 1..(last - skip) /\ page[k - skip] = s[k]
  <2>1. k \in 1..n /\ skip + 1 <= k /\ k <= last
    BY <1>4
  <2>2. k - skip \in 1..(last - skip)
    BY <1>1, <1>4, <2>1
  <2>3. (k - skip) + skip = k
    BY <1>1, <2>1
  <2> QED
    BY <2>2, <2>3
<1>10. {page[i] : i \in 1..(last - skip)} = {s[j] : j \in places}
  BY <1>8, <1>9
<1> QED
  <2>1. ItemsOn(s, p, limit) = {s[j] : j \in places}
    BY <1>7, <1>10 DEF ItemsOn
  <2>2. places = PlacesOn(n, p, limit)
    BY DEF PlacesOn, skip
  <2> HIDE DEF places
  <2> QED
    BY <2>1, <2>2

(* An order shows every document at one place.                                 *)
LEMMA OrdersAreInjective ==
    ASSUME NEW S, IsFiniteSet(S), NEW s \in OrdersOf(S),
           NEW i \in DOMAIN s, NEW j \in DOMAIN s, s[i] = s[j]
    PROVE  i = j
<1> DEFINE n == Cardinality(S)
<1>1. n \in Nat /\ IsFiniteSet(1..n) /\ Cardinality(1..n) = n
  BY FS_CardinalityType, FS_Interval
<1>2. s \in [1..n -> S] /\ \A x \in S : \E k \in 1..n : s[k] = x
  BY DEF OrdersOf
<1>3. s \in Surjection(1..n, S)
  BY <1>2 DEF Surjection
<1>4. s \in Injection(1..n, S)
  BY <1>1, <1>3, FS_SurjSameCardinalityImpliesInj
<1> QED
  BY <1>2, <1>4 DEF Injection, IsInjective

(* Any page size that a query may ask for is at least one.                     *)
LEMMA LimitIsPositive ==
    ASSUME NEW asked \in (Nat \ {0}) \cup {Unset}
    PROVE  LimitOf(asked) \in Nat \ {0}
BY PagingAssumption DEF LimitOf, Least

(* Turning the pages of any finite result, in whatever order the database      *)
(* returns it and with any page size, shows every document exactly once.       *)
THEOREM PagesAreComplete ==
    ASSUME NEW S, IsFiniteSet(S), NEW asked \in (Nat \ {0}) \cup {Unset}
    PROVE  PagesShowAll(S, asked)
<1> DEFINE limit == LimitOf(asked)
           n == Cardinality(S)
           On(s, p) == ItemsOn(s, p, limit)
<1>1. limit \in Nat \ {0} /\ n \in Nat
  BY LimitIsPositive, FS_CardinalityType
<1> HIDE DEF limit, n
<1> SUFFICES ASSUME NEW s \in OrdersOf(S),
                    NEW count \in {TotalPages(n, limit),
                                   AtLeastOne(TotalPages(n, limit))}
             PROVE  /\ UNION {On(s, p) : p \in 1..count} = S
                    /\ \A p \in 1..count : On(s, p) = {} => S = {}
                    /\ \A p, q \in 1..count : p # q => On(s, p) \cap On(s, q) = {}
  BY DEF PagesShowAll, ItemsOn, limit, n
<1> DEFINE pages == 1..count
<1>2. count \in Nat /\ (n # 0 => count = TotalPages(n, limit) /\ count # 0)
  BY <1>1, TotalPagesRoundsUp DEF AtLeastOne
<1> DEFINE Places(p) == PlacesOn(n, p, limit)
<1>3. s \in [1..n -> S] /\ \A x \in S : \E k \in 1..n : s[k] = x
  BY DEF OrdersOf, n
<1>4. \A p \in pages : p \in Nat \ {0} /\ Skip(p, limit) \in Nat
  <2> SUFFICES ASSUME NEW p \in pages PROVE p \in Nat \ {0} /\ Skip(p, limit) \in Nat
    OBVIOUS
  <2>1. p \in Nat \ {0} /\ p - 1 \in Nat
    BY <1>2
  <2> QED
    BY <1>1, <2>1 DEF Skip
<1>5. ASSUME NEW p \in pages
      PROVE  \A x : x \in On(s, p) <=> \E j \in Places(p) : x = s[j]
  <2>1. p \in Nat \ {0}
    BY <1>4
  <2>2. s \in Seq(S) /\ Len(s) = n
    BY <1>1, <1>3
  <2> QED
    BY <1>1, <2>1, <2>2, ItemsOnPage
<1> HIDE DEF On, pages
<1>6. ASSUME NEW x \in S PROVE \E p \in pages : x \in On(s, p)
  <2>1. PICK k \in 1..n : s[k] = x
    BY <1>3
  <2>2. PICK p \in pages : Skip(p, limit) + 1 <= k /\ k <= Skip(p, limit) + limit
    <3>1. n # 0
      BY <1>1
    <3> QED
      BY <1>1, <1>2, <3>1, PlaceHasPage DEF pages
  <2> QED
    BY <1>5, <2>1, <2>2 DEF PlacesOn
<1>7. \A p \in pages : On(s, p) \subseteq S
  BY <1>3, <1>5 DEF PlacesOn
<1>8. ASSUME NEW p \in pages, On(s, p) = {} PROVE S = {}
  <2> SUFFICES ASSUME S # {} PROVE FALSE
    OBVIOUS
  <2>1. n # 0
    BY FS_EmptySet DEF n
  <2>2. Skip(count, limit) < n
    BY <1>1, <1>2, <2>1, TotalPagesRoundsUp
  <2>3. count \in pages /\ p <= count
    BY <1>2, <2>1 DEF pages
  <2>4. Skip(p, limit) <= Skip(count, limit)
    <3>1. CASE p = count
      BY <1>4, <2>3, <3>1
    <3>2. CASE p < count
      <4>1. Skip(p, limit) + limit <= Skip(count, limit)
        BY <1>1, <1>2, <1>4, <3>2, LaterPagesSkipMore
      <4> QED
        BY <1>1, <1>4, <2>3, <4>1
    <3> QED
      BY <1>2, <1>4, <2>3, <3>1, <3>2
  <2>5. Skip(p, limit) + 1 \in Places(p)
    BY <1>1, <1>4, <2>2, <2>3, <2>4 DEF PlacesOn
  <2> QED
    BY <1>5, <1>8, <2>5
<1>9. ASSUME NEW p \in pages, NEW q \in pages, p < q
      PROVE  On(s, p) \cap On(s, q) = {}
  <2> SUFFICES ASSUME NEW i \in Places(p), NEW j \in Places(q), s[i] = s[j]
               PROVE  FALSE
    BY <1>5
  <2>1. i = j
    BY <1>3, OrdersAreInjective DEF PlacesOn
  <2>2. Skip(p, limit) + limit <= Skip(q, limit)
    BY <1>1, <1>4, <1>9, LaterPagesSkipMore
  <2> QED
    BY <1>1, <1>4, <2>1, <2>2 DEF PlacesOn
<1> QED
  <2>1. \A p, q \in pages : p # q => p < q \/ q < p
    BY <1>4
  <2>2. UNION {On(s, p) : p \in pages} = S
    BY <1>6, <1>7
  <2> QED
    BY <1>8, <1>9, <2>1, <2>2 DEF pages

(* However many applications there may be, finitely many are stored.           *)
LEMMA RegistryStaysFinite == CatalogueSpec => []IsFiniteSet(Stored)
<1>1. CatalogueInit => IsFiniteSet(Stored)
  <2> SUFFICES ASSUME CatalogueInit PROVE IsFiniteSet(Stored)
    OBVIOUS
  <2>1. Stored = {}
    BY DEF CatalogueInit, Stored
  <2> QED
    BY <2>1, FS_EmptySet
<1>2. CatalogueInv /\ IsFiniteSet(Stored) /\ [CatalogueNext]_catalogueVars
         => IsFiniteSet(Stored')
  <2> SUFFICES ASSUME CatalogueInv, IsFiniteSet(Stored),
                      [CatalogueNext]_catalogueVars
               PROVE  IsFiniteSet(Stored')
    OBVIOUS
  <2>1. apps \in [Apps -> App \cup {NoApp}]
    BY DEF CatalogueInv, CatalogueTypeOK
  <2>2. ASSUME NEW a, NEW app, apps' = [apps EXCEPT ![a] = app]
        PROVE  IsFiniteSet(Stored')
    <3>1. Stored' \subseteq Stored \cup {a}
      BY <2>1, <2>2 DEF Stored
    <3>2. IsFiniteSet(Stored \cup {a})
      BY FS_AddElement
    <3> QED
      BY <3>1, <3>2, FS_Subset
  <2>3. ASSUME NEW e \in Editors, InsertApp(e) PROVE IsFiniteSet(Stored')
    <3>1. PICK a \in Apps \ Stored :
             apps' = IF IndexAllows(NewApp(edits[e].body).name, a)
                     THEN [apps EXCEPT ![a] = NewApp(edits[e].body)] ELSE apps
      BY <2>3 DEF InsertApp
    <3>2. CASE apps' = apps
      BY <3>2 DEF Stored
    <3> QED
      BY <2>2, <3>1, <3>2
  <2>4. ASSUME NEW e \in Editors, WriteApp(e) PROVE IsFiniteSet(Stored')
    <3>1. \/ apps' = apps
          \/ apps' = [apps EXCEPT ![edits[e].app] =
                         Updated(apps[edits[e].app], edits[e].body)]
      BY <2>4 DEF WriteApp
    <3>2. CASE apps' = apps
      BY <3>2 DEF Stored
    <3> QED
      BY <2>2, <3>1, <3>2
  <2>5. CASE apps' = apps
    BY <2>5 DEF Stored
  <2>6. \/ apps' = apps
        \/ \E e \in Editors : InsertApp(e) \/ WriteApp(e)
    BY DEF CatalogueNext, FavoriteNext, EditNext, catalogueVars, AddFavorite,
           MatchFavorite, InsertFavorite, RemoveFavorite, AddFails, Tick, CreateApp, UpdateApp,
           CheckCreateCategory, CheckName, CheckCategory, EditFails
  <2> QED
    BY <2>3, <2>4, <2>5, <2>6
<1>3. (IsFiniteSet(Stored))' <=> IsFiniteSet(Stored')
  OBVIOUS
<1> QED
  BY <1>1, <1>2, <1>3, CatalogueKeepsKeys, PTL DEF CatalogueSpec

(* A user is shown as favourite only what it could add now, and finds all of   *)
(* it by turning the pages of its catalogue, whatever the administrators do.   *)
THEOREM FavoritesAreShown == CatalogueSpec => []FavoritesStayVisible
<1>1. IsFiniteSet(Stored) => FavoritesStayVisible
  <2> SUFFICES ASSUME IsFiniteSet(Stored), NEW u \in Users
               PROVE  /\ ListFavorites(u) \subseteq ListUserApps(u)
                      /\ ListUserApps(u) = {a \in Apps : Favoritable(a, roleOf[u])}
                      /\ \A asked \in (1..MaxLimit + 1) \cup {Unset} :
                            PagesShowAll(ListUserApps(u), asked)
    BY DEF FavoritesStayVisible
  <2>1. ListFavorites(u) \subseteq ListUserApps(u)
    BY DEF ListFavorites, ListUserApps, FindActiveByIds
  <2>2. ListUserApps(u) = {a \in Apps : Favoritable(a, roleOf[u])}
    BY DEF ListUserApps, ActiveFor, Stored, Favoritable
  <2>3. IsFiniteSet(ListUserApps(u))
    <3>1. ListUserApps(u) \subseteq Stored
      BY DEF ListUserApps, ActiveFor
    <3> QED
      BY <3>1, FS_Subset
  <2>4. ASSUME NEW asked \in (1..MaxLimit + 1) \cup {Unset}
        PROVE  PagesShowAll(ListUserApps(u), asked)
    <3>1. asked \in (Nat \ {0}) \cup {Unset}
      BY <2>4, PagingAssumption
    <3> QED
      BY <2>3, <3>1, PagesAreComplete
  <2> QED
    BY <2>1, <2>2, <2>4
<1> QED
  BY <1>1, RegistryStaysFinite, PTL
-------------------------------------------------------------------------------
(* The documents of users: contacts, notifications, histories and profiles.    *)

(* What the collections hold; a profile is found by its owner.                 *)
RecordsTypeOK ==
    /\ contacts \in [Contacts -> Contact \cup {NoDoc}]
    /\ notifications \in [Notifications -> Notification]
    /\ histories \in [Histories -> History \cup {NoDoc}]
    /\ profiles \in [Owners -> Profile \cup {NoDoc}]
    /\ \A u \in Owners : profiles[u] # NoDoc => profiles[u].owner = u

(* What was stored by a checked write fits the schema.                         *)
StoredIsChecked ==
    /\ \A c \in Contacts : contacts[c] # NoDoc =>
          /\ ModelAccepts(contacts[c].subject, SubjectRule)
          /\ ModelAccepts(contacts[c].message, MessageRule)
    /\ \A u \in Owners : profiles[u] # NoDoc /\ u \notin edited =>
          ModelAccepts(profiles[u].fullName, FullNameRule)

(* The last answer shows a user of what belongs to another at most the public  *)
(* part of a profile.                                                          *)
ShowsOwn(to, docs) ==
    to # Admin => \A d \in docs : d.owner = to \/ d \in PublicProfile

RecordsInv ==
    RecordsTypeOK /\ StoredIsChecked /\ ShowsOwn(answer.to, answer.docs)

(* What a step of one user may change; OwnersOnly says it of every step.       *)
OwnStep ==
    /\ answer'.to # Admin =>
          \A d \in answer'.docs : d.owner = answer'.to \/ d \in PublicProfile
    /\ ChangedOwners(notifications, notifications') \subseteq {answer'.to}
    /\ ChangedOwners(profiles, profiles') \subseteq {answer'.to}
    /\ ChangedOwners(contacts, contacts') # {} => answer'.to = Admin

LEMMA RecordsInitInv == RecordsInit => RecordsInv
<1> SUFFICES ASSUME RecordsInit PROVE RecordsInv
    OBVIOUS
<1>1. RecordsTypeOK
    BY DEF RecordsInit, RecordsTypeOK
<1>2. StoredIsChecked
    BY DEF RecordsInit, StoredIsChecked
<1>3. ShowsOwn(answer.to, answer.docs)
    BY DEF RecordsInit, ShowsOwn
<1> QED
    BY <1>1, <1>2, <1>3 DEF RecordsInv

(* A step that changes no collection has to answer with the asker's documents. *)
LEMMA AnswerShowsOwn ==
    ASSUME RecordsInv, NEW to, NEW docs, Answers(to, docs), ShowsOwn(to, docs),
           UNCHANGED <<contacts, notifications, histories, profiles, edited>>
    PROVE  RecordsInv' /\ OwnStep
<1>1. answer'.to = to /\ answer'.docs = docs
    BY DEF Answers
<1>2. RecordsInv'
    BY <1>1 DEF RecordsInv, RecordsTypeOK, StoredIsChecked, ShowsOwn
<1> QED
    BY <1>1, <1>2 DEF OwnStep, ChangedOwners, ShowsOwn

(* The length of a text changes by its blanks only.                            *)
LEMMA TrimmedFits ==
    ASSUME NEW text \in Text, NEW rule
    PROVE  /\ Trimmed(text) \in Text
           /\ ModelAccepts(Trimmed(text), rule) <=> ModelAccepts(text, rule)
<1>1. /\ Trimmed(text).markup = text.markup /\ Trimmed(text).core = text.core
      /\ Trimmed(text) \in Text
    BY DEF Trimmed, Text
<1> QED
    BY <1>1 DEF ModelAccepts

(* The body check bounds a text from above and sanitising from below, so that  *)
(* what the schema looks at lies between them.                                 *)
LEMMA SubmittableFits ==
    ASSUME NEW s \in Texts, NEW m \in Texts, Submittable(s, m)
    PROVE  ModelAccepts(s, SubjectRule) /\ ModelAccepts(m, MessageRule)
<1>1. s \in Text /\ m \in Text
    BY RecordsAssumption
<1>2. /\ s.blanks \in Nat /\ s.markup \in Nat /\ s.core \in Nat
      /\ m.blanks \in Nat /\ m.markup \in Nat /\ m.core \in Nat
    BY <1>1 DEF Text
<1>3. ModelAccepts(s, SubjectRule)
    BY <1>2 DEF Submittable, BodyAccepts, Sanitized, Within, ModelAccepts, SubjectRule
<1>4. ModelAccepts(m, MessageRule)
    BY <1>2 DEF Submittable, BodyAccepts, Sanitized, Within, ModelAccepts, MessageRule
<1> QED
    BY <1>3, <1>4

LEMMA ContactStep ==
    ASSUME RecordsInv, ContactNext
    PROVE  RecordsInv' /\ OwnStep
<1>0. /\ contacts \in [Contacts -> Contact \cup {NoDoc}]
      /\ RecordsTypeOK /\ StoredIsChecked
    BY DEF RecordsInv, RecordsTypeOK
<1>1. ASSUME NEW from \in Owners \cup {Nobody}, NEW c \in Contacts,
             NEW s \in Texts, NEW m \in Texts, SubmitContact(from, c, s, m)
      PROVE  RecordsInv' /\ OwnStep
    <2> DEFINE doc == NewContact(from, s, m)
    <2>1. /\ contacts[c] = NoDoc /\ contacts' = [contacts EXCEPT ![c] = doc]
          /\ answer' = [to |-> from, docs |-> {doc}]
          /\ UNCHANGED <<notifications, histories, profiles, edited>>
        BY <1>1 DEF SubmitContact, Answers
    <2>2. s \in Text /\ m \in Text
        BY RecordsAssumption
    <2>3. /\ doc \in Contact /\ doc.owner = from
          /\ ModelAccepts(doc.subject, SubjectRule)
          /\ ModelAccepts(doc.message, MessageRule)
        BY <1>1, <2>2, TrimmedFits
           DEF NewContact, Contact, ContactStatuses, SubmitContact
    <2> HIDE DEF doc
    <2>4. RecordsTypeOK'
        BY <1>0, <2>1, <2>3 DEF RecordsTypeOK
    <2>5. StoredIsChecked'
        BY <1>0, <2>1, <2>3 DEF StoredIsChecked
    <2>6. ShowsOwn(answer.to, answer.docs)'
        BY <2>1, <2>3 DEF ShowsOwn
    <2>7. ChangedOwners(contacts, contacts') = {}
        BY <1>0, <2>1 DEF ChangedOwners
    <2>8. ChangedOwners(notifications, notifications') = {}
          /\ ChangedOwners(profiles, profiles') = {}
        BY <2>1 DEF ChangedOwners
    <2> QED
        BY <2>4, <2>5, <2>6, <2>7, <2>8 DEF RecordsInv, OwnStep, ShowsOwn
<1>2. ASSUME NEW c \in Contacts, NEW status \in ContactStatuses,
             UpdateContactStatus(c, status)
      PROVE  RecordsInv' /\ OwnStep
    <2>1. /\ contacts[c] # NoDoc
          /\ contacts' = [contacts EXCEPT ![c].status = status]
          /\ answer'.to = Admin
          /\ UNCHANGED <<notifications, histories, profiles, edited>>
        BY <1>2 DEF UpdateContactStatus, Answers
    <2>2. /\ contacts[c] \in Contact
          /\ contacts' = [contacts EXCEPT ![c] = [contacts[c] EXCEPT !.status = status]]
        BY <1>0, <2>1
    <2>3. /\ [contacts[c] EXCEPT !.status = status] \in Contact
          /\ [contacts[c] EXCEPT !.status = status].subject = contacts[c].subject
          /\ [contacts[c] EXCEPT !.status = status].message = contacts[c].message
        BY <2>2 DEF Contact
    <2> DEFINE doc == [contacts[c] EXCEPT !.status = status]
    <2> HIDE DEF doc
    <2>4. contacts' = [contacts EXCEPT ![c] = doc] /\ doc \in Contact
          /\ doc.subject = contacts[c].subject /\ doc.message = contacts[c].message
        BY <2>2, <2>3 DEF doc
    <2>5. RecordsTypeOK'
        BY <1>0, <2>1, <2>4 DEF RecordsTypeOK
    <2>6. StoredIsChecked'
        BY <1>0, <2>1, <2>4 DEF StoredIsChecked
    <2>7. ChangedOwners(notifications, notifications') = {}
          /\ ChangedOwners(profiles, profiles') = {}
        BY <2>1 DEF ChangedOwners
    <2> QED
        BY <2>1, <2>5, <2>6, <2>7 DEF RecordsInv, OwnStep, ShowsOwn
<1>3. ASSUME NEW status, GetContactList(status)
      PROVE  RecordsInv' /\ OwnStep
    BY <1>3, AnswerShowsOwn DEF GetContactList, ShowsOwn
<1>4. ASSUME NEW u \in Owners, NEW status, GetMyContacts(u, status)
      PROVE  RecordsInv' /\ OwnStep
    <2>1. ShowsOwn(u, FindContactsByUser(u, status))
        BY DEF ShowsOwn, FindContactsByUser
    <2> QED
        BY <1>4, <2>1, AnswerShowsOwn DEF GetMyContacts
<1>5. ASSUME NEW c \in Contacts, GetContactDetail(c)
      PROVE  RecordsInv' /\ OwnStep
    BY <1>5, AnswerShowsOwn DEF GetContactDetail, ShowsOwn
<1>6. ASSUME NEW c \in Contacts, NEW u \in Owners, GetMyContactDetail(u, c)
      PROVE  RecordsInv' /\ OwnStep
    <2>1. ShowsOwn(u, {contacts[c]})
        BY <1>6 DEF ShowsOwn, GetMyContactDetail, FindByIdForUser
    <2> QED
        BY <1>6, <2>1, AnswerShowsOwn DEF GetMyContactDetail
<1> QED
    BY <1>1, <1>2, <1>3, <1>4, <1>5, <1>6 DEF ContactNext

LEMMA NotificationStep ==
    ASSUME RecordsInv, NotificationNext
    PROVE  RecordsInv' /\ OwnStep
<1>0. /\ notifications \in [Notifications -> Notification]
      /\ RecordsTypeOK /\ StoredIsChecked
    BY DEF RecordsInv, RecordsTypeOK
<1>1. ASSUME NEW u \in Owners, NEW to, NEW docs,
             answer'.to = to, answer'.docs = docs, ShowsOwn(to, docs), to = u,
             notifications' \in [Notifications -> Notification],
             \A n \in Notifications :
                notifications'[n] # notifications[n] => notifications[n].owner = u,
             UNCHANGED <<contacts, histories, profiles, edited>>
      PROVE  RecordsInv' /\ OwnStep
    <2>1. RecordsTypeOK'
        BY <1>0, <1>1 DEF RecordsTypeOK
    <2>2. StoredIsChecked'
        BY <1>0, <1>1 DEF StoredIsChecked
    <2>3. ShowsOwn(answer.to, answer.docs)'
        BY <1>1 DEF ShowsOwn
    <2>4. ChangedOwners(notifications, notifications') \subseteq {u}
        BY <1>0, <1>1 DEF ChangedOwners
    <2>5. ChangedOwners(contacts, contacts') = {}
          /\ ChangedOwners(profiles, profiles') = {}
        BY <1>1 DEF ChangedOwners
    <2> QED
        BY <1>1, <2>1, <2>2, <2>3, <2>4, <2>5 DEF RecordsInv, OwnStep, ShowsOwn
<1>2. ASSUME NEW u \in Owners, NEW isRead, ListNotifications(u, isRead)
      PROVE  RecordsInv' /\ OwnStep
    <2>1. ShowsOwn(u, FindNotifications(u, isRead))
        BY DEF ShowsOwn, FindNotifications
    <2> QED
        BY <1>2, <2>1, AnswerShowsOwn DEF ListNotifications
<1>3. ASSUME NEW u \in Owners, UnreadCount(u)
      PROVE  RecordsInv' /\ OwnStep
    <2>1. ShowsOwn(u, FindNotifications(u, FALSE))
        BY DEF ShowsOwn, FindNotifications
    <2> QED
        BY <1>3, <2>1, AnswerShowsOwn DEF UnreadCount
<1>4. ASSUME NEW u \in Owners, NEW n \in Notifications, MarkRead(u, n)
      PROVE  RecordsInv' /\ OwnStep
    <2> DEFINE doc == [notifications[n] EXCEPT !.isRead = TRUE]
    <2>1. /\ notifications[n].owner = u
          /\ notifications' = [notifications EXCEPT ![n] = doc]
          /\ answer'.to = u /\ answer'.docs = {notifications'[n]}
          /\ UNCHANGED <<contacts, histories, profiles, edited>>
        BY <1>4 DEF MarkRead, Answers
    <2>2. doc \in Notification /\ doc.owner = u
        BY <1>0, <2>1 DEF Notification
    <2> HIDE DEF doc
    <2>3. notifications' \in [Notifications -> Notification] /\ notifications'[n] = doc
        BY <1>0, <2>1, <2>2
    <2>4. ShowsOwn(u, {notifications'[n]})
        BY <2>2, <2>3 DEF ShowsOwn
    <2>5. \A k \in Notifications :
             notifications'[k] # notifications[k] => notifications[k].owner = u
        BY <1>0, <2>1
    <2> QED
        BY <1>1, <2>1, <2>3, <2>4, <2>5
<1>5. ASSUME NEW u \in Owners, MarkAllRead(u)
      PROVE  RecordsInv' /\ OwnStep
    <2> DEFINE unread == {n \in Notifications : /\ notifications[n].owner = u
                                                /\ ~notifications[n].isRead}
    <2>1. /\ notifications' = [n \in Notifications |->
                 IF n \in unread THEN [notifications[n] EXCEPT !.isRead = TRUE]
                 ELSE notifications[n]]
          /\ answer'.to = u /\ answer'.docs = {notifications[n] : n \in unread}
          /\ UNCHANGED <<contacts, histories, profiles, edited>>
        BY <1>5 DEF MarkAllRead, Answers
    <2>2. \A n \in Notifications :
             [notifications[n] EXCEPT !.isRead = TRUE] \in Notification
        BY <1>0 DEF Notification
    <2>3. notifications' \in [Notifications -> Notification]
        BY <1>0, <2>1, <2>2
    <2>4. ShowsOwn(u, answer'.docs)
        BY <2>1 DEF ShowsOwn
    <2>5. \A k \in Notifications :
             notifications'[k] # notifications[k] => notifications[k].owner = u
        BY <2>1
    <2> QED
        BY <1>1, <2>1, <2>3, <2>4, <2>5
<1> QED
    BY <1>2, <1>3, <1>4, <1>5 DEF NotificationNext

LEMMA HistoryStep ==
    ASSUME RecordsInv, HistoryNext
    PROVE  RecordsInv' /\ OwnStep
<1>0. /\ histories \in [Histories -> History \cup {NoDoc}]
      /\ RecordsTypeOK /\ StoredIsChecked /\ ShowsOwn(answer.to, answer.docs)
    BY DEF RecordsInv, RecordsTypeOK
(* Writes of the history: no answer, and no other collection.                  *)
<1>1. ASSUME histories' \in [Histories -> History \cup {NoDoc}],
             UNCHANGED <<contacts, notifications, profiles, answer, edited>>
      PROVE  RecordsInv' /\ OwnStep
    <2>1. RecordsTypeOK'
        BY <1>0, <1>1 DEF RecordsTypeOK
    <2>2. StoredIsChecked' /\ ShowsOwn(answer.to, answer.docs)'
        BY <1>0, <1>1 DEF StoredIsChecked, ShowsOwn
    <2> QED
        BY <1>0, <1>1, <2>1, <2>2 DEF RecordsInv, OwnStep, ShowsOwn, ChangedOwners
<1>2. ASSUME NEW h \in Histories, NEW o \in Owners \cup {Nobody},
             NEW s \in LoginStatuses, RecordLogin(o, s, h)
      PROVE  RecordsInv' /\ OwnStep
    <2>1. [owner |-> o, status |-> s, written |-> FALSE] \in History
        BY DEF History
    <2> QED
        BY <1>0, <1>1, <1>2, <2>1 DEF RecordLogin
<1>3. ASSUME NEW h \in Histories, HistoryWritten(h)
      PROVE  RecordsInv' /\ OwnStep
    <2>1. [histories[h] EXCEPT !.written = TRUE] \in History
        BY <1>0, <1>3 DEF HistoryWritten, History
    <2> QED
        BY <1>0, <1>1, <1>3, <2>1 DEF HistoryWritten
<1>4. ASSUME NEW h \in Histories, HistoryLost(h)
      PROVE  RecordsInv' /\ OwnStep
    BY <1>0, <1>1, <1>4 DEF HistoryLost
<1>5. ASSUME NEW h \in Histories, GetLoginHistoryDetail(h)
      PROVE  RecordsInv' /\ OwnStep
    BY <1>5, AnswerShowsOwn DEF GetLoginHistoryDetail, ShowsOwn
<1>6. ASSUME NEW query \in Queries, GetAllLoginHistory(query)
      PROVE  RecordsInv' /\ OwnStep
    BY <1>6, AnswerShowsOwn DEF GetAllLoginHistory, ShowsOwn
<1>7. ASSUME NEW query \in Queries, NEW u \in Owners, GetMyLoginHistory(u, query)
      PROVE  RecordsInv' /\ OwnStep
    <2> DEFINE filter == BuildLoginHistoryFilter(query, u)
    <2>1. u # Unset /\ filter.owner = u
        BY RecordsAssumption DEF BuildLoginHistoryFilter
    <2> HIDE DEF filter
    <2>2. ShowsOwn(u, FindHistories(filter))
        BY <2>1 DEF ShowsOwn, FindHistories, Matches
    <2> QED
        BY <1>7, <2>2, AnswerShowsOwn DEF GetMyLoginHistory, filter
<1>8. ASSUME NEW u \in Owners, GetMyLoginStats(u)
      PROVE  RecordsInv' /\ OwnStep
    <2>1. ShowsOwn(u, StatsMatch(u))
        BY DEF ShowsOwn, StatsMatch
    <2> QED
        BY <1>8, <2>1, AnswerShowsOwn DEF GetMyLoginStats
<1> QED
    BY <1>2, <1>3, <1>4, <1>5, <1>6, <1>7, <1>8 DEF HistoryNext

LEMMA ProfileStep ==
    ASSUME RecordsInv, ProfileNext
    PROVE  RecordsInv' /\ OwnStep
<1>0. /\ profiles \in [Owners -> Profile \cup {NoDoc}]
      /\ \A u \in Owners : profiles[u] # NoDoc => profiles[u].owner = u
      /\ RecordsTypeOK /\ StoredIsChecked /\ ShowsOwn(answer.to, answer.docs)
    BY DEF RecordsInv, RecordsTypeOK
<1>1. ASSUME NEW u \in Owners, NEW name \in Texts, CreateProfile(u, name)
      PROVE  RecordsInv' /\ OwnStep
    <2> DEFINE doc == [owner |-> u, fullName |-> Trimmed(name), personal |-> FALSE]
    <2>1. /\ profiles[u] = NoDoc /\ profiles' = [profiles EXCEPT ![u] = doc]
          /\ ModelAccepts(name, FullNameRule)
          /\ UNCHANGED <<contacts, notifications, histories, answer, edited>>
        BY <1>1 DEF CreateProfile
    <2>2. /\ doc \in Profile /\ doc.owner = u
          /\ ModelAccepts(doc.fullName, FullNameRule)
        BY <2>1, TrimmedFits, RecordsAssumption DEF Profile
    <2> HIDE DEF doc
    <2>3. RecordsTypeOK'
        BY <1>0, <2>1, <2>2 DEF RecordsTypeOK
    <2>4. StoredIsChecked'
        BY <1>0, <2>1, <2>2 DEF StoredIsChecked
    <2>5. ChangedOwners(profiles, profiles') = {}
        BY <1>0, <2>1 DEF ChangedOwners
    <2>6. ChangedOwners(contacts, contacts') = {}
          /\ ChangedOwners(notifications, notifications') = {}
        BY <2>1 DEF ChangedOwners
    <2> QED
        BY <1>0, <2>1, <2>3, <2>4, <2>5, <2>6 DEF RecordsInv, OwnStep, ShowsOwn
<1>2. ASSUME NEW u \in Owners, NEW name \in Texts, NEW personal \in BOOLEAN,
             UpdateMyProfile(u, name, personal)
      PROVE  RecordsInv' /\ OwnStep
    <2> DEFINE doc == [owner |-> u, fullName |-> Trimmed(name), personal |-> personal]
    <2>1. /\ profiles[u] # NoDoc /\ profiles' = [profiles EXCEPT ![u] = doc]
          /\ answer'.to = u /\ answer'.docs = {profiles'[u]}
          /\ edited' = edited \cup {u}
          /\ UNCHANGED <<contacts, notifications, histories>>
        BY <1>2 DEF UpdateMyProfile, Answers
    <2>2. doc \in Profile /\ doc.owner = u
        BY <1>0, <2>1, TrimmedFits, RecordsAssumption DEF Profile
    <2> HIDE DEF doc
    <2>3. RecordsTypeOK'
        BY <1>0, <2>1, <2>2 DEF RecordsTypeOK
    <2>4. StoredIsChecked'
        BY <1>0, <2>1 DEF StoredIsChecked
    <2>5. ShowsOwn(answer.to, answer.docs)'
        BY <1>0, <2>1, <2>2 DEF ShowsOwn
    <2>6. ChangedOwners(profiles, profiles') \subseteq {u}
        BY <1>0, <2>1 DEF ChangedOwners
    <2>7. ChangedOwners(contacts, contacts') = {}
          /\ ChangedOwners(notifications, notifications') = {}
        BY <2>1 DEF ChangedOwners
    <2> QED
        BY <2>1, <2>3, <2>4, <2>5, <2>6, <2>7 DEF RecordsInv, OwnStep, ShowsOwn
<1>3. ASSUME NEW u \in Owners, GetMyProfile(u)
      PROVE  RecordsInv' /\ OwnStep
    <2>1. ShowsOwn(u, {profiles[u]})
        BY <1>0, <1>3 DEF ShowsOwn, GetMyProfile
    <2> QED
        BY <1>3, <2>1, AnswerShowsOwn DEF GetMyProfile
<1>4. ASSUME NEW reader \in Owners \cup {Nobody}, NEW u \in Owners,
             GetPublicProfile(reader, u)
      PROVE  RecordsInv' /\ OwnStep
    <2>1. SelectPublic(profiles[u]) \in PublicProfile
        BY <1>0, <1>4
           DEF GetPublicProfile, SelectPublic, Profile, PublicProfile
    <2>2. ShowsOwn(reader, {SelectPublic(profiles[u])})
        BY <2>1 DEF ShowsOwn
    <2> QED
        BY <1>4, <2>2, AnswerShowsOwn DEF GetPublicProfile
<1>5. ASSUME GetAdminUsers PROVE RecordsInv' /\ OwnStep
    BY <1>5, AnswerShowsOwn DEF GetAdminUsers, ShowsOwn
<1> QED
    BY <1>1, <1>2, <1>3, <1>4, <1>5 DEF ProfileNext

LEMMA RecordsStep ==
    ASSUME RecordsInv, [RecordsNext]_recordVars
    PROVE  RecordsInv' /\ [OwnStep]_recordVars
<1>1. CASE UNCHANGED recordVars
    BY <1>1 DEF recordVars, RecordsInv, RecordsTypeOK, StoredIsChecked, ShowsOwn
<1> QED
    BY <1>1, ContactStep, NotificationStep, HistoryStep, ProfileStep DEF RecordsNext

(* The collections keep their types and owners, and what passed the checks     *)
(* fits the schema, for any owners, documents and texts.                       *)
THEOREM RecordsInvariant == RecordsSpec => []RecordsInv
BY RecordsInitInv, RecordsStep, PTL DEF RecordsSpec

(* The two layers that check texts agree, and what is stored satisfies the     *)
(* schema, except for names that an edit of the profile wrote around it.       *)
THEOREM StoredTextsFit == RecordsSpec => []StoredFitsModel
<1>1. RecordsInv => StoredFitsModel
    <2> SUFFICES ASSUME RecordsInv PROVE StoredFitsModel
        OBVIOUS
    <2>1. RecordsTypeOK /\ StoredIsChecked
        BY DEF RecordsInv
    <2>2. \A s, m \in Texts : Submittable(s, m) =>
             ModelAccepts(s, SubjectRule) /\ ModelAccepts(m, MessageRule)
        BY SubmittableFits
    <2>3. \A d \in ItemsOf(contacts) : ModelAccepts(d.subject, SubjectRule)
                                        /\ ModelAccepts(d.message, MessageRule)
        BY <2>1 DEF ItemsOf, RecordsTypeOK, StoredIsChecked
    <2>4. \A d \in ItemsOf(profiles) :
             d.owner \notin edited => ModelAccepts(d.fullName, FullNameRule)
        BY <2>1 DEF ItemsOf, RecordsTypeOK, StoredIsChecked
    <2> QED
        BY <2>2, <2>3, <2>4 DEF StoredFitsModel
<1> QED
    BY <1>1, RecordsInvariant, PTL

(* Whatever identifiers and filters a request contains, it shows a user of     *)
(* another's documents at most the public part of a profile, and changes none. *)
THEOREM OwnersSeeTheirOwn == RecordsSpec => OwnersOnly
<1>1. RecordsInv /\ [RecordsNext]_recordVars => [OwnStep]_recordVars
    BY RecordsStep
<1> QED
    BY <1>1, RecordsInvariant, PTL DEF RecordsSpec, OwnersOnly, OwnStep
===============================================================================
