------------------------------- MODULE Catalogue -------------------------------
(* The registry of web applications and the favourites of the users, one step  *)
(* per database answer.  Names are kept as the validation leaves them, trimmed *)
(* and in lower case.  No operation removes an application.  A favourite is a  *)
(* document of its own; milliseconds may tie, so `now` need not move between   *)
(* two of them.                                                                *)
EXTENDS Paging

CONSTANTS Apps,        \* documents the registry may come to hold
          Users,       \* users with favourites
          Editors,     \* slots for requests of administrators in flight
          Names,       \* names of applications
          Categories,  \* seeded categories; others may be asked for
          NoCategory,  \* an identifier without a category
          Bodies,      \* bodies of create and update requests
          NoApp,       \* no document
          Undefined,   \* a field the body leaves out
          MaxTime      \* the largest createdAt

Roles == {"USER", "ADMIN"}

(* A request names at least one role.                                          *)
RoleSets == {{"USER"}, {"ADMIN"}, {"USER", "ADMIN"}}

Statuses == {"ACTIVE", "INACTIVE"}

(* The fields that other operations read; the remaining ones are `details`.    *)
App == [name : Names, categoryId : Categories, status : Statuses,
        requiredRoles : RoleSets, details : BOOLEAN]

(* What the validated body of an update may hold.                              *)
Body == [name : Names \cup {Undefined},
         categoryId : Categories \cup {NoCategory, Undefined},
         status : Statuses \cup {Undefined},
         requiredRoles : RoleSets \cup {Undefined},
         details : BOOLEAN \cup {Undefined}]

(* A create request has to name every field.                                   *)
Complete(body) == \A field \in DOMAIN body : body[field] # Undefined

ASSUME CatalogueAssumption ==
    /\ Bodies \subseteq Body
    /\ NoApp \notin App
    /\ NoCategory \notin Categories
    /\ Undefined \notin Names \cup Categories \cup {NoCategory}
    /\ Undefined \notin Statuses /\ Undefined \notin RoleSets
    /\ Undefined \notin BOOLEAN
    /\ MaxTime \in Nat

VARIABLES apps,       \* the collection web_apps, by document
          favorites,  \* the collection user_favorites
          roleOf,     \* the role in the access token of each user
          now,        \* the clock
          edits,      \* where each request of an administrator waits
          adding      \* favourites being added: those whose upsert has still to
                      \* match, and those it has found missing and inserts

catalogueVars == <<apps, favorites, roleOf, now, edits, adding>>

Favorite == [userId : Users, webAppId : Apps, createdAt : 0..MaxTime]

(* What an upsert does next.                                                   *)
Upsert == {"match", "insert"}

Edit == [at : {"idle", "createCategory", "insert", "name", "category", "write"},
         app : Apps \cup {NoApp}, body : Bodies \cup {NoApp}]

Idle == [at |-> "idle", app |-> NoApp, body |-> NoApp]

Stored == {a \in Apps : apps[a] # NoApp}

CatalogueInit ==
    /\ apps = [a \in Apps |-> NoApp]
    /\ favorites = {}
    /\ roleOf \in [Users -> Roles]
    /\ now = 0
    /\ edits = [e \in Editors |-> Idle]
    /\ adding = {}

-------------------------------------------------------------------------------
(* Administrators: createApp and updateApp.                                    *)

Wait(e, at, a, body) ==
    edits' = [edits EXCEPT ![e] = [at |-> at, app |-> a, body |-> body]]

Answer(e) == edits' = [edits EXCEPT ![e] = Idle]

existsByName(name) == \E a \in Stored : apps[a].name = name

existsByNameExcludingId(name, id) ==
    \E a \in Stored \ {id} : apps[a].name = name

existsById(category) == category \in Categories

(* createApp, up to the answer on the name; a taken one is refused.            *)
CreateApp(e, body) ==
    /\ edits[e].at = "idle"
    /\ Complete(body)
    /\ ~existsByName(body.name)
    /\ Wait(e, "createCategory", NoApp, body)
    /\ UNCHANGED <<apps, favorites, roleOf, now, adding>>

CheckCreateCategory(e) ==
    /\ edits[e].at = "createCategory"
    /\ IF existsById(edits[e].body.categoryId)
       THEN Wait(e, "insert", NoApp, edits[e].body)
       ELSE Answer(e)
    /\ UNCHANGED <<apps, favorites, roleOf, now, adding>>

(* Defect: the collection has no unique index on the name.                     *)
IndexAllowsAll(name, id) == TRUE

(* The unique index on the name, for the document id.                          *)
IndexAllows(name, id) == ~existsByNameExcludingId(name, id)

NewApp(body) ==
    [name |-> body.name, categoryId |-> body.categoryId, status |-> body.status,
     requiredRoles |-> body.requiredRoles, details |-> body.details]

(* The insert; a duplicate name is answered as a conflict.                     *)
InsertApp(e) ==
    LET app == NewApp(edits[e].body) IN
    /\ edits[e].at = "insert"
    /\ \E a \in Apps \ Stored :
         apps' = IF IndexAllows(app.name, a)
                 THEN [apps EXCEPT ![a] = app] ELSE apps
    /\ Answer(e)
    /\ UNCHANGED <<favorites, roleOf, now, adding>>

(* Where an update goes after the question about its name.                     *)
AfterName(body) == IF body.categoryId # Undefined THEN "category" ELSE "write"

(* updateApp reads the document; a name that does not change is not asked for. *)
UpdateApp(e, a, body) ==
    /\ edits[e].at = "idle"
    /\ a \in Stored
    /\ Wait(e, IF body.name \notin {Undefined, apps[a].name}
               THEN "name" ELSE AfterName(body), a, body)
    /\ UNCHANGED <<apps, favorites, roleOf, now, adding>>

CheckName(e) ==
    LET body == edits[e].body IN
    /\ edits[e].at = "name"
    /\ IF existsByNameExcludingId(body.name, edits[e].app)
       THEN Answer(e)
       ELSE Wait(e, AfterName(body), edits[e].app, body)
    /\ UNCHANGED <<apps, favorites, roleOf, now, adding>>

CheckCategory(e) ==
    /\ edits[e].at = "category"
    /\ IF existsById(edits[e].body.categoryId)
       THEN Wait(e, "write", edits[e].app, edits[e].body)
       ELSE Answer(e)
    /\ UNCHANGED <<apps, favorites, roleOf, now, adding>>

(* A field of the update: the body's, or the one that is stored.               *)
Chosen(new, old) == IF new = Undefined THEN old ELSE new

(* Defect: fields the body leaves out are written with their defaults.         *)
UpdatedWithDefaults(app, body) ==
    [name |-> Chosen(body.name, app.name),
     categoryId |-> Chosen(body.categoryId, app.categoryId),
     status |-> Chosen(body.status, "ACTIVE"),
     requiredRoles |-> Chosen(body.requiredRoles, {"USER"}),
     details |-> Chosen(body.details, app.details)]

(* findByIdAndUpdate with the fields the body names.                           *)
Updated(app, body) ==
    [name |-> Chosen(body.name, app.name),
     categoryId |-> Chosen(body.categoryId, app.categoryId),
     status |-> Chosen(body.status, app.status),
     requiredRoles |-> Chosen(body.requiredRoles, app.requiredRoles),
     details |-> Chosen(body.details, app.details)]

(* The write goes to the document as it is now; the index is asked again.      *)
WriteApp(e) ==
    LET a == edits[e].app
        app == Updated(apps[a], edits[e].body)
    IN  /\ edits[e].at = "write"
        /\ apps' = IF IndexAllows(app.name, a)
                   THEN [apps EXCEPT ![a] = app] ELSE apps
        /\ Answer(e)
        /\ UNCHANGED <<favorites, roleOf, now, adding>>

(* A database error or a crash ends a request where it waits.                  *)
EditFails(e) ==
    /\ edits[e].at # "idle"
    /\ Answer(e)
    /\ UNCHANGED <<apps, favorites, roleOf, now, adding>>

-------------------------------------------------------------------------------
(* Users: what they see, and their favourites.                                 *)

(* buildWebAppFilter with status active and the scope of the role: a scalar    *)
(* matches an array that contains it.                                          *)
ActiveFor(role) ==
    {a \in Stored : /\ apps[a].status = "ACTIVE"
                    /\ role = "ADMIN" \/ "USER" \in apps[a].requiredRoles}

(* Defect: the query for favourites forgets the scope of the role.             *)
FindActiveByIdsUnscoped(ids, role) ==
    {a \in ids \cap Stored : apps[a].status = "ACTIVE"}

FindActiveByIds(ids, role) == ids \cap ActiveFor(role)

FindWebAppIdsByUser(u) == {d.webAppId : d \in {f \in favorites : f.userId = u}}

(* FavoriteService.list and listUserApps, without search and pages.            *)
ListFavorites(u) == FindActiveByIds(FindWebAppIdsByUser(u), roleOf[u])

ListUserApps(u) == ActiveFor(roleOf[u])

(* One record for all requests that add the same and have come equally far.    *)
Adding(u, a, at) == [userId |-> u, webAppId |-> a, at |-> at]

(* AppFavoritableGuard.                                                        *)
Favoritable(a, role) ==
    /\ apps[a] # NoApp
    /\ apps[a].status = "ACTIVE"
    /\ role = "ADMIN" \/ "USER" \in apps[a].requiredRoles

(* FavoriteService.add up to the guard's answer.                               *)
AddFavorite(u, a) ==
    /\ Favoritable(a, roleOf[u])
    /\ adding' = adding \cup {Adding(u, a, "match")}
    /\ UNCHANGED <<apps, favorites, roleOf, now, edits>>

Matching(u, a) == {d \in favorites : d.userId = u /\ d.webAppId = a}

(* The upsert looks for the favourite.  One that exists stays as it is, for    *)
(* there is only $setOnInsert; the same click may have been sent again.        *)
MatchFavorite(u, a) ==
    LET here == Adding(u, a, "match")
        on == IF Matching(u, a) = {} THEN {Adding(u, a, "insert")} ELSE {}
    IN  /\ here \in adding
        /\ adding' \in {adding \cup on, (adding \ {here}) \cup on}
        /\ UNCHANGED <<apps, favorites, roleOf, now, edits>>

(* Defect: the collection has no unique index.                                 *)
FavoriteIndexAllowsAll(u, a) == TRUE

(* The unique index on user and application.                                   *)
FavoriteIndexAllows(u, a) == Matching(u, a) = {}

(* It inserts.  What another request has inserted since the match is a         *)
(* duplicate key, which is answered as a conflict or matched again.            *)
InsertFavorite(u, a) ==
    LET here == Adding(u, a, "insert")
        new == [userId |-> u, webAppId |-> a, createdAt |-> now]
    IN  /\ here \in adding
        /\ favorites' = IF FavoriteIndexAllows(u, a)
                        THEN favorites \cup {new} ELSE favorites
        /\ adding' \in {adding, adding \ {here}}
        /\ UNCHANGED <<apps, roleOf, now, edits>>

(* deleteOne, whether the application is visible or not.                       *)
RemoveFavorite(u, a) ==
    /\ \E d \in Matching(u, a) : favorites' = favorites \ {d}
    /\ UNCHANGED <<apps, roleOf, now, edits, adding>>

AddFails(u, a) ==
    /\ \E at \in Upsert :
         /\ Adding(u, a, at) \in adding
         /\ adding' = adding \ {Adding(u, a, at)}
    /\ UNCHANGED <<apps, favorites, roleOf, now, edits>>

Tick ==
    /\ now < MaxTime
    /\ now' = now + 1
    /\ UNCHANGED <<apps, favorites, roleOf, edits, adding>>

-------------------------------------------------------------------------------

EditNext(e) ==
    \/ \E body \in Bodies : CreateApp(e, body)
    \/ \E a \in Apps, body \in Bodies : UpdateApp(e, a, body)
    \/ CheckCreateCategory(e) \/ InsertApp(e)
    \/ CheckName(e) \/ CheckCategory(e) \/ WriteApp(e) \/ EditFails(e)

FavoriteNext ==
    \/ \E u \in Users, a \in Apps :
        \/ AddFavorite(u, a) \/ MatchFavorite(u, a) \/ InsertFavorite(u, a)
        \/ RemoveFavorite(u, a) \/ AddFails(u, a)
    \/ Tick

CatalogueNext == FavoriteNext \/ \E e \in Editors : EditNext(e)

CatalogueSpec == CatalogueInit /\ [][CatalogueNext]_catalogueVars

-------------------------------------------------------------------------------
(* Properties.                                                                 *)

CatalogueTypeOK ==
    /\ apps \in [Apps -> App \cup {NoApp}]
    /\ favorites \subseteq Favorite
    /\ roleOf \in [Users -> Roles]
    /\ now \in 0..MaxTime
    /\ edits \in [Editors -> Edit]
    /\ adding \subseteq [userId : Users, webAppId : Apps, at : Upsert]

(* Two requests that both found a name free leave one application with it.     *)
UniqueNames ==
    \A a, b \in Stored : apps[a].name = apps[b].name => a = b

(* Clicks that all found no favourite leave one per user and application.      *)
OneFavorite ==
    \A d, f \in favorites :
        d.userId = f.userId /\ d.webAppId = f.webAppId => d = f

(* A waiting update has a document, a waiting insert all its fields and a      *)
(* category that exists; a category is never removed.                          *)
EditsAreChecked ==
    \A e \in Editors :
        /\ edits[e].at # "idle" => edits[e].body \in Bodies
        /\ edits[e].at \in {"createCategory", "insert"} => Complete(edits[e].body)
        /\ edits[e].at = "insert" => edits[e].body.categoryId \in Categories
        /\ edits[e].at \in {"name", "category", "write"} => edits[e].app \in Stored
        /\ edits[e].at = "write" =>
             edits[e].body.categoryId \in Categories \cup {Undefined}

(* Inductive: the registry and the favourites keep their keys, and no          *)
(* application is stored with a category that does not exist.                  *)
CatalogueInv ==
    CatalogueTypeOK /\ UniqueNames /\ OneFavorite /\ EditsAreChecked

(* A favourite may have been added while its application was public.  Whatever *)
(* happened since, what a user is shown as favourite could be added now, and   *)
(* is found by turning the pages of its catalogue.                             *)
FavoritesStayVisible ==
    \A u \in Users :
        /\ ListFavorites(u) \subseteq ListUserApps(u)
        /\ ListUserApps(u) = {a \in Apps : Favoritable(a, roleOf[u])}
        /\ \A asked \in (1..MaxLimit + 1) \cup {Unset} :
             PagesShowAll(ListUserApps(u), asked)

(* Two edits of one application that name different fields both survive: a     *)
(* field changes only to a value that a request in flight names for it.        *)
NoLostUpdate ==
    \A a \in Stored : \A field \in DOMAIN apps[a] :
        apps'[a][field] # apps[a][field] =>
            \E e \in Editors : /\ edits[e].at = "write" /\ edits[e].app = a
                               /\ edits[e].body[field] = apps'[a][field]

(* Clicking again does not move a favourite to the top of the list: as long as *)
(* it is stored its createdAt stays.                                           *)
FavoritesKeepOrder ==
    \A d \in favorites, f \in favorites' :
        d.userId = f.userId /\ d.webAppId = f.webAppId => d = f

(* Whatever runs at the same time, a write changes no more than was asked for. *)
WritesStayNarrow == [][NoLostUpdate /\ FavoritesKeepOrder]_catalogueVars
===============================================================================
