------------------------------ MODULE MCDocuments ------------------------------
(* The modules about single collections, side by side: a behaviour looks at    *)
(* one collection, chosen at the start.  They share no documents, so nothing   *)
(* is lost by not interleaving them.                                           *)
EXTENDS AdminLock, Catalogue, Records

VARIABLE focus

mcVars == <<vars, catalogueVars, recordVars, focus>>

Topics == {"locks", "registry", "favorites",
           "contacts", "notifications", "histories", "profiles"}

(* Outside its topic a module starts in one state only.                        *)
MCInit ==
    /\ focus \in Topics
    /\ Init /\ (focus # "locks" => active = Admins)
    /\ CatalogueInit
    /\ focus # "favorites" => \A u \in Users : roleOf[u] = "USER"
    /\ RecordsInit
    /\ focus # "notifications" =>
          \A n \in Notifications : ~notifications[n].isRead
    /\ focus # "notifications" =>
          \A m, n \in Notifications : notifications[m].owner = notifications[n].owner

Locks == focus = "locks" /\ Next /\ UNCHANGED <<catalogueVars, recordVars>>

(* Concurrent edits of the registry, without favourites.                       *)
Registry ==
    /\ focus = "registry"
    /\ \E e \in Editors : EditNext(e)
    /\ UNCHANGED <<vars, recordVars>>

(* Bodies that create an application or change who sees it.                    *)
VisibilityBodies ==
    {b \in Bodies : \/ Complete(b) /\ b.categoryId \in Categories
                    \/ b.name = Undefined /\ b.categoryId = Undefined}

(* Favourites, while one administrator changes what is visible.                *)
Favorites ==
    /\ focus = "favorites"
    /\ FavoriteNext \/ EditNext(CHOOSE e \in Editors : TRUE)
    /\ \A e \in Editors : edits'[e].body \in VisibilityBodies \cup {NoApp}
    /\ UNCHANGED <<vars, recordVars>>

Documents ==
    /\ \/ focus = "contacts" /\ ContactNext
       \/ focus = "notifications" /\ NotificationNext
       \/ focus = "histories" /\ HistoryNext
       \/ focus = "profiles" /\ ProfileNext
    /\ UNCHANGED <<vars, catalogueVars>>

MCNext == (Locks \/ Registry \/ Favorites \/ Documents) /\ UNCHANGED focus

MCSpec == MCInit /\ [][MCNext]_mcVars

MCBody(n, c, s, r, d) ==
    [name |-> n, categoryId |-> c, status |-> s, requiredRoles |-> r, details |-> d]

(* Complete bodies for two names, and edits of one or two fields.              *)
MCBodies ==
    {MCBody(n, c, "ACTIVE", {"USER"}, TRUE) : n \in Names, c \in Categories}
    \cup {MCBody(n, Undefined, "ACTIVE", Undefined, Undefined) : n \in Names}
    \cup {MCBody(Undefined, c, Undefined, {"USER", "ADMIN"}, FALSE) :
             c \in Categories \cup {NoCategory}}
    \cup {MCBody(CHOOSE n \in Names : TRUE, NoCategory, "ACTIVE", {"USER"}, TRUE),
          MCBody(Undefined, Undefined, "INACTIVE", Undefined, Undefined),
          MCBody(Undefined, Undefined, Undefined, {"ADMIN"}, Undefined)}

(* Lengths at the ends of the rules, and texts that only their blanks or their *)
(* markup make long enough.                                                    *)
MCTexts ==
    {[blanks |-> 0, markup |-> 0, core |-> n] : n \in {1, 5, 200, 5000}}
    \cup {[blanks |-> 3, markup |-> 0, core |-> n] : n \in {1, 2}}
    \cup {[blanks |-> 0, markup |-> 4, core |-> 2],
          [blanks |-> 15, markup |-> 4, core |-> 5]}
===============================================================================
