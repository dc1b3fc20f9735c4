-------------------------------- MODULE Records --------------------------------
(* The documents that belong to a user: contacts, notifications, the history   *)
(* of its logins and its profile.  Every request is one database operation;    *)
(* only the record of a login is written later, by nobody's request.           *)
(* `answer` is the last answer that showed documents.                          *)
EXTENDS Paging

CONSTANTS Owners,         \* users with an account
          Nobody,         \* a guest, or the null of a missing owner
          Admin,          \* whoever passed the administrators' guard
          Contacts,       \* documents of the collection contacts
          Notifications,  \* documents of the collection notifications
          Histories,      \* documents of the collection login_histories
          Texts,          \* strings that requests contain
          NoDoc           \* no document

(* A string as the checks see it: the blanks around it, what sanitizeText      *)
(* takes out of it, and how long the rest is.                                  *)
Text == [blanks : Nat, markup : Nat, core : Nat]

ASSUME RecordsAssumption ==
    /\ Texts \subseteq Text
    /\ Nobody \notin Owners /\ Admin \notin Owners \cup {Nobody}
    /\ Unset \notin Owners

VARIABLES contacts, notifications, histories, profiles, answer,
          edited  \* history: who has edited its profile

recordVars == <<contacts, notifications, histories, profiles, answer, edited>>

ContactStatuses == {"new", "processing", "resolved"}

LoginStatuses == {"success", "failed"}

Contact == [owner : Owners \cup {Nobody}, status : ContactStatuses,
            subject : Text, message : Text]

Notification == [owner : Owners, isRead : BOOLEAN]

(* `written` says whether the unawaited create has taken effect.               *)
History == [owner : Owners \cup {Nobody}, status : LoginStatuses,
            written : BOOLEAN]

(* `personal` stands for the fields that are nobody else's business: e-mail,   *)
(* phone, address and date of birth.                                           *)
Profile == [owner : Owners, fullName : Text, personal : BOOLEAN]

(* A profile without them.                                                     *)
PublicProfile == [owner : Owners, fullName : Text]

(* Notifications come from the seeder: some users have them.                   *)
RecordsInit ==
    /\ contacts = [c \in Contacts |-> NoDoc]
    /\ notifications \in [Notifications -> Notification]
    /\ histories = [h \in Histories |-> NoDoc]
    /\ profiles = [o \in Owners |-> NoDoc]
    /\ answer = [to |-> Nobody, docs |-> {}]
    /\ edited = {}

Answers(to, docs) == answer' = [to |-> to, docs |-> docs]

ItemsOf(collection) ==
    {collection[i] : i \in {j \in DOMAIN collection : collection[j] # NoDoc}}

Matches(doc, field, wanted) == wanted = Unset \/ doc[field] = wanted

-------------------------------------------------------------------------------
(* What is accepted and what is stored.                                        *)

SubjectRule == [min |-> 5, max |-> 200]
MessageRule == [min |-> 20, max |-> 5000]
FullNameRule == [min |-> 2, max |-> 100]

Within(length, rule) == rule.min <= length /\ length <= rule.max

(* The body check does not trim these fields.                                  *)
BodyAccepts(text, rule) == Within(text.blanks + text.markup + text.core, rule)

(* A name may not contain markup.                                              *)
NameAccepted(name) == name.markup = 0 /\ BodyAccepts(name, FullNameRule)

(* Defect: sanitizeText does not trim.                                         *)
SanitizedUntrimmed(text) == text.blanks + text.core

(* The length of sanitizeText: without tags, and trimmed.                      *)
Sanitized(text) == text.core

(* The schema of the collection trims, and looks at the length after that.     *)
Trimmed(text) == [text EXCEPT !.blanks = 0]

ModelAccepts(text, rule) == Within(text.markup + text.core, rule)

-------------------------------------------------------------------------------
(* Contacts.                                                                   *)

(* The checks of submitContact before its create.                              *)
Submittable(subject, message) ==
    /\ BodyAccepts(subject, SubjectRule) /\ BodyAccepts(message, MessageRule)
    /\ Within(Sanitized(subject), SubjectRule)
    /\ Within(Sanitized(message), MessageRule)

NewContact(from, subject, message) ==
    [owner |-> from, status |-> "new",
     subject |-> Trimmed(subject), message |-> Trimmed(message)]

(* The owner is the user of a valid access token, else nobody.  The texts are  *)
(* stored as they came, not as they were sanitised.                            *)
SubmitContact(from, c, subject, message) ==
    LET doc == NewContact(from, subject, message)
    IN  /\ contacts[c] = NoDoc
        /\ Submittable(subject, message)
        /\ ModelAccepts(subject, SubjectRule) /\ ModelAccepts(message, MessageRule)
        /\ contacts' = [contacts EXCEPT ![c] = doc]
        /\ Answers(from, {doc})
        /\ UNCHANGED <<notifications, histories, profiles, edited>>

(* Any status may follow any other.                                            *)
UpdateContactStatus(c, status) ==
    /\ contacts[c] # NoDoc
    /\ contacts' = [contacts EXCEPT ![c].status = status]
    /\ Answers(Admin, {contacts'[c]})
    /\ UNCHANGED <<notifications, histories, profiles, edited>>

FindContacts(status) == {d \in ItemsOf(contacts) : Matches(d, "status", status)}

(* The owner is put into the filter last, over whatever the query holds.       *)
FindContactsByUser(u, status) == {d \in FindContacts(status) : d.owner = u}

GetContactList(status) ==
    /\ Answers(Admin, FindContacts(status))
    /\ UNCHANGED <<contacts, notifications, histories, profiles, edited>>

GetContactDetail(c) ==
    /\ contacts[c] # NoDoc
    /\ Answers(Admin, {contacts[c]})
    /\ UNCHANGED <<contacts, notifications, histories, profiles, edited>>

GetMyContacts(u, status) ==
    /\ Answers(u, FindContactsByUser(u, status))
    /\ UNCHANGED <<contacts, notifications, histories, profiles, edited>>

(* Defect: the document is found by its identifier alone.                      *)
FindByIdForAnyone(c, u) == contacts[c] # NoDoc

(* findByIdForUser; what belongs to someone else is answered as missing.       *)
FindByIdForUser(c, u) == contacts[c] # NoDoc /\ contacts[c].owner = u

GetMyContactDetail(u, c) ==
    /\ FindByIdForUser(c, u)
    /\ Answers(u, {contacts[c]})
    /\ UNCHANGED <<contacts, notifications, histories, profiles, edited>>

-------------------------------------------------------------------------------
(* Notifications.                                                              *)

(* buildNotificationFilter and toMongoFilter.                                  *)
FindNotifications(u, isRead) ==
    {d \in ItemsOf(notifications) : d.owner = u /\ Matches(d, "isRead", isRead)}

ListNotifications(u, isRead) ==
    /\ Answers(u, FindNotifications(u, isRead))
    /\ UNCHANGED <<contacts, notifications, histories, profiles, edited>>

(* The answer is a number; the model shows what it counts.                     *)
UnreadCount(u) ==
    /\ Answers(u, FindNotifications(u, FALSE))
    /\ UNCHANGED <<contacts, notifications, histories, profiles, edited>>

(* findOneAndUpdate with the owner in its filter.                              *)
MarkRead(u, n) ==
    /\ notifications[n].owner = u
    /\ notifications' = [notifications EXCEPT ![n].isRead = TRUE]
    /\ Answers(u, {notifications'[n]})
    /\ UNCHANGED <<contacts, histories, profiles, edited>>

(* The answer is the number of documents that changed.                         *)
MarkAllRead(u) ==
    LET unread == {n \in Notifications : /\ notifications[n].owner = u
                                         /\ ~notifications[n].isRead}
    IN  /\ notifications' = [n \in Notifications |->
               IF n \in unread THEN [notifications[n] EXCEPT !.isRead = TRUE]
               ELSE notifications[n]]
        /\ Answers(u, {notifications[n] : n \in unread})
        /\ UNCHANGED <<contacts, histories, profiles, edited>>

-------------------------------------------------------------------------------
(* History of the logins.                                                      *)

(* logLoginAttempt is not awaited; an unknown address has no owner.            *)
RecordLogin(owner, status, h) ==
    /\ histories[h] = NoDoc
    /\ owner = Nobody => status = "failed"
    /\ histories' = [histories EXCEPT ![h] =
           [owner |-> owner, status |-> status, written |-> FALSE]]
    /\ UNCHANGED <<contacts, notifications, profiles, answer, edited>>

HistoryWritten(h) ==
    /\ histories[h] # NoDoc
    /\ histories' = [histories EXCEPT ![h].written = TRUE]
    /\ UNCHANGED <<contacts, notifications, profiles, answer, edited>>

(* An error is logged and swallowed, a crash loses the write, and what was     *)
(* written is removed after RETENTION_DAYS.                                    *)
HistoryLost(h) ==
    /\ histories[h] # NoDoc
    /\ histories' = [histories EXCEPT ![h] = NoDoc]
    /\ UNCHANGED <<contacts, notifications, profiles, answer, edited>>

(* buildLoginHistoryFilter: a user's own identifier goes first.                *)
BuildLoginHistoryFilter(query, userId) ==
    [owner |-> IF userId # Unset THEN userId ELSE query.owner,
     status |-> query.status]

FindHistories(filter) ==
    {d \in ItemsOf(histories) :
        /\ d.written
        /\ Matches(d, "owner", filter.owner)
        /\ Matches(d, "status", filter.status)}

(* The pipe has taken a userId out of the query of a user.                     *)
GetMyLoginHistory(u, query) ==
    /\ query.owner = Unset
    /\ Answers(u, FindHistories(BuildLoginHistoryFilter(query, u)))
    /\ UNCHANGED <<contacts, notifications, histories, profiles, edited>>

(* aggregateMyStats: the numbers of a user's logins by status.                 *)
StatsMatch(u) == {d \in ItemsOf(histories) : d.written /\ d.owner = u}

GetMyLoginStats(u) ==
    /\ Answers(u, StatsMatch(u))
    /\ UNCHANGED <<contacts, notifications, histories, profiles, edited>>

GetAllLoginHistory(query) ==
    /\ Answers(Admin, FindHistories(BuildLoginHistoryFilter(query, Unset)))
    /\ UNCHANGED <<contacts, notifications, histories, profiles, edited>>

GetLoginHistoryDetail(h) ==
    /\ histories[h] # NoDoc /\ histories[h].written
    /\ Answers(Admin, {histories[h]})
    /\ UNCHANGED <<contacts, notifications, histories, profiles, edited>>

-------------------------------------------------------------------------------
(* Profiles.                                                                   *)

(* createProfile within the transaction of a sign-up; the schema validates.    *)
CreateProfile(u, name) ==
    /\ profiles[u] = NoDoc
    /\ NameAccepted(name) /\ ModelAccepts(name, FullNameRule)
    /\ profiles' = [profiles EXCEPT ![u] =
           [owner |-> u, fullName |-> Trimmed(name), personal |-> FALSE]]
    /\ UNCHANGED <<contacts, notifications, histories, answer, edited>>

(* $set by findByIdAndUpdate casts, which trims, and does not validate.        *)
UpdateMyProfile(u, name, personal) ==
    /\ profiles[u] # NoDoc
    /\ NameAccepted(name)
    /\ profiles' = [profiles EXCEPT ![u] =
           [owner |-> u, fullName |-> Trimmed(name), personal |-> personal]]
    /\ Answers(u, {profiles'[u]})
    /\ edited' = edited \cup {u}
    /\ UNCHANGED <<contacts, notifications, histories>>

GetMyProfile(u) ==
    /\ profiles[u] # NoDoc
    /\ Answers(u, {profiles[u]})
    /\ UNCHANGED <<contacts, notifications, histories, profiles, edited>>

(* Defect: the query is the one for a user's own profile.                      *)
SelectAll(profile) == profile

(* findPublicById selects the name, the avatar and the gender.                 *)
SelectPublic(profile) == [owner |-> profile.owner, fullName |-> profile.fullName]

(* Anybody may ask for the profile of anybody; no guard is in front of it.     *)
GetPublicProfile(reader, u) ==
    /\ profiles[u] # NoDoc
    /\ Answers(reader, {SelectPublic(profiles[u])})
    /\ UNCHANGED <<contacts, notifications, histories, profiles, edited>>

(* One page of the users that a search of the administrators finds.            *)
GetAdminUsers ==
    /\ \E found \in SUBSET ItemsOf(profiles) : Answers(Admin, found)
    /\ UNCHANGED <<contacts, notifications, histories, profiles, edited>>

-------------------------------------------------------------------------------

ContactNext ==
    \/ \E from \in Owners \cup {Nobody}, c \in Contacts, s, m \in Texts :
          SubmitContact(from, c, s, m)
    \/ \E c \in Contacts, status \in ContactStatuses : UpdateContactStatus(c, status)
    \/ \E status \in ContactStatuses \cup {Unset} :
          GetContactList(status) \/ \E u \in Owners : GetMyContacts(u, status)
    \/ \E c \in Contacts :
          GetContactDetail(c) \/ \E u \in Owners : GetMyContactDetail(u, c)

NotificationNext ==
    \E u \in Owners :
        \/ \E isRead \in BOOLEAN \cup {Unset} : ListNotifications(u, isRead)
        \/ \E n \in Notifications : MarkRead(u, n)
        \/ UnreadCount(u) \/ MarkAllRead(u)

Queries == [owner : Owners \cup {Unset}, status : LoginStatuses \cup {Unset}]

HistoryNext ==
    \/ \E h \in Histories :
        \/ \E o \in Owners \cup {Nobody}, s \in LoginStatuses : RecordLogin(o, s, h)
        \/ HistoryWritten(h) \/ HistoryLost(h) \/ GetLoginHistoryDetail(h)
    \/ \E query \in Queries :
        GetAllLoginHistory(query) \/ \E u \in Owners : GetMyLoginHistory(u, query)
    \/ \E u \in Owners : GetMyLoginStats(u)

ProfileNext ==
    \/ \E u \in Owners :
        \/ \E name \in Texts :
              \/ CreateProfile(u, name)
              \/ \E personal \in BOOLEAN : UpdateMyProfile(u, name, personal)
        \/ GetMyProfile(u)
        \/ \E reader \in Owners \cup {Nobody} : GetPublicProfile(reader, u)
    \/ GetAdminUsers

RecordsNext == ContactNext \/ NotificationNext \/ HistoryNext \/ ProfileNext

RecordsSpec == RecordsInit /\ [][RecordsNext]_recordVars

-------------------------------------------------------------------------------
(* Properties.                                                                 *)

(* Somebody's documents that differ between two values of a collection.        *)
ChangedOwners(old, new) ==
    {old[i].owner : i \in {j \in DOMAIN old : old[j] # NoDoc /\ new[j] # old[j]}}

(* Whatever identifiers and filters the requests of several users contain, a   *)
(* user, or a guest, is shown only documents of its own and of others no more  *)
(* than the public part of a profile; and it marks only its own notifications  *)
(* and edits only its own profile.                                             *)
OwnersOnly ==
    [][/\ answer'.to # Admin =>
            \A d \in answer'.docs : d.owner = answer'.to \/ d \in PublicProfile
       /\ ChangedOwners(notifications, notifications') \subseteq {answer'.to}
       /\ ChangedOwners(profiles, profiles') \subseteq {answer'.to}
       /\ ChangedOwners(contacts, contacts') # {} => answer'.to = Admin
      ]_recordVars

(* The two layers that check a text agree: what the body check and sanitising  *)
(* let through, the schema accepts, and so does whatever is stored.  Only the  *)
(* edit of a profile writes around the schema.                                 *)
StoredFitsModel ==
    /\ \A s, m \in Texts : Submittable(s, m) =>
          ModelAccepts(s, SubjectRule) /\ ModelAccepts(m, MessageRule)
    /\ \A d \in ItemsOf(contacts) :
          ModelAccepts(d.subject, SubjectRule) /\ ModelAccepts(d.message, MessageRule)
    /\ \A d \in ItemsOf(profiles) :
          d.owner \notin edited => ModelAccepts(d.fullName, FullNameRule)
===============================================================================
