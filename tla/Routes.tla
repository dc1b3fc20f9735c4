-------------------------------- MODULE Routes --------------------------------
(* The routing table: every router the server mounts with the layers before    *)
(* its handlers, the handlers with what they answer and need, and the walk of  *)
(* Express through them.  A path is a sequence of segments, Param stands for   *)
(* a route parameter.                                                          *)
EXTENDS Naturals, SequencesExt

Param == "?"

Limit(name) == [kind |-> "limit", name |-> name]
Guard(name) == [kind |-> "guard", name |-> name]
Pipe(source) == [kind |-> "pipe", name |-> source]
Handler(name) == [kind |-> "handler", name |-> name]

Auth == Guard("auth")
OptionalAuth == Guard("optionalAuth")
Admin == Guard("admin")
Body == Pipe("body")
Params == Pipe("params")
Query == Pipe("query")

Route(method, path, layers, handler) ==
    [method |-> method, path |-> path, layers |-> Append(layers, Handler(handler))]

(* router.use(prefix, guards, sub-router)                                      *)
Router(prefix, guards, routes) == [prefix |-> prefix, guards |-> guards, routes |-> routes]

-------------------------------------------------------------------------------
(* The routers of the modules.                                                 *)

SignupRouter == Router(<<"auth", "signup">>, <<>>, <<
    Route("POST", <<"send-otp">>, <<Limit("signupOtpByIp"), Limit("signupOtpByEmail"), Body>>, "signup.sendOtp"),
    Route("POST", <<"verify-otp">>, <<Body>>, "signup.verifyOtp"),
    Route("POST", <<"resend-otp">>, <<Limit("signupOtpByIp"), Limit("signupOtpByEmail"), Body>>, "signup.resendOtp"),
    Route("POST", <<"complete">>, <<Body>>, "signup.completeSignup"),
    Route("GET", <<"check-email", Param>>, <<Limit("checkEmailByIp"), Params>>, "signup.checkEmail")>>)

LoginRouter == Router(<<"auth", "login">>, <<>>, <<
    Route("POST", <<>>, <<Limit("loginByIp"), Body>>, "login.login"),
    Route("POST", <<"otp", "send">>, <<Limit("loginOtpByIp"), Limit("loginOtpByEmail"), Body>>, "login.sendOtp"),
    Route("POST", <<"otp", "verify">>, <<Limit("loginByIp"), Body>>, "login.verifyOtp"),
    Route("POST", <<"magic-link", "send">>, <<Limit("magicLinkByIp"), Limit("magicLinkByEmail"), Body>>, "login.sendMagicLink"),
    Route("POST", <<"magic-link", "verify">>, <<Limit("loginByIp"), Body>>, "login.verifyMagicLink")>>)

LogoutRouter == Router(<<"auth", "logout">>, <<>>, <<
    Route("POST", <<>>, <<Auth>>, "logout.logout")>>)

TokenRouter == Router(<<"auth", "token">>, <<>>, <<
    Route("POST", <<"refresh">>, <<>>, "token.refreshToken")>>)

(* Defect: the verification of a temporary password is not limited.            *)
UnlockRouterUnlimited == Router(<<"auth", "unlock">>, <<>>, <<
    Route("POST", <<"request">>, <<Body>>, "unlock.unlockRequest"),
    Route("POST", <<"verify">>, <<Body>>, "unlock.unlockVerify")>>)

UnlockRouter == Router(<<"auth", "unlock">>, <<>>, <<
    Route("POST", <<"request">>, <<Body>>, "unlock.unlockRequest"),
    Route("POST", <<"verify">>, <<Limit("loginByIp"), Body>>, "unlock.unlockVerify")>>)

ForgotPasswordRouter == Router(<<"auth", "forgot-password">>, <<>>, <<
    Route("POST", <<"otp", "send">>,
          <<Limit("forgotPasswordOtpByIp"), Limit("forgotPasswordOtpByEmail"), Body>>, "forgot.sendOtp"),
    Route("POST", <<"otp", "verify">>, <<Limit("forgotPasswordOtpByIp"), Body>>, "forgot.verifyOtp"),
    Route("POST", <<"magic-link", "send">>,
          <<Limit("forgotPasswordMagicLinkByIp"), Limit("forgotPasswordMagicLinkByEmail"), Body>>, "forgot.sendMagicLink"),
    Route("POST", <<"magic-link", "verify">>, <<Limit("forgotPasswordMagicLinkByIp"), Body>>, "forgot.verifyMagicLink"),
    Route("POST", <<"reset">>, <<Limit("forgotPasswordResetByIp"), Body>>, "forgot.resetPassword")>>)

ChangePasswordRouter == Router(<<"auth", "change-password">>, <<>>, <<
    Route("PATCH", <<>>, <<Auth, Limit("changePasswordByIpAndUser"), Body>>, "changePassword.changePassword")>>)

(* Defect: the public profile is declared before "me".                         *)
UserRouterPublicFirst == Router(<<"users">>, <<>>, <<
    Route("GET", <<Param>>, <<Params>>, "user.getPublicProfile"),
    Route("GET", <<"me">>, <<Auth>>, "user.getMyProfile"),
    Route("PATCH", <<"me">>, <<Limit("updateProfileByIp"), Auth, Body>>, "user.updateMyProfile")>>)

UserRouter == Router(<<"users">>, <<>>, <<
    Route("GET", <<"me">>, <<Auth>>, "user.getMyProfile"),
    Route("PATCH", <<"me">>, <<Limit("updateProfileByIp"), Auth, Body>>, "user.updateMyProfile"),
    Route("GET", <<Param>>, <<Params>>, "user.getPublicProfile")>>)

UserAdminRouter == Router(<<"admin", "users">>, <<Auth, Admin>>, <<
    Route("GET", <<>>, <<Query>>, "user.getAdminUsers"),
    Route("PATCH", <<Param, "lock">>, <<Limit("adminUserMutationByIpAndUser"), Params>>, "user.lockUser"),
    Route("PATCH", <<Param, "unlock">>, <<Limit("adminUserMutationByIpAndUser"), Params>>, "user.unlockUser"),
    Route("POST", <<Param, "reset-password">>, <<Limit("adminUserMutationByIpAndUser"), Params>>, "user.resetUserPassword")>>)

LoginHistoryUserRouter == Router(<<"login-history">>, <<Auth>>, <<
    Route("GET", <<"stats">>, <<>>, "loginHistory.getMyStats"),
    Route("GET", <<>>, <<Query>>, "loginHistory.getMyHistory")>>)

LoginHistoryAdminRouter == Router(<<"admin", "login-history">>, <<Auth, Admin>>, <<
    Route("GET", <<>>, <<Query>>, "loginHistory.getAllHistory"),
    Route("GET", <<Param>>, <<Params>>, "loginHistory.getHistoryDetail")>>)

NotificationRouter == Router(<<"notifications">>, <<Auth>>, <<
    Route("GET", <<"unread-count">>, <<>>, "notification.unreadCount"),
    Route("PATCH", <<"read-all">>, <<>>, "notification.markAllRead"),
    Route("GET", <<>>, <<Query>>, "notification.list"),
    Route("PATCH", <<Param, "read">>, <<Params>>, "notification.markRead")>>)

(* Defect: adding a favourite is left to optional authentication.              *)
FavoriteRouterOptional == Router(<<"users", "me", "favorites">>, <<OptionalAuth>>, <<
    Route("GET", <<>>, <<Query>>, "favorite.list"),
    Route("POST", <<Param>>, <<Params>>, "favorite.add"),
    Route("DELETE", <<Param>>, <<Params>>, "favorite.remove")>>)

FavoriteRouter == Router(<<"users", "me", "favorites">>, <<Auth>>, <<
    Route("GET", <<>>, <<Query>>, "favorite.list"),
    Route("POST", <<Param>>, <<Params>>, "favorite.add"),
    Route("DELETE", <<Param>>, <<Params>>, "favorite.remove")>>)

ContactRouter == Router(<<"contact">>, <<>>, <<
    Route("POST", <<"submit">>, <<Limit("contactByIp"), OptionalAuth, Body>>, "contact.submit")>>)

(* Defect: the administrators' view of contacts asks for a token only.         *)
ContactAdminRouterAuthOnly == Router(<<"admin", "contacts">>, <<Auth>>, <<
    Route("GET", <<>>, <<Query>>, "contact.getContactList"),
    Route("GET", <<Param>>, <<Params>>, "contact.getContactDetail"),
    Route("PATCH", <<Param, "status">>, <<Params, Body>>, "contact.updateContactStatus")>>)

ContactAdminRouter == Router(<<"admin", "contacts">>, <<Auth, Admin>>, <<
    Route("GET", <<>>, <<Query>>, "contact.getContactList"),
    Route("GET", <<Param>>, <<Params>>, "contact.getContactDetail"),
    Route("PATCH", <<Param, "status">>, <<Params, Body>>, "contact.updateContactStatus")>>)

MyContactsRouter == Router(<<"contacts">>, <<Auth>>, <<
    Route("GET", <<>>, <<Query>>, "contact.getMyContacts"),
    Route("GET", <<Param>>, <<Params>>, "contact.getMyContactDetail")>>)

WebAppAdminRouter == Router(<<"admin", "apps">>, <<Auth, Admin>>, <<
    Route("GET", <<"categories">>, <<>>, "webApp.listCategories"),
    Route("GET", <<>>, <<Query>>, "webApp.listApps"),
    Route("POST", <<>>, <<Body>>, "webApp.createApp"),
    Route("PATCH", <<Param>>, <<Params, Body>>, "webApp.updateApp")>>)

WebAppUserRouter == Router(<<"apps">>, <<>>, <<
    Route("GET", <<"categories">>, <<Limit("categoriesByIp"), OptionalAuth>>, "webApp.listUserCategories"),
    Route("GET", <<>>, <<Auth, Query>>, "webApp.listUserApps")>>)

HealthRouter == Router(<<"health">>, <<>>, <<
    Route("GET", <<"mongodb">>, <<>>, "health.checkMongoDB"),
    Route("GET", <<"redis">>, <<>>, "health.checkRedis"),
    Route("GET", <<"all">>, <<>>, "health.checkAll")>>)

(* Swagger's page and document.                                                *)
DocsRouter == Router(<<>>, <<>>, <<
    Route("GET", <<"api-docs">>, <<>>, "docs.page"),
    Route("GET", <<"api-docs.json">>, <<>>, "docs.document")>>)

(* Bull Board, without a guard.  The library's own routes are its pages and    *)
(* the commands on a queue; the table holds one of each.                       *)
QueuesRouter == Router(<<"admin", "queues">>, <<>>, <<
    Route("GET", <<>>, <<>>, "queues.page"),
    Route("PUT", <<"api", "queues", Param, "pause">>, <<>>, "queues.command")>>)

MountV1 == <<"api", "v1">>

(* The routers in the order they are mounted: the documentation when the       *)
(* application is made, the dashboard with the queues, then the modules.       *)
Mounted ==
    LET v1(router) == [router EXCEPT !.prefix = MountV1 \o @]
        modules == <<SignupRouter, LoginRouter, LogoutRouter, TokenRouter, UnlockRouter,
                     ForgotPasswordRouter, ChangePasswordRouter,
                     UserRouter, UserAdminRouter, LoginHistoryUserRouter, LoginHistoryAdminRouter,
                     NotificationRouter, FavoriteRouter,
                     ContactRouter, ContactAdminRouter, MyContactsRouter,
                     WebAppAdminRouter, WebAppUserRouter>>
    IN  <<DocsRouter, QueuesRouter>> \o [i \in DOMAIN modules |-> v1(modules[i])] \o <<HealthRouter>>

-------------------------------------------------------------------------------
(* The controllers: with which status a handler answers, and what it, or the   *)
(* service it calls, requires of the request's identity.                       *)

Answers(status, needs, handlers) == [h \in handlers |-> [success |-> status, needs |-> needs]]

SignupHandlers ==
    Answers(201, "nobody", {"signup.completeSignup"}) @@
    Answers(200, "nobody", {"signup.sendOtp", "signup.verifyOtp", "signup.resendOtp", "signup.checkEmail"})

LoginHandlers ==
    Answers(200, "nobody", {"login.login", "login.sendOtp", "login.verifyOtp",
                            "login.sendMagicLink", "login.verifyMagicLink"})

LogoutHandlers == Answers(204, "user", {"logout.logout"})

TokenHandlers == Answers(200, "nobody", {"token.refreshToken"})

UnlockHandlers == Answers(200, "nobody", {"unlock.unlockRequest", "unlock.unlockVerify"})

ForgotPasswordHandlers ==
    Answers(200, "nobody", {"forgot.sendOtp", "forgot.verifyOtp", "forgot.sendMagicLink",
                            "forgot.verifyMagicLink", "forgot.resetPassword"})

ChangePasswordHandlers == Answers(200, "user", {"changePassword.changePassword"})

UserHandlers ==
    Answers(200, "user", {"user.getMyProfile", "user.updateMyProfile", "user.lockUser", "user.resetUserPassword"}) @@
    Answers(200, "nobody", {"user.getPublicProfile", "user.getAdminUsers", "user.unlockUser"})

LoginHistoryHandlers ==
    Answers(200, "user", {"loginHistory.getMyStats", "loginHistory.getMyHistory"}) @@
    Answers(200, "nobody", {"loginHistory.getAllHistory", "loginHistory.getHistoryDetail"})

NotificationHandlers ==
    Answers(200, "user", {"notification.unreadCount", "notification.markAllRead",
                          "notification.list", "notification.markRead"})

FavoriteHandlers ==
    Answers(200, "user", {"favorite.list"}) @@
    Answers(201, "user", {"favorite.add"}) @@
    Answers(204, "user", {"favorite.remove"})

ContactHandlers ==
    Answers(201, "nobody", {"contact.submit"}) @@
    Answers(200, "nobody", {"contact.getContactList", "contact.getContactDetail", "contact.updateContactStatus"}) @@
    Answers(200, "user", {"contact.getMyContacts", "contact.getMyContactDetail"})

WebAppHandlers ==
    Answers(201, "nobody", {"webApp.createApp"}) @@
    Answers(200, "nobody", {"webApp.listApps", "webApp.listUserApps", "webApp.listCategories",
                            "webApp.listUserCategories", "webApp.updateApp"})

HealthHandlers == Answers(200, "nobody", {"health.checkMongoDB", "health.checkRedis", "health.checkAll"})

DocsHandlers == Answers(200, "nobody", {"docs.page", "docs.document"})

QueuesHandlers == Answers(200, "nobody", {"queues.page", "queues.command"})

Handlers ==
    DocsHandlers @@ QueuesHandlers @@
    SignupHandlers @@ LoginHandlers @@ LogoutHandlers @@ TokenHandlers @@ UnlockHandlers @@
    ForgotPasswordHandlers @@ ChangePasswordHandlers @@ UserHandlers @@ LoginHistoryHandlers @@
    NotificationHandlers @@ FavoriteHandlers @@ ContactHandlers @@ WebAppHandlers @@ HealthHandlers

-------------------------------------------------------------------------------
(* The walk: a router whose prefix the path has runs its guards, then the      *)
(* layers of each of its routes that match; what is not handled goes on to the *)
(* next router and at last to handleNotFound.                                  *)

Covers(pattern, path) ==
    /\ Len(pattern) = Len(path)
    /\ \A i \in DOMAIN path : pattern[i] \in {path[i], Param}

LayersOf(router, method, path) ==
    LET k == Len(router.prefix)
        rest == SubSeq(path, k + 1, Len(path))
        hits == SelectSeq(router.routes, LAMBDA r : r.method = method /\ Covers(r.path, rest))
    IN  IF IsPrefix(router.prefix, path)
        THEN router.guards \o FlattenSeq([i \in DOMAIN hits |-> hits[i].layers])
        ELSE <<>>

NotFound == Handler("handleNotFound")

(* The layers a request meets, up to the first handler.                        *)
Walk(method, path) ==
    LET layers == Append(FlattenSeq([i \in DOMAIN Mounted |-> LayersOf(Mounted[i], method, path)]), NotFound)
        end == CHOOSE i \in DOMAIN layers :
                   /\ layers[i].kind = "handler"
                   /\ \A j \in 1..(i - 1) : layers[j].kind # "handler"
    IN  SubSeq(layers, 1, end)

(* A request that names a route with `value` for its parameters.               *)
RequestFor(router, route, value) ==
    [method |-> route.method,
     path |-> router.prefix \o [i \in DOMAIN route.path |-> IF route.path[i] = Param THEN value ELSE route.path[i]]]
===============================================================================
