----------------------------- MODULE Navigation -----------------------------
(***************************************************************************)
(* How the web application decides which page a browser ends up on: the    *)
(* proxy that answers every request (proxy.ts), the guards of the pages    *)
(* (AuthGuard, GuestGuard), the session kept by the client (lib/store.ts,  *)
(* lib/authSession.ts) and the landing and onboarding forms.               *)
(*                                                                         *)
(* One browser, one tab, several hosts of one site.  A session cookie is   *)
(* set without a Domain, so every host has a jar and a localStorage of its *)
(* own; a logout ends the account's sessions on every host, but empties    *)
(* the jar of one.  The session cookie cannot be read by scripts; the role *)
(* cookie, set with it, can.                                               *)
(***************************************************************************)
EXTENDS Naturals

CONSTANTS Accounts,      \* people who can sign in
          Professors,    \* the accounts whose role is professor
          StaffMembers,  \* the accounts with is_staff
          Hosts,         \* the hosts this browser visits
          MaxLogins,     \* bound: sign-ins
          MaxOutages     \* bound: requests of a guard that get no answer

AllHosts == {"apex", "www", "app", "admin", "prof", "professor", "staff", "localhost"}

Nobody  == "nobody"
NoPath  == "none"
Paths   == {"/", "/home", "/onboarding", "/admin", "/professor",
            "/professor/login", "/staff/payments"}
NoCookies == [owner |-> Nobody, fit |-> "none", role |-> FALSE]
NoUser    == [token |-> FALSE, user |-> Nobody, kind |-> "none"]

ASSUME NavigationAssumption ==
    /\ Professors \subseteq Accounts /\ StaffMembers \subseteq Accounts
    /\ Nobody \notin Accounts
    /\ Hosts \subseteq AllHosts
    /\ MaxLogins \in Nat /\ MaxOutages \in Nat

VARIABLES
    onboarded,   \* accounts whose niveau and filiere the server has
    jar,         \* host -> session cookie (owner, fit) and role cookie
    snapshot,    \* host -> whose minimal snapshot is in localStorage
    page,        \* address, page mounted, stage of its guard, form step
    memory,      \* the client store: token, user and how much is known of it
    logins, outages

navVars == <<onboarded, jar, snapshot, page, memory, logins, outages>>

-----------------------------------------------------------------------------
(* Addresses.  "localhost" stands for a host without workspace labels.     *)

workspaceForHostname(h) ==
    CASE h = "www" -> "www"       [] h = "app" -> "student"
      [] h = "admin" -> "admin"   [] h \in {"prof", "professor"} -> "professor"
      [] h = "staff" -> "staff"   [] OTHER -> "landing"

apexHostname(h) == IF h = "localhost" THEN h ELSE "apex"

workspaceHostname(h, workspace) ==
    CASE h = "localhost" -> h
      [] workspace = "student" -> "app"
      [] workspace = "professor" -> "prof"
      [] OTHER -> workspace

workspaceRootPath(workspace) ==
    CASE workspace = "student" -> "/home"
      [] workspace = "admin" -> "/admin"
      [] workspace = "professor" -> "/professor"
      [] workspace = "staff" -> "/staff/payments"
      [] OTHER -> NoPath

destinationWorkspace(path) ==
    CASE path = "/admin" -> "admin"
      [] path \in {"/professor", "/professor/login"} -> "professor"
      [] path = "/staff/payments" -> "staff"
      [] OTHER -> "student"

isProtectedRoute(path) == path \notin {"/", "/professor/login"}
isProfessorRoute(path) == path \in {"/professor", "/professor/login"}

(* Accounts *)

isProfessorUser(a) == a \in Professors
isStaffUser(a)     == a \in StaffMembers

hasRequiredAuthAccess(a, path) ==
    /\ path = "/admin" => isStaffUser(a)
    /\ path = "/professor" => isProfessorUser(a)

needsOnboarding(a) == a \notin onboarded

getAuthenticatedDestination(a) ==
    IF isStaffUser(a) THEN "/admin"
    ELSE IF isProfessorUser(a) THEN "/professor" ELSE "/home"

getUnauthorizedDestination(path) ==
    IF isProfessorRoute(path) THEN "/professor/login" ELSE "/"

\* NoPath when the wanted page is not one this account may be sent to.
getSafePostLoginDestination(next, a) ==
    CASE next \in {NoPath, "/", "/onboarding", "/professor/login"} -> NoPath
      [] isProfessorRoute(next) -> IF isProfessorUser(a) THEN next ELSE NoPath
      [] next = "/admin" -> IF isStaffUser(a) THEN next ELSE NoPath
      [] OTHER -> IF isProfessorUser(a) THEN NoPath ELSE next

\* The ?next= that an unfinished student takes to the onboarding page.
onboardingNext(path) ==
    IF path \in {NoPath, "/", "/onboarding", "/admin"} \/ isProfessorRoute(path)
    THEN NoPath ELSE path

\* The page a signed-in account is sent to, or "/onboarding".  `done` says
\* whether the answer at hand carries a niveau and a filiere.
resolveAuthSuccess(a, next, done) ==
    LET safe == getSafePostLoginDestination(next, a)
    IN  IF ~isStaffUser(a) /\ ~isProfessorUser(a) /\ ~done THEN "/onboarding"
        ELSE IF safe # NoPath THEN safe ELSE getAuthenticatedDestination(a)

-----------------------------------------------------------------------------
(* The proxy's answer to a request for `path` on host `h`: a redirect, or  *)
(* the page to show under that address.                                    *)

looksLive(h) == jar[h].fit \in {"live", "revoked"}

Serve(h, path, shown, next) ==
    [send |-> FALSE, host |-> h, path |-> path, shown |-> shown, next |-> next,
     clear |-> FALSE]
Send(h, path, next) ==
    [send |-> TRUE, host |-> h, path |-> path, shown |-> NoPath, next |-> next,
     clear |-> FALSE]

getAuthRedirect(h, path, shown, next) ==
    LET refuse == getUnauthorizedDestination(shown)
        target == IF refuse = "/professor/login"
                  THEN workspaceHostname(h, "professor")
                  ELSE IF workspaceForHostname(h) \in {"student", "admin", "staff"}
                       THEN apexHostname(h) ELSE h
    IN  CASE isProtectedRoute(shown) /\ ~looksLive(h) ->
               [Send(target, refuse, NoPath) EXCEPT !.clear = (jar[h].fit = "expired")]
          [] OTHER -> Serve(h, path, shown, next)

ProxyAnswer(h, path, next) ==
    LET workspace == workspaceForHostname(h)
        root == workspaceRootPath(workspace)
        home == getAuthenticatedDestination(jar[h].owner)
    IN  CASE h = "professor" -> Send("prof", path, next)
          [] h = "www" -> Send("apex", path, next)
          [] workspace = "staff" /\ path \notin {"/", "/staff/payments"} ->
               Send(h, "/staff/payments", NoPath)
          [] workspace = "landing" /\ path = "/" /\ looksLive(h) ->
               Send(workspaceHostname(h, destinationWorkspace(home)), home, NoPath)
          [] OTHER -> getAuthRedirect(h, path,
                          IF path = "/" /\ root # NoPath THEN root ELSE path, next)

-----------------------------------------------------------------------------
(* The client's session.  `kind` says what the store knows of its user:    *)
(* the role and staff flag read back from localStorage ("snapshot"), a     *)
(* whole profile merged into such a snapshot, whose mark it keeps          *)
(* ("marked"), or a whole profile ("full").                                *)

hydrate(h) ==
    [token |-> jar[h].role, user |-> snapshot[h],
     kind |-> IF snapshot[h] = Nobody THEN "none" ELSE "snapshot"]

login(a) == [token |-> TRUE, user |-> a, kind |-> "full"]

updateUser(a) ==
    [token |-> TRUE, user |-> a,
     kind |-> IF memory.kind \in {"snapshot", "marked"} THEN "marked" ELSE "full"]

\* The guest pages send a signed-in visitor on; /professor/login only professors.
guestSendsOn(shown, m) ==
    /\ m.token /\ m.user # Nobody
    /\ shown = "/" \/ isProfessorUser(m.user)

\* The client router asks for a page (the store survives); a full load does not.
Goto(path, next) ==
    [page EXCEPT !.path = path, !.next = next, !.stage = "request", !.soft = TRUE]
Load(h, path, next) ==
    [host |-> h, path |-> path, next |-> next, shown |-> NoPath,
     stage |-> "request", soft |-> FALSE, step |-> "auth"]

Settled == page.stage \in {"guest", "blank", "ready", "forbidden", "error", "missing"}

-----------------------------------------------------------------------------
NavInit ==
    /\ onboarded \in SUBSET (Accounts \ Professors)
    /\ jar = [h \in AllHosts |-> NoCookies]
    /\ snapshot = [h \in AllHosts |-> Nobody]
    /\ page = [Load("apex", "/", NoPath) EXCEPT !.stage = "guest", !.shown = "/"]
    /\ memory = NoUser
    /\ logins = 0 /\ outages = 0

\* The user types an address or follows a bookmark.
Visit(h, path) ==
    /\ Settled
    /\ page' = Load(h, path, NoPath)
    /\ memory' = NoUser
    /\ UNCHANGED <<onboarded, jar, snapshot, logins, outages>>

\* The request is answered: sent on, or a page is mounted.  A guest page reads
\* the stored session and may send the visitor on; a page behind AuthGuard
\* reads it and asks the server who is signed in.  A client navigation that
\* ends on the page it started from leaves that page mounted.
PageAnswered ==
    /\ page.stage = "request"
    /\ LET answer == ProxyAnswer(page.host, page.path, page.next)
           stays  == page.soft /\ page.shown = answer.shown
           held   == IF stays THEN memory ELSE hydrate(answer.host)
           soft   == page.soft /\ answer.host = page.host
           guest  == IF ~guestSendsOn(answer.shown, held) THEN "guest"
                     ELSE IF stays THEN "blank" ELSE "sending"
           stage  == CASE answer.send -> "request"
                       [] answer.shown \in {"/", "/professor/login"} -> guest
                       [] answer.shown = "/staff/payments" -> "missing"
                       [] OTHER -> "checking"
       IN  /\ page' = [page EXCEPT !.host = answer.host, !.path = answer.path,
                         !.next = answer.next, !.stage = stage, !.soft = soft,
                         !.shown = IF answer.send /\ soft THEN page.shown ELSE answer.shown,
                         !.step = IF stays THEN page.step ELSE "auth"]
           /\ memory' = IF stage \notin {"request", "missing"} THEN held
                        ELSE IF soft THEN memory ELSE NoUser
           /\ jar' = IF answer.clear THEN [jar EXCEPT ![page.host] = NoCookies] ELSE jar
    /\ UNCHANGED <<onboarded, snapshot, logins, outages>>

\* GuestGuard replaces the guest page: by the workspace when only the snapshot
\* is known, else by the page the sign-in resolves to.
GuestSends ==
    /\ page.stage = "sending"
    /\ LET a == memory.user
           destination == IF memory.kind = "full"
                          THEN resolveAuthSuccess(a, page.next, a \in onboarded)
                          ELSE getAuthenticatedDestination(a)
       IN  page' = Goto(destination, IF destination = "/onboarding"
                                     THEN onboardingNext(page.next) ELSE NoPath)
    /\ UNCHANGED <<onboarded, jar, snapshot, memory, logins, outages>>

-----------------------------------------------------------------------------
(* AuthGuard: the profile request, and its three outcomes. *)

Verified(a) ==
    LET m == IF memory.token THEN updateUser(a) ELSE login(a)
        student == page.shown # "/admin" /\ ~isProfessorUser(a)
    IN  /\ memory' = m
        /\ snapshot' = [snapshot EXCEPT ![page.host] = a]
        /\ \/ /\ ~hasRequiredAuthAccess(a, page.shown)
              /\ page' = [page EXCEPT !.stage = "forbidden"]
           \/ /\ hasRequiredAuthAccess(a, page.shown)
              /\ student /\ page.shown # "/onboarding" /\ needsOnboarding(a)
              /\ page' = Load(page.host, "/onboarding", onboardingNext(page.path))
           \/ /\ student /\ page.shown = "/onboarding" /\ ~needsOnboarding(a)
              /\ page' = Load(page.host, "/home", NoPath)
           \/ /\ hasRequiredAuthAccess(a, page.shown)
              /\ student => ((page.shown = "/onboarding") <=> needsOnboarding(a))
              /\ page' = [page EXCEPT !.stage = "ready",
                            !.step = IF m.kind = "full" /\ page.shown = "/onboarding"
                                        /\ student /\ ~isStaffUser(a)
                                     THEN "choose" ELSE "auth"]

\* A plausible shortcut of the guard: believe the stored snapshot, if any.
ProfileAssumed ==
    /\ page.stage = "checking"
    /\ jar[page.host].fit = "live"
    /\ Verified(IF memory.token /\ memory.user # Nobody THEN memory.user
                ELSE jar[page.host].owner)
    /\ UNCHANGED <<onboarded, jar, logins, outages>>

ProfileAnswered ==
    /\ page.stage = "checking"
    /\ jar[page.host].fit = "live"
    /\ Verified(jar[page.host].owner)
    /\ UNCHANGED <<onboarded, jar, logins, outages>>

\* 401: the interceptor drops the stored session and the role cookie (the
\* session cookie is out of its reach); the guard goes on to log out.
ProfileRefused ==
    /\ page.stage = "checking"
    /\ jar[page.host].fit # "live"
    /\ page' = [page EXCEPT !.stage = "leaving"]
    /\ jar' = [jar EXCEPT ![page.host].role = FALSE]
    /\ snapshot' = [snapshot EXCEPT ![page.host] = Nobody]
    /\ memory' = NoUser
    /\ UNCHANGED <<onboarded, logins, outages>>

ProfileFails ==
    /\ page.stage = "checking"
    /\ outages < MaxOutages
    /\ page' = [page EXCEPT !.stage = "error"]
    /\ outages' = outages + 1
    /\ UNCHANGED <<onboarded, jar, snapshot, memory, logins>>

retryVerification ==
    /\ page.stage = "error"
    /\ page' = [page EXCEPT !.stage = "checking"]
    /\ UNCHANGED <<onboarded, jar, snapshot, memory, logins, outages>>

-----------------------------------------------------------------------------
(* Leaving: the guard asks the server to end the session and then replaces *)
(* the page, whatever the answer.  Off the protected paths (a workspace    *)
(* root shown under "/") the interceptor has already replaced it, and the  *)
(* new page may be asked for before the logout is answered.                *)

endSessions(a) ==
    [h \in AllHosts |-> IF jar[h].owner = a /\ jar[h].fit = "live"
                        THEN [jar[h] EXCEPT !.fit = "revoked"] ELSE jar[h]]

Turned == page' = Load(page.host, getUnauthorizedDestination(page.path), NoPath)

\* As LogoutAnswered, by a server that ends the session but keeps the cookies.
LogoutKeepsCookies ==
    /\ page.stage = "leaving"
    /\ Turned
    /\ UNCHANGED <<onboarded, jar, snapshot, memory, logins, outages>>

LogoutAnswered ==
    /\ page.stage = "leaving"
    /\ Turned
    /\ jar' = [jar EXCEPT ![page.host] = NoCookies]
    /\ UNCHANGED <<onboarded, snapshot, memory, logins, outages>>

LogoutFails ==
    /\ page.stage = "leaving"
    /\ outages < MaxOutages
    /\ Turned
    /\ outages' = outages + 1
    /\ UNCHANGED <<onboarded, jar, snapshot, memory, logins>>

LogoutCutShort ==
    /\ page.stage = "leaving"
    /\ ~isProtectedRoute(page.path)
    /\ Turned
    /\ UNCHANGED <<onboarded, jar, snapshot, memory, logins, outages>>

-----------------------------------------------------------------------------
(* Forms and menus *)

signedIn(h, a) == [jar EXCEPT ![h] = [owner |-> a, fit |-> "live", role |-> TRUE]]

\* The form of the landing page, which the onboarding page shows as well.
handleLogin(a) ==
    /\ \/ page.stage = "guest" /\ page.shown = "/"
       \/ page.stage = "ready" /\ page.shown = "/onboarding" /\ page.step = "auth"
    /\ logins < MaxLogins
    /\ logins' = logins + 1
    /\ jar' = signedIn(page.host, a)
    /\ snapshot' = [snapshot EXCEPT ![page.host] = a]
    /\ memory' = login(a)
    /\ LET destination == resolveAuthSuccess(a, page.next, a \in onboarded)
       IN  page' = IF page.shown = "/" THEN [page EXCEPT !.stage = "sending"]
                   ELSE IF destination = "/onboarding" THEN [page EXCEPT !.step = "choose"]
                   ELSE Goto(destination, NoPath)
    /\ UNCHANGED <<onboarded, outages>>

\* /professor/login takes professors only: another account is logged out again,
\* and stays signed in when that request fails.
professorLogin(a) ==
    /\ page.stage = "guest" /\ page.shown = "/professor/login"
    /\ logins < MaxLogins
    /\ logins' = logins + 1
    /\ \/ /\ isProfessorUser(a)
          /\ jar' = signedIn(page.host, a)
          /\ snapshot' = [snapshot EXCEPT ![page.host] = a]
          /\ memory' = login(a)
          /\ page' = Goto("/professor", NoPath)
          /\ UNCHANGED outages
       \/ /\ ~isProfessorUser(a)
          /\ jar' = [endSessions(a) EXCEPT ![page.host] = NoCookies]
          /\ snapshot' = [snapshot EXCEPT ![page.host] = Nobody]
          /\ memory' = NoUser
          /\ UNCHANGED <<page, outages>>
       \/ /\ ~isProfessorUser(a)
          /\ outages < MaxOutages
          /\ outages' = outages + 1
          /\ jar' = signedIn(page.host, a)
          /\ UNCHANGED <<snapshot, page, memory>>
    /\ UNCHANGED onboarded

\* Refused, the save is answered 401: the store is emptied, which makes the
\* guard check again.
saveOnboarding ==
    /\ page.stage = "ready" /\ page.shown = "/onboarding" /\ page.step = "choose"
    /\ \/ LET a == jar[page.host].owner
           destination == resolveAuthSuccess(a, page.next, TRUE)
          IN  /\ jar[page.host].fit = "live"
              /\ onboarded' = onboarded \cup {a}
              /\ memory' = updateUser(memory.user)
              /\ snapshot' = [snapshot EXCEPT ![page.host] = memory.user]
              /\ page' = Goto(destination, NoPath)
              /\ UNCHANGED jar
       \/ /\ jar[page.host].fit # "live"
          /\ page' = [page EXCEPT !.stage = "checking"]
          /\ jar' = [jar EXCEPT ![page.host].role = FALSE]
          /\ snapshot' = [snapshot EXCEPT ![page.host] = Nobody]
          /\ memory' = NoUser
          /\ UNCHANGED onboarded
    /\ UNCHANGED <<logins, outages>>

\* The menu of the student, admin and professor pages.  A logout that fails
\* leaves everything as it was.
doLogout ==
    /\ page.stage = "ready" /\ page.shown # "/onboarding"
    /\ jar' = [(IF jar[page.host].fit = "live" THEN endSessions(jar[page.host].owner)
                ELSE jar) EXCEPT ![page.host] = NoCookies]
    /\ snapshot' = [snapshot EXCEPT ![page.host] = Nobody]
    /\ memory' = NoUser
    /\ page' = Goto(IF page.shown = "/professor" THEN "/professor/login" ELSE "/", NoPath)
    /\ UNCHANGED <<onboarded, logins, outages>>

-----------------------------------------------------------------------------
(* Time: the token expires, then the browser drops the cookies; sessions   *)
(* of an account are ended from elsewhere.                                 *)

TokenExpires(h) ==
    /\ looksLive(h)
    /\ jar' = [jar EXCEPT ![h].fit = "expired"]
    /\ UNCHANGED <<onboarded, snapshot, page, memory, logins, outages>>

CookiesLapse(h) ==
    /\ jar[h].fit = "expired"
    /\ jar' = [jar EXCEPT ![h] = NoCookies]
    /\ UNCHANGED <<onboarded, snapshot, page, memory, logins, outages>>

RevokedElsewhere(a) ==
    /\ \E h \in AllHosts : jar[h].owner = a /\ jar[h].fit = "live"
    /\ jar' = endSessions(a)
    /\ UNCHANGED <<onboarded, snapshot, page, memory, logins, outages>>

NavNext ==
    \/ \E h \in Hosts, path \in Paths : Visit(h, path)
    \/ PageAnswered \/ GuestSends
    \/ ProfileAnswered \/ ProfileRefused \/ ProfileFails \/ retryVerification
    \/ LogoutAnswered \/ LogoutFails \/ LogoutCutShort
    \/ \E a \in Accounts : handleLogin(a) \/ professorLogin(a) \/ RevokedElsewhere(a)
    \/ saveOnboarding \/ doLogout
    \/ \E h \in AllHosts : TokenExpires(h) \/ CookiesLapse(h)

\* The browser keeps loading and the pages keep running; a logout that is asked
\* for again and again gets an answer in the end.
NavFairness ==
    /\ WF_navVars(\/ PageAnswered \/ GuestSends \/ ProfileAnswered \/ ProfileRefused
                  \/ LogoutAnswered \/ LogoutCutShort)
    /\ SF_navVars(LogoutAnswered)

NavSpec == NavInit /\ [][NavNext]_navVars /\ NavFairness

-----------------------------------------------------------------------------
NavTypeOK ==
    /\ onboarded \subseteq Accounts
    /\ jar \in [AllHosts -> [owner : Accounts \cup {Nobody}, role : BOOLEAN,
                             fit : {"none", "live", "revoked", "expired"}]]
    /\ snapshot \in [AllHosts -> Accounts \cup {Nobody}]
    /\ page \in [host : AllHosts, path : Paths, next : Paths \cup {NoPath},
                 shown : Paths \cup {NoPath}, soft : BOOLEAN, step : {"auth", "choose"},
                 stage : {"request", "guest", "sending", "blank", "checking", "ready",
                          "forbidden", "error", "missing", "leaving"}]
    /\ memory \in [token : BOOLEAN, user : Accounts \cup {Nobody},
                   kind : {"none", "snapshot", "marked", "full"}]
    /\ logins \in 0 .. MaxLogins /\ outages \in 0 .. MaxOutages

\* A page behind AuthGuard is on show only in the name of the account whose
\* session cookie the host has, which may see it and, on the student pages, has
\* finished onboarding; the onboarding form only for one that has not (AuthGuard).
\* Stored snapshots of earlier accounts, client navigations that keep the store,
\* logouts that fail and sign-ins as somebody else must not get in between.
ShownToItsOwner ==
    page.stage = "ready" =>
        /\ memory.user # Nobody /\ jar[page.host].owner \in {memory.user, Nobody}
        /\ hasRequiredAuthAccess(memory.user, page.shown)
        /\ page.shown = "/home" =>
               isProfessorUser(memory.user) \/ ~needsOnboarding(memory.user)
        /\ page.shown = "/onboarding" /\ page.step = "choose" => needsOnboarding(memory.user)

\* The landing page sends a session it believes in to the host of a workspace,
\* where this browser has none: the session was opened on the landing host.
Split ==
    LET home == getAuthenticatedDestination(jar["apex"].owner)
        there == workspaceHostname("apex", destinationWorkspace(home))
    IN  looksLive("apex") /\ ~looksLive(there)

\* A browser comes to rest on some page: redirects of the proxy, of the guest
\* pages and of AuthGuard never chase each other for ever, whatever sessions
\* lapse or are ended meanwhile, unless the sessions are split between hosts.
NavigationSettles == []<>(Settled \/ Split)

\* The same without the exception, as the proxy's tests have it: "keeps
\* unauthenticated workspace roots out of redirect loops".
RedirectsEnd == []<>Settled
=============================================================================
