--------------------------- MODULE Clients_proofs ---------------------------
(* What the smaller components of the web application keep for any bounds: *)
(* navigation, for any accounts on any hosts however often they sign in,   *)
(* are signed out and are left without an answer; the exam page, for any   *)
(* quiz however often it is edited; the video of a topic page and the live *)
(* room; and that in any behaviour of the composition the state of all six *)
(* has the shape its code gives it.                                        *)
EXTENDS MCClients, Whiteboard_proofs, ProfessorChat_proofs

-----------------------------------------------------------------------------
(* Navigation, guards and the session of the client. *)

Holder == Accounts \cup {Nobody}
Cookies == [owner : Holder, role : BOOLEAN, fit : {"none", "live", "revoked", "expired"}]
Pages == [host : AllHosts, path : Paths, next : Paths \cup {NoPath},
          shown : Paths \cup {NoPath}, soft : BOOLEAN, step : {"auth", "choose"},
          stage : {"request", "guest", "sending", "blank", "checking", "ready",
                   "forbidden", "error", "missing", "leaving"}]
Memory == [token : BOOLEAN, user : Holder, kind : {"none", "snapshot", "marked", "full"}]

\* A session cookie names an account.
SessionsAreOwned == \A h \in AllHosts : jar[h].fit # "none" => jar[h].owner # Nobody

NavInv == NavTypeOK /\ SessionsAreOwned /\ ShownToItsOwner

Routing == Paths \cup {NoPath}

-----------------------------------------------------------------------------
(* The functions of the code that the pages are chosen with.               *)

LEMMA Destinations ==
  ASSUME NEW a, NEW next \in Routing, NEW done \in BOOLEAN
  PROVE  /\ getAuthenticatedDestination(a) \in Paths
         /\ getSafePostLoginDestination(next, a) \in Routing
         /\ resolveAuthSuccess(a, next, done) \in Paths
         /\ onboardingNext(next) \in Routing
         /\ getUnauthorizedDestination(next) \in Paths
         /\ resolveAuthSuccess(a, next, done) = "/onboarding" => ~done
<1>1. /\ getAuthenticatedDestination(a) \in Paths \ {"/onboarding"}
      /\ onboardingNext(next) \in Routing
      /\ getUnauthorizedDestination(next) \in Paths
  BY DEF getAuthenticatedDestination, onboardingNext, getUnauthorizedDestination, Paths,
         Routing
<1>2. getSafePostLoginDestination(next, a) \in Routing \ {"/onboarding"}
  BY DEF getSafePostLoginDestination, isProfessorRoute, Routing, Paths, NoPath
<1>3. /\ resolveAuthSuccess(a, next, done) \in Paths
      /\ resolveAuthSuccess(a, next, done) = "/onboarding" => ~done
  <2>1. "/onboarding" \in Paths
    BY DEF Paths
  <2> QED  BY <1>1, <1>2, <2>1 DEF resolveAuthSuccess, Routing
<1> QED  BY <1>1, <1>2, <1>3

LEMMA HostsStay ==
  ASSUME NEW h \in AllHosts, NEW path
  PROVE  /\ workspaceHostname(h, destinationWorkspace(path)) \in AllHosts
         /\ workspaceHostname(h, "professor") \in AllHosts
         /\ apexHostname(h) \in AllHosts
         /\ workspaceRootPath(workspaceForHostname(h)) \in Routing
  BY DEF workspaceHostname, destinationWorkspace, apexHostname, workspaceRootPath,
         workspaceForHostname, AllHosts, Routing, Paths, NoPath

\* What the proxy answers is a request to a host, or a page of the application.
Answers == [send : BOOLEAN, host : AllHosts, path : Paths, shown : Routing, next : Routing,
            clear : BOOLEAN]

LEMMA ProxyAnswers ==
  ASSUME NEW h \in AllHosts, NEW path \in Paths, NEW next \in Routing
  PROVE  /\ ProxyAnswer(h, path, next) \in Answers
         /\ ~ProxyAnswer(h, path, next).send => ProxyAnswer(h, path, next).shown \in Paths
<1>1. \A k \in AllHosts, p \in Paths, n \in Routing, s \in Paths :
        /\ Serve(k, p, s, n) \in Answers /\ Serve(k, p, s, n).shown = s
        /\ Send(k, p, n) \in Answers /\ Send(k, p, n).send
  BY DEF Serve, Send, Answers, Routing
<1>2. \A shown \in Paths :
        /\ getAuthRedirect(h, path, shown, next) \in Answers
        /\ ~getAuthRedirect(h, path, shown, next).send =>
              getAuthRedirect(h, path, shown, next).shown \in Paths
  <2> SUFFICES ASSUME NEW shown \in Paths
               PROVE  /\ getAuthRedirect(h, path, shown, next) \in Answers
                      /\ ~getAuthRedirect(h, path, shown, next).send =>
                            getAuthRedirect(h, path, shown, next).shown \in Paths
    OBVIOUS
  <2> DEFINE refuse == getUnauthorizedDestination(shown)
             target == IF refuse = "/professor/login"
                       THEN workspaceHostname(h, "professor")
                       ELSE IF workspaceForHostname(h) \in {"student", "admin", "staff"}
                            THEN apexHostname(h) ELSE h
             away == [Send(target, refuse, NoPath) EXCEPT !.clear = (jar[h].fit = "expired")]
  <2>1. target \in AllHosts /\ refuse \in Paths /\ NoPath \in Routing
    BY HostsStay, Destinations DEF Routing
  <2>2. away \in Answers /\ away.send
    <3> HIDE DEF target, refuse
    <3> QED  BY <2>1 DEF Send, Answers, Routing
  <2>3. \/ getAuthRedirect(h, path, shown, next) = away
        \/ getAuthRedirect(h, path, shown, next) = Serve(h, path, shown, next)
    BY DEF getAuthRedirect
  <2> HIDE DEF away
  <2> QED  BY <1>1, <2>2, <2>3
<1>3. /\ getAuthenticatedDestination(jar[h].owner) \in Paths
      /\ "prof" \in AllHosts /\ "apex" \in AllHosts /\ "/staff/payments" \in Paths
      /\ NoPath \in Routing /\ "/" \in Paths
  BY Destinations DEF AllHosts, Paths, Routing
<1>4. (IF path = "/" /\ workspaceRootPath(workspaceForHostname(h)) # NoPath
       THEN workspaceRootPath(workspaceForHostname(h)) ELSE path) \in Paths
  BY HostsStay DEF Routing
<1> QED  BY <1>1, <1>2, <1>3, <1>4, HostsStay DEF ProxyAnswer

-----------------------------------------------------------------------------
\* Ending an account's sessions leaves every cookie its owner.
LEMMA SessionsEnd ==
  ASSUME NavTypeOK, SessionsAreOwned, NEW a
  PROVE  /\ endSessions(a) \in [AllHosts -> Cookies]
         /\ \A h \in AllHosts : /\ endSessions(a)[h].owner = jar[h].owner
                                /\ endSessions(a)[h].fit # "none" => jar[h].owner # Nobody
<1>1. jar \in [AllHosts -> Cookies]
  BY DEF NavTypeOK, Cookies, Holder
<1> QED  BY <1>1 DEF endSessions, Cookies, SessionsAreOwned

LEMMA NavStarts == NavInit => NavInv
<1> SUFFICES ASSUME NavInit PROVE NavInv
  OBVIOUS
<1>1. NoCookies \in Cookies /\ NoUser \in Memory /\ NoCookies.fit = "none"
  BY DEF NoCookies, NoUser, Cookies, Memory, Holder
<1>2. page \in Pages /\ page.stage = "guest"
  BY DEF NavInit, Load, Pages, AllHosts, Paths
<1>3. /\ onboarded \subseteq Accounts /\ jar \in [AllHosts -> Cookies]
      /\ snapshot \in [AllHosts -> Holder] /\ memory \in Memory
      /\ logins \in 0 .. MaxLogins /\ outages \in 0 .. MaxOutages
  BY <1>1, NavigationAssumption DEF NavInit, Holder
<1>4. NavTypeOK
  BY <1>2, <1>3 DEF NavTypeOK, Pages, Cookies, Memory, Holder
<1>5. SessionsAreOwned /\ ShownToItsOwner
  BY <1>1, <1>2 DEF NavInit, SessionsAreOwned, ShownToItsOwner
<1> QED  BY <1>4, <1>5 DEF NavInv

\* The types, with names for the records.
LEMMA Typed ==
  NavTypeOK <=>
    /\ onboarded \subseteq Accounts
    /\ jar \in [AllHosts -> Cookies] /\ snapshot \in [AllHosts -> Holder]
    /\ page \in Pages /\ memory \in Memory
    /\ logins \in 0 .. MaxLogins /\ outages \in 0 .. MaxOutages
  BY DEF NavTypeOK, Pages, Cookies, Memory, Holder

\* Asking for a page, by the client's router or by a full load.
LEMMA Asking ==
  ASSUME page \in Pages, NEW path \in Paths, NEW next \in Routing, NEW h \in AllHosts
  PROVE  /\ Goto(path, next) \in Pages /\ Goto(path, next).stage = "request"
         /\ Load(h, path, next) \in Pages /\ Load(h, path, next).stage = "request"
  BY DEF Goto, Load, Pages, Routing

\* A page that is not on show asks nothing of the session.
LEMMA OffShow ==
  ASSUME NavTypeOK', SessionsAreOwned', page'.stage # "ready" PROVE NavInv'
  BY DEF NavInv, ShownToItsOwner

-----------------------------------------------------------------------------
(* One lemma per group of actions.                                         *)

LEMMA NavLoadingKeeps ==
  ASSUME NavInv, \/ \E h \in Hosts, path \in Paths : Visit(h, path)
                 \/ PageAnswered \/ GuestSends
  PROVE  NavInv'
<1>1. NavTypeOK /\ SessionsAreOwned
  BY DEF NavInv
<1>2. NoCookies \in Cookies /\ NoUser \in Memory /\ NoCookies.fit = "none"
  BY DEF NoCookies, NoUser, Cookies, Memory, Holder
<1>3. ASSUME NEW h \in Hosts, NEW path \in Paths, Visit(h, path) PROVE NavInv'
  <2>1. page' \in Pages /\ page'.stage = "request"
    BY <1>1, <1>3, Typed, Asking, NavigationAssumption DEF Visit, Routing
  <2>2. NavTypeOK'
    BY <1>1, <1>2, <1>3, <2>1, Typed DEF Visit, NavTypeOK, Pages, Memory, Cookies, Holder
  <2>3. SessionsAreOwned'
    BY <1>1, <1>3 DEF Visit, SessionsAreOwned
  <2> QED  BY <2>1, <2>2, <2>3, OffShow
<1>4. CASE PageAnswered
  <2>1. /\ page \in Pages /\ jar \in [AllHosts -> Cookies] /\ memory \in Memory
        /\ snapshot \in [AllHosts -> Holder]
        /\ page.host \in AllHosts /\ page.path \in Paths /\ page.next \in Routing
    BY <1>1, Typed DEF Pages, Routing
  <2>2. PICK answer \in Answers :
          /\ answer = ProxyAnswer(page.host, page.path, page.next)
          /\ ~answer.send => answer.shown \in Paths
    <3>1. /\ ProxyAnswer(page.host, page.path, page.next) \in Answers
          /\ ~ProxyAnswer(page.host, page.path, page.next).send =>
                ProxyAnswer(page.host, page.path, page.next).shown \in Paths
      BY <2>1, ProxyAnswers
    <3> QED  BY <3>1
  <2> DEFINE stays == page.soft /\ page.shown = answer.shown
             held  == IF stays THEN memory ELSE hydrate(answer.host)
             soft  == page.soft /\ answer.host = page.host
             guest == IF ~guestSendsOn(answer.shown, held) THEN "guest"
                      ELSE IF stays THEN "blank" ELSE "sending"
             reached == CASE answer.send -> "request"
                        [] answer.shown \in {"/", "/professor/login"} -> guest
                        [] answer.shown = "/staff/payments" -> "missing"
                        [] OTHER -> "checking"
             shown == IF answer.send /\ soft THEN page.shown ELSE answer.shown
             step  == IF stays THEN page.step ELSE "auth"
  <2>3. hydrate(answer.host) \in Memory
    BY <2>1, <2>2 DEF hydrate, Memory, Cookies, Answers
  <2>4. /\ page' = [page EXCEPT !.host = answer.host, !.path = answer.path,
                         !.next = answer.next, !.stage = reached, !.soft = soft,
                         !.shown = shown, !.step = step]
        /\ memory' \in {held, memory, NoUser}
        /\ jar' \in {jar, [jar EXCEPT ![page.host] = NoCookies]}
    BY <1>4, <2>2 DEF PageAnswered
  <2>5. /\ reached \in {"request", "guest", "blank", "sending", "missing", "checking"}
        /\ soft \in BOOLEAN /\ shown \in Routing /\ step \in {"auth", "choose"}
        /\ held \in Memory
    <3>1. /\ answer.shown \in Routing /\ page.shown \in Routing
          /\ page.step \in {"auth", "choose"} /\ page.soft \in BOOLEAN
      BY <2>1 DEF Answers, Pages, Routing
    <3>2. guest \in {"guest", "blank", "sending"}
      OBVIOUS
    <3> HIDE DEF guest
    <3>3. reached \in {"request", "guest", "blank", "sending", "missing", "checking"}
      BY <3>2
    <3>4. soft \in BOOLEAN
      BY <3>1
    <3> HIDE DEF reached, soft
    <3> QED  BY <2>1, <2>3, <3>1, <3>3, <3>4
  <2>6. /\ answer.host \in AllHosts /\ answer.path \in Paths /\ answer.next \in Routing
    BY DEF Answers
  <2> HIDE DEF stays, held, soft, guest, reached, shown, step
  <2>7. page' \in Pages /\ page'.stage = reached
    BY <2>1, <2>4, <2>5, <2>6 DEF Pages, Routing
  <2>8. jar' \in [AllHosts -> Cookies] /\ SessionsAreOwned'
    <3>1. CASE jar' = jar
      BY <1>1, <2>1, <3>1 DEF SessionsAreOwned
    <3>2. CASE jar' = [jar EXCEPT ![page.host] = NoCookies]
      BY <1>1, <1>2, <2>1, <3>2 DEF SessionsAreOwned
    <3> QED  BY <2>4, <3>1, <3>2
  <2>9. /\ onboarded' \subseteq Accounts /\ snapshot' \in [AllHosts -> Holder]
        /\ memory' \in Memory /\ logins' \in 0 .. MaxLogins /\ outages' \in 0 .. MaxOutages
    BY <1>1, <1>2, <1>4, <2>4, <2>5, Typed DEF PageAnswered
  <2>10. NavTypeOK'
    BY <2>7, <2>8, <2>9 DEF NavTypeOK, Pages, Memory, Cookies, Holder
  <2> QED  BY <2>5, <2>7, <2>8, <2>10, OffShow
<1>5. CASE GuestSends
  <2>1. page \in Pages /\ page.next \in Routing
    BY <1>1, Typed DEF Pages, Routing
  <2>2. PICK path \in Paths, next \in Routing : page' = Goto(path, next)
    <3>1. (memory.user \in onboarded) \in BOOLEAN
      OBVIOUS
    <3>2. /\ resolveAuthSuccess(memory.user, page.next, memory.user \in onboarded) \in Paths
          /\ getAuthenticatedDestination(memory.user) \in Paths
          /\ onboardingNext(page.next) \in Routing /\ NoPath \in Routing
      BY <2>1, <3>1, Destinations DEF Routing
    <3>3. PICK path, next :
            /\ page' = Goto(path, next)
            /\ path \in {resolveAuthSuccess(memory.user, page.next, memory.user \in onboarded),
                        getAuthenticatedDestination(memory.user)}
            /\ next \in {onboardingNext(page.next), NoPath}
      BY <1>5 DEF GuestSends
    <3> QED  BY <3>2, <3>3
  <2>3. page' \in Pages /\ page'.stage = "request"
    BY <1>1, <2>1, <2>2, Asking, Typed DEF Pages
  <2>4. NavTypeOK'
    BY <1>1, <1>5, <2>3, Typed DEF GuestSends, NavTypeOK, Pages
  <2>5. SessionsAreOwned'
    BY <1>1, <1>5 DEF GuestSends, SessionsAreOwned
  <2> QED  BY <2>3, <2>4, <2>5, OffShow
<1> QED  BY <1>3, <1>4, <1>5

\* The guard lets a page be shown only to the account the server has answered with.
LEMMA GuardKeeps ==
  ASSUME NavInv, ProfileAnswered
  PROVE  NavInv'
<1>1. NavTypeOK /\ SessionsAreOwned
  BY DEF NavInv
<1>2. /\ page \in Pages /\ jar \in [AllHosts -> Cookies] /\ memory \in Memory
      /\ snapshot \in [AllHosts -> Holder]
      /\ page.host \in AllHosts /\ page.path \in Paths
      /\ page.shown \in Routing
  BY <1>1, Typed DEF Pages, Routing
<1>3. PICK a \in Accounts : a = jar[page.host].owner /\ Verified(a)
  <2>1. jar[page.host].owner \in Holder /\ jar[page.host].owner # Nobody
    BY <1>1, <1>2 DEF ProfileAnswered, SessionsAreOwned, Cookies
  <2> QED  BY <2>1 DEF ProfileAnswered, Holder
<1>4. a # Nobody
  BY NavigationAssumption
<1> DEFINE m == IF memory.token THEN updateUser(a) ELSE login(a)
           student == page.shown # "/admin" /\ ~isProfessorUser(a)
           step == IF m.kind = "full" /\ page.shown = "/onboarding"
                      /\ student /\ ~isStaffUser(a) THEN "choose" ELSE "auth"
<1>5. /\ memory' = m /\ m \in Memory /\ m.user = a
      /\ snapshot' = [snapshot EXCEPT ![page.host] = a] /\ snapshot' \in [AllHosts -> Holder]
      /\ UNCHANGED <<onboarded, jar, logins, outages>>
  BY <1>2, <1>3 DEF ProfileAnswered, Verified, updateUser, login, Memory, Holder
<1>6. \/ page' = [page EXCEPT !.stage = "forbidden"]
      \/ page' = Load(page.host, "/onboarding", onboardingNext(page.path))
      \/ page' = Load(page.host, "/home", NoPath)
      \/ /\ hasRequiredAuthAccess(a, page.shown)
         /\ student => ((page.shown = "/onboarding") <=> needsOnboarding(a))
         /\ page' = [page EXCEPT !.stage = "ready", !.step = step]
  BY <1>3 DEF Verified
<1>7. /\ SessionsAreOwned'
      /\ page' \in Pages => NavTypeOK'
  BY <1>1, <1>5, Typed DEF SessionsAreOwned, NavTypeOK, Pages, Memory, Cookies, Holder
<1>8. step \in {"auth", "choose"} /\ (step = "choose" => page.shown = "/onboarding" /\ student)
  OBVIOUS
<1> HIDE DEF m, step
<1>9. CASE page' = [page EXCEPT !.stage = "forbidden"]
  <2>1. page' \in Pages /\ page'.stage = "forbidden"
    BY <1>2, <1>9 DEF Pages
  <2> QED  BY <1>7, <2>1, OffShow
<1>10. CASE page' \in {Load(page.host, "/onboarding", onboardingNext(page.path)),
                       Load(page.host, "/home", NoPath)}
  <2>1. /\ "/onboarding" \in Paths /\ "/home" \in Paths /\ NoPath \in Routing
        /\ page.path \in Routing /\ onboardingNext(page.path) \in Routing
    BY <1>2, Destinations DEF Paths, Routing
  <2>2. page' \in Pages /\ page'.stage = "request"
    BY <1>2, <1>10, <2>1, Asking
  <2> QED  BY <1>7, <2>2, OffShow
<1>11. CASE /\ hasRequiredAuthAccess(a, page.shown)
            /\ student => ((page.shown = "/onboarding") <=> needsOnboarding(a))
            /\ page' = [page EXCEPT !.stage = "ready", !.step = step]
  <2>1. /\ page' \in Pages /\ page'.host = page.host /\ page'.shown = page.shown
        /\ page'.step = step
    BY <1>2, <1>8, <1>11 DEF Pages
  <2>2. /\ memory'.user = a /\ jar'[page'.host].owner = a
    BY <1>3, <1>5, <2>1
  <2>3. /\ page.shown = "/home" => isProfessorUser(a) \/ ~needsOnboarding(a)
        /\ page.shown = "/onboarding" /\ step = "choose" => needsOnboarding(a)
    BY <1>8, <1>11
  <2>4. ShownToItsOwner'
    BY <1>4, <1>5, <1>11, <2>1, <2>2, <2>3
       DEF ShownToItsOwner, hasRequiredAuthAccess, needsOnboarding
  <2> QED  BY <1>7, <2>1, <2>4 DEF NavInv
<1> QED  BY <1>6, <1>9, <1>10, <1>11

LEMMA NavRefusingKeeps ==
  ASSUME NavInv, ProfileRefused \/ ProfileFails \/ retryVerification
  PROVE  NavInv'
<1>1. NavTypeOK /\ SessionsAreOwned
  BY DEF NavInv
<1>2. /\ page \in Pages /\ jar \in [AllHosts -> Cookies] /\ NoUser \in Memory
      /\ snapshot \in [AllHosts -> Holder] /\ memory \in Memory /\ page.host \in AllHosts
      /\ logins \in 0 .. MaxLogins /\ outages \in 0 .. MaxOutages
  BY <1>1, Typed DEF Pages, NoUser, Memory, Holder
<1>3. PICK reached \in {"leaving", "error", "checking"} : page' = [page EXCEPT !.stage = reached]
  BY DEF ProfileRefused, ProfileFails, retryVerification
<1>4. page' \in Pages /\ page'.stage # "ready"
  BY <1>2, <1>3 DEF Pages
<1>5. /\ jar' \in {jar, [jar EXCEPT ![page.host].role = FALSE]}
      /\ snapshot' \in {snapshot, [snapshot EXCEPT ![page.host] = Nobody]}
      /\ memory' \in {memory, NoUser}
      /\ onboarded' = onboarded /\ logins' = logins
  BY DEF ProfileRefused, ProfileFails, retryVerification
<1>6. jar' \in [AllHosts -> Cookies] /\ SessionsAreOwned'
  <2>1. CASE jar' = jar
    BY <1>1, <1>2, <2>1 DEF SessionsAreOwned
  <2>2. CASE jar' = [jar EXCEPT ![page.host].role = FALSE]
    <3>1. jar' \in [AllHosts -> Cookies]
      BY <1>2, <2>2 DEF Cookies
    <3>2. \A h \in AllHosts : jar'[h].fit = jar[h].fit /\ jar'[h].owner = jar[h].owner
      BY <1>2, <2>2 DEF Cookies
    <3> QED  BY <1>1, <3>1, <3>2 DEF SessionsAreOwned
  <2> QED  BY <1>5, <2>1, <2>2
<1>7. snapshot' \in [AllHosts -> Holder] /\ memory' \in Memory
  BY <1>2, <1>5 DEF Holder
<1>8. outages' \in 0 .. MaxOutages
  BY <1>2, NavigationAssumption DEF ProfileRefused, ProfileFails, retryVerification
<1>9. NavTypeOK'
  BY <1>1, <1>4, <1>5, <1>6, <1>7, <1>8 DEF NavTypeOK, Pages, Memory, Cookies, Holder
<1> QED  BY <1>4, <1>6, <1>9, OffShow

LEMMA LeavingKeeps ==
  ASSUME NavInv, LogoutAnswered \/ LogoutFails \/ LogoutCutShort
  PROVE  NavInv'
<1>1. NavTypeOK /\ SessionsAreOwned
  BY DEF NavInv
<1>2. /\ page \in Pages /\ jar \in [AllHosts -> Cookies] /\ NoCookies \in Cookies
      /\ NoCookies.fit = "none" /\ page.host \in AllHosts /\ page.path \in Routing
      /\ NoPath \in Routing /\ outages \in 0 .. MaxOutages
  BY <1>1, Typed DEF Pages, NoCookies, Cookies, Holder, Routing
<1>3. page' \in Pages /\ page'.stage = "request"
  <2>1. getUnauthorizedDestination(page.path) \in Paths
    BY <1>2, Destinations
  <2>2. page' = Load(page.host, getUnauthorizedDestination(page.path), NoPath)
    BY DEF LogoutAnswered, LogoutFails, LogoutCutShort, Turned
  <2> QED  BY <1>2, <2>1, <2>2, Asking
<1>4. jar' \in {jar, [jar EXCEPT ![page.host] = NoCookies]}
  BY DEF LogoutAnswered, LogoutFails, LogoutCutShort
<1>5. jar' \in [AllHosts -> Cookies] /\ SessionsAreOwned'
  BY <1>1, <1>2, <1>4 DEF SessionsAreOwned
<1>6. outages' \in 0 .. MaxOutages
  BY <1>2, NavigationAssumption DEF LogoutAnswered, LogoutFails, LogoutCutShort
<1>7. NavTypeOK'
  BY <1>1, <1>3, <1>5, <1>6 DEF LogoutAnswered, LogoutFails, LogoutCutShort, NavTypeOK,
     Pages, Cookies, Holder
<1> QED  BY <1>3, <1>5, <1>7, OffShow

-----------------------------------------------------------------------------
(* The forms, the menu and time. *)

\* A sign-in gives a host the cookies of an account.
LEMMA SigningIn ==
  ASSUME NavTypeOK, SessionsAreOwned, NEW h \in AllHosts, NEW a \in Accounts, NEW jars,
         jars = signedIn(h, a)
  PROVE  /\ jars \in [AllHosts -> Cookies] /\ jars[h].owner = a
         /\ \A k \in AllHosts : jars[k].fit # "none" => jars[k].owner # Nobody
         /\ login(a) \in Memory /\ login(a).user = a
<1>1. jar \in [AllHosts -> Cookies]
  BY Typed
<1>2. [owner |-> a, fit |-> "live", role |-> TRUE] \in Cookies
  BY DEF Cookies, Holder
<1> QED  BY <1>1, <1>2, NavigationAssumption
         DEF signedIn, SessionsAreOwned, login, Memory, Holder

LEMMA LoginKeeps ==
  ASSUME NavInv, NEW a \in Accounts, handleLogin(a)
  PROVE  NavInv'
<1>1. NavTypeOK /\ SessionsAreOwned
  BY DEF NavInv
<1>2. /\ page \in Pages /\ page.host \in AllHosts /\ page.next \in Routing
      /\ snapshot \in [AllHosts -> Holder] /\ logins \in 0 .. MaxLogins
      /\ NoPath \in Routing /\ (a \in onboarded) \in BOOLEAN
  BY <1>1, Typed DEF Pages, Routing
<1>3. /\ jar' \in [AllHosts -> Cookies] /\ jar'[page.host].owner = a /\ SessionsAreOwned'
      /\ memory' \in Memory /\ memory'.user = a
  BY <1>1, <1>2, SigningIn DEF handleLogin, SessionsAreOwned
<1>4. /\ snapshot' \in [AllHosts -> Holder] /\ logins' \in 0 .. MaxLogins
      /\ UNCHANGED <<onboarded, outages>>
  BY <1>2, NavigationAssumption DEF handleLogin, Holder
<1>5. page' \in Pages => NavTypeOK'
  BY <1>1, <1>3, <1>4 DEF NavTypeOK, Pages, Cookies, Memory, Holder
<1> DEFINE destination == resolveAuthSuccess(a, page.next, a \in onboarded)
<1>6. destination \in Paths /\ (destination = "/onboarding" => needsOnboarding(a))
  BY <1>2, Destinations DEF needsOnboarding
<1>7. \/ page' = [page EXCEPT !.stage = "sending"]
      \/ /\ page' = [page EXCEPT !.step = "choose"]
         /\ page.shown = "/onboarding" /\ needsOnboarding(a)
      \/ page' = Goto(destination, NoPath)
  BY <1>6 DEF handleLogin
<1> HIDE DEF destination
<1>8. CASE page' = [page EXCEPT !.stage = "sending"]
  <2>1. page' \in Pages /\ page'.stage = "sending"
    BY <1>2, <1>8 DEF Pages
  <2> QED  BY <1>3, <1>5, <2>1, OffShow
<1>9. CASE page' = Goto(destination, NoPath)
  BY <1>2, <1>3, <1>5, <1>6, <1>9, Asking, OffShow
<1>10. CASE /\ page' = [page EXCEPT !.step = "choose"]
            /\ page.shown = "/onboarding" /\ needsOnboarding(a)
  <2>1. page' \in Pages /\ page'.host = page.host /\ page'.shown = "/onboarding"
    BY <1>2, <1>10 DEF Pages
  <2>2. needsOnboarding(a)'
    BY <1>4, <1>10 DEF needsOnboarding
  <2>3. ShownToItsOwner'
    BY <1>3, <2>1, <2>2, NavigationAssumption
       DEF ShownToItsOwner, hasRequiredAuthAccess, needsOnboarding
  <2> QED  BY <1>3, <1>5, <2>1, <2>3 DEF NavInv
<1> QED  BY <1>7, <1>8, <1>9, <1>10

LEMMA ProfessorLoginKeeps ==
  ASSUME NavInv, NEW a \in Accounts, professorLogin(a)
  PROVE  NavInv'
<1>1. NavTypeOK /\ SessionsAreOwned
  BY DEF NavInv
<1>2. /\ page \in Pages /\ page.host \in AllHosts /\ page.stage = "guest"
      /\ snapshot \in [AllHosts -> Holder] /\ memory \in Memory /\ NoUser \in Memory
      /\ logins \in 0 .. MaxLogins /\ outages \in 0 .. MaxOutages
      /\ "/professor" \in Paths /\ NoPath \in Routing
      /\ NoCookies \in Cookies /\ NoCookies.fit = "none"
  BY <1>1, Typed DEF professorLogin, Pages, NoUser, Memory, Holder, Paths, Routing,
     NoCookies, Cookies
<1>3. page' \in Pages /\ page'.stage # "ready"
  BY <1>2, Asking DEF professorLogin
<1>4. /\ snapshot' \in [AllHosts -> Holder]
      /\ logins' \in 0 .. MaxLogins /\ outages' \in 0 .. MaxOutages
      /\ onboarded' = onboarded
  BY <1>2, NavigationAssumption DEF professorLogin, Holder
<1>5. memory' \in Memory
  BY <1>1, <1>2, SigningIn DEF professorLogin
<1>6. jar' \in [AllHosts -> Cookies] /\ SessionsAreOwned'
  <2>1. CASE jar' = signedIn(page.host, a)
    BY <1>1, <1>2, <2>1, SigningIn DEF SessionsAreOwned
  <2>2. CASE jar' = [endSessions(a) EXCEPT ![page.host] = NoCookies]
    BY <1>1, <1>2, <2>2, SessionsEnd DEF SessionsAreOwned
  <2> QED  BY <2>1, <2>2 DEF professorLogin
<1>7. NavTypeOK'
  BY <1>1, <1>3, <1>4, <1>5, <1>6 DEF NavTypeOK, Pages, Cookies, Memory, Holder
<1> QED  BY <1>3, <1>6, <1>7, OffShow

LEMMA OnboardingKeeps ==
  ASSUME NavInv, saveOnboarding
  PROVE  NavInv'
<1>1. NavTypeOK /\ SessionsAreOwned
  BY DEF NavInv
<1>2. /\ page \in Pages /\ page.host \in AllHosts /\ page.next \in Routing
      /\ snapshot \in [AllHosts -> Holder] /\ memory \in Memory /\ memory.user \in Holder
      /\ jar \in [AllHosts -> Cookies] /\ onboarded \subseteq Accounts
      /\ jar[page.host].owner \in Holder /\ NoPath \in Routing /\ NoUser \in Memory
  BY <1>1, Typed DEF Pages, Routing, Memory, Cookies, NoUser, Holder
<1>3. /\ page' \in Pages /\ page'.stage # "ready" /\ memory' \in Memory
      /\ snapshot' \in [AllHosts -> Holder] /\ onboarded' \subseteq Accounts
      /\ jar' \in {jar, [jar EXCEPT ![page.host].role = FALSE]}
  <2>1. CASE jar[page.host].fit = "live"
    <3>1. jar[page.host].owner \in Accounts
      BY <1>1, <1>2, <2>1 DEF SessionsAreOwned, Holder
    <3>2. resolveAuthSuccess(jar[page.host].owner, page.next, TRUE) \in Paths
      BY <1>2, Destinations
    <3>3. updateUser(memory.user) \in Memory
      BY <1>2 DEF updateUser, Memory
    <3> QED  BY <1>2, <2>1, <3>1, <3>2, <3>3, Asking DEF saveOnboarding
  <2>2. CASE jar[page.host].fit # "live"
    <3>1. page' = [page EXCEPT !.stage = "checking"]
      BY <2>2 DEF saveOnboarding
    <3>2. page' \in Pages /\ page'.stage = "checking"
      BY <1>2, <3>1 DEF Pages
    <3> QED  BY <1>2, <2>2, <3>2 DEF saveOnboarding, Holder
  <2> QED  BY <2>1, <2>2
<1>4. jar' \in [AllHosts -> Cookies] /\ SessionsAreOwned'
  <2>1. CASE jar' = jar
    BY <1>1, <1>2, <2>1 DEF SessionsAreOwned
  <2>2. CASE jar' = [jar EXCEPT ![page.host].role = FALSE]
    <3>1. jar' \in [AllHosts -> Cookies]
      BY <1>2, <2>2 DEF Cookies
    <3>2. \A h \in AllHosts : jar'[h].fit = jar[h].fit /\ jar'[h].owner = jar[h].owner
      BY <1>2, <2>2 DEF Cookies
    <3> QED  BY <1>1, <3>1, <3>2 DEF SessionsAreOwned
  <2> QED  BY <1>3, <2>1, <2>2
<1>5. NavTypeOK'
  BY <1>1, <1>3, <1>4 DEF saveOnboarding, NavTypeOK, Pages, Cookies, Memory, Holder
<1> QED  BY <1>3, <1>4, <1>5, OffShow

LEMMA MenuKeeps ==
  ASSUME NavInv, doLogout
  PROVE  NavInv'
<1>1. NavTypeOK /\ SessionsAreOwned
  BY DEF NavInv
<1>2. /\ page \in Pages /\ page.host \in AllHosts /\ NoUser \in Memory
      /\ snapshot \in [AllHosts -> Holder] /\ jar \in [AllHosts -> Cookies]
      /\ "/professor/login" \in Paths /\ "/" \in Paths /\ NoPath \in Routing
      /\ NoCookies \in Cookies /\ NoCookies.fit = "none"
  BY <1>1, Typed DEF Pages, Routing, Paths, NoUser, Memory, Holder, NoCookies, Cookies
<1>3. page' \in Pages /\ page'.stage = "request"
  BY <1>2, Asking DEF doLogout
<1>4. PICK jars \in [AllHosts -> Cookies] :
        /\ jar' = [jars EXCEPT ![page.host] = NoCookies]
        /\ \A h \in AllHosts : jars[h].fit # "none" => jars[h].owner # Nobody
  <2>1. CASE jar[page.host].fit = "live"
    <3>1. jar' = [endSessions(jar[page.host].owner) EXCEPT ![page.host] = NoCookies]
      BY <2>1 DEF doLogout
    <3>2. /\ endSessions(jar[page.host].owner) \in [AllHosts -> Cookies]
          /\ \A h \in AllHosts :
               endSessions(jar[page.host].owner)[h].fit # "none" =>
                 endSessions(jar[page.host].owner)[h].owner # Nobody
      BY <1>1, SessionsEnd
    <3> QED  BY <3>1, <3>2
  <2>2. CASE jar[page.host].fit # "live"
    BY <1>1, <1>2, <2>2 DEF doLogout, SessionsAreOwned
  <2> QED  BY <2>1, <2>2
<1>5. jar' \in [AllHosts -> Cookies] /\ SessionsAreOwned'
  BY <1>2, <1>4 DEF SessionsAreOwned
<1>6. snapshot' \in [AllHosts -> Holder] /\ memory' \in Memory
  BY <1>2 DEF doLogout, Holder
<1>7. NavTypeOK'
  BY <1>1, <1>3, <1>5, <1>6 DEF doLogout, NavTypeOK, Pages, Cookies, Memory, Holder
<1> QED  BY <1>3, <1>5, <1>7, OffShow

\* What time does to a cookie leaves its owner, or nobody.
LEMMA TimeKeeps ==
  ASSUME NavInv,
         \/ \E h \in AllHosts : TokenExpires(h) \/ CookiesLapse(h)
         \/ \E a \in Accounts : RevokedElsewhere(a)
  PROVE  NavInv'
<1>1. NavTypeOK /\ SessionsAreOwned /\ ShownToItsOwner
  BY DEF NavInv
<1>2. jar \in [AllHosts -> Cookies] /\ NoCookies \in Cookies /\ NoCookies.fit = "none"
      /\ NoCookies.owner = Nobody
  BY <1>1, Typed DEF NoCookies, Cookies, Holder
<1>3. UNCHANGED <<onboarded, snapshot, page, memory, logins, outages>>
  BY DEF TokenExpires, CookiesLapse, RevokedElsewhere
<1>4. /\ jar' \in [AllHosts -> Cookies] /\ SessionsAreOwned'
      /\ \A h \in AllHosts : jar'[h].owner \in {jar[h].owner, Nobody}
  <2>1. ASSUME NEW h \in AllHosts, TokenExpires(h)
        PROVE  /\ jar' \in [AllHosts -> Cookies] /\ SessionsAreOwned'
               /\ \A k \in AllHosts : jar'[k].owner = jar[k].owner
    <3>1. /\ jar' \in [AllHosts -> Cookies]
          /\ \A k \in AllHosts : /\ jar'[k].owner = jar[k].owner
                                 /\ jar'[k].fit # "none" => jar[k].fit # "none"
      BY <1>2, <2>1 DEF TokenExpires, looksLive, Cookies
    <3> QED  BY <1>1, <3>1 DEF SessionsAreOwned
  <2>2. ASSUME NEW h \in AllHosts, CookiesLapse(h)
        PROVE  /\ jar' \in [AllHosts -> Cookies] /\ SessionsAreOwned'
               /\ \A k \in AllHosts : jar'[k].owner \in {jar[k].owner, Nobody}
    BY <1>1, <1>2, <2>2 DEF CookiesLapse, SessionsAreOwned
  <2>3. ASSUME NEW a \in Accounts, RevokedElsewhere(a)
        PROVE  /\ jar' \in [AllHosts -> Cookies] /\ SessionsAreOwned'
               /\ \A k \in AllHosts : jar'[k].owner = jar[k].owner
    BY <1>1, <2>3, SessionsEnd DEF RevokedElsewhere, SessionsAreOwned
  <2> QED  BY <2>1, <2>2, <2>3
<1>5. NavTypeOK'
  BY <1>1, <1>3, <1>4 DEF NavTypeOK, Cookies, Holder
<1>6. ShownToItsOwner'
  <2>1. page.host \in AllHosts
    BY <1>1, Typed DEF Pages
  <2> QED  BY <1>1, <1>3, <1>4, <2>1 DEF ShownToItsOwner, needsOnboarding
<1> QED  BY <1>4, <1>5, <1>6 DEF NavInv

-----------------------------------------------------------------------------
\* Every step of the browser, the guard and the server keeps the invariant.
LEMMA NavInductive == NavInv /\ [NavNext]_navVars => NavInv'
<1> SUFFICES ASSUME NavInv, [NavNext]_navVars PROVE NavInv'
  OBVIOUS
<1>1. CASE UNCHANGED navVars
  BY <1>1 DEF navVars, NavInv, NavTypeOK, SessionsAreOwned, ShownToItsOwner, needsOnboarding
<1>2. CASE NavNext
  BY <1>2, NavLoadingKeeps, GuardKeeps, NavRefusingKeeps, LeavingKeeps, LoginKeeps,
     ProfessorLoginKeeps, OnboardingKeeps, MenuKeeps, TimeKeeps DEF NavNext
<1> QED  BY <1>1, <1>2

\* The types, the owners of the sessions and what is shown hold together.
THEOREM NavInvariant == NavSpec => []NavInv
<1> QED  BY NavInductive, NavStarts, PTL DEF NavSpec

\* Cookies, snapshots, the page and the store keep their types.
THEOREM NavigationTypes == NavSpec => []NavTypeOK
<1>1. NavInv => NavTypeOK
  BY DEF NavInv
<1> QED  BY <1>1, NavInvariant, PTL

\* Whoever signs in where, and whatever lapses, fails or is ended in between, a guarded
\* page is on show only in the name of the account that the host's session belongs to.
THEOREM PagesFollowSessions == NavSpec => []ShownToItsOwner
<1>1. NavInv => ShownToItsOwner
  BY DEF NavInv
<1> QED  BY <1>1, NavInvariant, PTL

-----------------------------------------------------------------------------
(* The exam page. *)

\* The fields of an open page and of a submission under way.
PaperFields == {"open", "edition", "answers", "started", "submitted", "submitting", "called",
                "result"}
PostFields == {"page", "answers", "entered", "at"}

IsPaper(p) == p = [x \in PaperFields |-> p[x]]
IsPost(s) == s = [x \in PostFields |-> s[x]]

\* A page shows what the student entered once the attempt has started, and nothing before.
PaperIsEntered ==
    paper = Closed \/
      /\ IsPaper(paper)
      /\ paper.started => paper.answers = entered
      /\ ~paper.started => paper.answers = NoAnswers /\ ~paper.submitted

\* So does the draft, which exists from the start of an attempt on.
DraftIsEntered == examDraft.kept => examDraft.started /\ examDraft.answers = entered

PostsAreEntered == \A s \in posts : IsPost(s) /\ s.answers = s.entered

ExamInv == PaperIsEntered /\ DraftIsEntered /\ PostsAreEntered /\ GradedAsEntered

-----------------------------------------------------------------------------
\* Setting some fields of a page leaves the others (setState, one hook per field).
LEMMA Started ==
    ASSUME NEW p, IsPaper(p), NEW r, r = [p EXCEPT !.started = TRUE]
    PROVE  IsPaper(r) /\ r.answers = p.answers /\ r.started
  BY DEF IsPaper, PaperFields

LEMMA Chosen ==
    ASSUME NEW p, IsPaper(p), NEW a, NEW r, r = [p EXCEPT !.answers = a]
    PROVE  IsPaper(r) /\ r.answers = a /\ r.started = p.started
  BY DEF IsPaper, PaperFields

LEMMA Submitted ==
    ASSUME NEW p, IsPaper(p), NEW r,
           r = [p EXCEPT !.called = TRUE, !.submitted = TRUE, !.submitting = TRUE]
    PROVE  IsPaper(r) /\ r.answers = p.answers /\ r.started = p.started
  BY DEF IsPaper, PaperFields

LEMMA Done ==
    ASSUME NEW p, IsPaper(p), NEW r, r = [p EXCEPT !.result = TRUE, !.submitting = FALSE]
    PROVE  /\ IsPaper(r) /\ r.answers = p.answers /\ r.started = p.started
           /\ r.submitted = p.submitted
  BY DEF IsPaper, PaperFields

LEMMA Again ==
    ASSUME NEW p, IsPaper(p), NEW r,
           r = [p EXCEPT !.submitted = FALSE, !.called = FALSE, !.submitting = FALSE]
    PROVE  IsPaper(r) /\ r.answers = p.answers /\ r.started = p.started /\ ~r.submitted
  BY DEF IsPaper, PaperFields

LEMMA Graded ==
    ASSUME NEW s, IsPost(s), s.answers = s.entered, NEW v, NEW r,
           \/ r = [s EXCEPT !.page = v]
           \/ r = [s EXCEPT !.at = v]
    PROVE  IsPost(r) /\ r.answers = r.entered
  BY DEF IsPost, PostFields

\* Whatever is shown is what the next visit restores.
LEMMA ShownIsKept ==
    ASSUME NEW p, Show(p), IsPaper(p),
           p.started => p.answers = entered',
           ~p.started => p.answers = NoAnswers /\ ~p.submitted
    PROVE  PaperIsEntered' /\ DraftIsEntered'
<1>1. paper' = p /\ examDraft' = Written(p)
  BY DEF Show
<1>2. PaperIsEntered'
  BY <1>1 DEF PaperIsEntered
<1>3. DraftIsEntered'
  BY <1>1 DEF DraftIsEntered, Written, NoExamDraft
<1> QED  BY <1>2, <1>3

\* A page that starts over restores the student's choices and loses only those that
\* the quiz no longer offers.
LEMMA HydratedIsEntered ==
    ASSUME DraftIsEntered, NEW e
    PROVE  LET p == Hydrated(e) IN
           /\ IsPaper(p)
           /\ p.started => p.answers = StillOffered(p)
           /\ ~p.started => p.answers = NoAnswers /\ ~p.submitted
<1>1. CASE readExamDraft(examDraft, e)
  <2>1. examDraft.started /\ examDraft.answers = entered
    BY <1>1 DEF DraftIsEntered, readExamDraft
  <2> DEFINE fin == examDraft.submitted /\ examDraft.result
             p == [open |-> TRUE, edition |-> e,
                   answers |-> sanitizeDraftAnswers(examDraft.answers, e),
                   started |-> examDraft.started \/ fin, submitted |-> fin,
                   submitting |-> FALSE, called |-> fin, result |-> fin]
  <2>2. Hydrated(e) = p
    BY <1>1 DEF Hydrated, Blank
  <2>3. p.started /\ p.edition = e /\ p.answers = sanitizeDraftAnswers(entered, e) /\ IsPaper(p)
    BY <2>1 DEF IsPaper, PaperFields
  <2> HIDE DEF p
  <2> QED  BY <2>2, <2>3 DEF StillOffered
<1>2. CASE ~readExamDraft(examDraft, e)
  BY <1>2 DEF Hydrated, Blank, IsPaper, PaperFields
<1> QED  BY <1>1, <1>2

LEMMA ExamOpeningKeeps ==
    ASSUME ExamInv, OpenExam \/ QuizRevalidated
    PROVE  ExamInv'
<1>1. /\ Show(Hydrated(edition)) /\ entered' = StillOffered(Hydrated(edition))
      /\ UNCHANGED <<posts, graded>>
  BY DEF OpenExam, QuizRevalidated, Show
<1>2. PaperIsEntered' /\ DraftIsEntered'
  BY <1>1, HydratedIsEntered, ShownIsKept DEF ExamInv
<1> QED  BY <1>1, <1>2 DEF ExamInv, PostsAreEntered, GradedAsEntered

LEMMA ExamStartingKeeps ==
    ASSUME ExamInv, startExam \/ resetExamAttempt
    PROVE  ExamInv'
<1>1. IsPaper(paper) /\ UNCHANGED <<posts, graded>> /\ entered' = NoAnswers
  BY DEF startExam, resetExamAttempt, ExamInv, PaperIsEntered, Closed
<1>2. CASE startExam
  <2> DEFINE p == [paper EXCEPT !.started = TRUE]
  <2>1. paper.answers = NoAnswers
    BY <1>1, <1>2 DEF startExam, ExamInv, PaperIsEntered, Closed
  <2>2. Show(p)
    BY <1>2 DEF startExam
  <2>3. IsPaper(p) /\ p.answers = paper.answers /\ p.started
    BY <1>1, Started
  <2> HIDE DEF p
  <2> QED  BY <1>1, <2>1, <2>2, <2>3, ShownIsKept DEF ExamInv, PostsAreEntered, GradedAsEntered
<1>3. CASE resetExamAttempt
  <2> DEFINE p == Blank(paper.edition)
  <2>1. IsPaper(p) /\ ~p.started /\ ~p.submitted /\ p.answers = NoAnswers
    BY DEF Blank, IsPaper, PaperFields
  <2>2. Show(p)
    BY <1>3 DEF resetExamAttempt
  <2> HIDE DEF p
  <2> QED  BY <1>1, <2>1, <2>2, ShownIsKept DEF ExamInv, PostsAreEntered, GradedAsEntered
<1> QED  BY <1>2, <1>3

LEMMA ExamChoosingKeeps ==
    ASSUME ExamInv, NEW q, NEW o, chooseAnswer(q, o)
    PROVE  ExamInv'
<1> DEFINE WithChoice(f) == [x \in DOMAIN f \cup {q} |-> IF x = q THEN o ELSE f[x]]
           p == [paper EXCEPT !.answers = WithChoice(@)]
<1>1. IsPaper(paper) /\ paper.started /\ paper.answers = entered
  BY DEF chooseAnswer, Questions, ExamInv, PaperIsEntered, Closed
<1>2. Show(p) /\ entered' = WithChoice(entered) /\ UNCHANGED <<posts, graded>>
  BY DEF chooseAnswer
<1>3. IsPaper(p) /\ p.started = paper.started /\ p.answers = WithChoice(paper.answers)
  <2> DEFINE a == WithChoice(paper.answers)
  <2>1. p = [paper EXCEPT !.answers = a]
    OBVIOUS
  <2> HIDE DEF a, p, WithChoice
  <2>2. IsPaper(paper)
    BY <1>1
  <2>3. IsPaper(p) /\ p.started = paper.started /\ p.answers = a
    BY <2>1, <2>2, Chosen
  <2> QED  BY <2>3 DEF a
<1> HIDE DEF p, WithChoice
<1> QED  BY <1>1, <1>2, <1>3, ShownIsKept DEF ExamInv, PostsAreEntered, GradedAsEntered

LEMMA ExamSubmittingKeeps ==
    ASSUME ExamInv, pressSubmit \/ updateTime
    PROVE  ExamInv'
<1> DEFINE p == [paper EXCEPT !.called = TRUE, !.submitted = TRUE, !.submitting = TRUE]
           s == [page |-> visits, answers |-> paper.answers, entered |-> entered, at |-> "asked"]
<1>1. IsPaper(paper) /\ paper.started /\ paper.answers = entered
  BY DEF pressSubmit, updateTime, Questions, ExamInv, PaperIsEntered, Closed
<1>2. Show(p) /\ posts' = posts \cup {s} /\ UNCHANGED <<graded, entered>>
  BY DEF pressSubmit, updateTime, handleSubmit
<1>3. IsPaper(p) /\ p.started = paper.started /\ p.answers = paper.answers
  BY <1>1, Submitted
<1>4. IsPost(s) /\ s.answers = s.entered
  BY <1>1 DEF IsPost, PostFields
<1> HIDE DEF p, s
<1> QED  BY <1>1, <1>2, <1>3, <1>4, ShownIsKept DEF ExamInv, PostsAreEntered, GradedAsEntered

LEMMA ExamAnsweringKeeps ==
    ASSUME ExamInv, NEW s \in posts, SubmissionAnswered(s) \/ SubmissionFails(s)
    PROVE  ExamInv'
<1>1. posts' \subseteq posts /\ UNCHANGED <<graded, entered>>
  BY DEF SubmissionAnswered, SubmissionFails
<1>2. CASE UNCHANGED <<paper, examDraft>>
  BY <1>1, <1>2 DEF ExamInv, PaperIsEntered, DraftIsEntered, PostsAreEntered, GradedAsEntered
<1>3. ASSUME NEW p, Show(p), Alive(s),
             IsPaper(paper) => /\ IsPaper(p) /\ p.answers = paper.answers
                               /\ p.started = paper.started
                               /\ p.submitted => paper.submitted
      PROVE  ExamInv'
  <2>1. /\ IsPaper(paper)
        /\ paper.started => paper.answers = entered
        /\ ~paper.started => paper.answers = NoAnswers /\ ~paper.submitted
    BY <1>3 DEF Alive, ExamInv, PaperIsEntered, Closed
  <2> QED  BY <1>1, <1>3, <2>1, ShownIsKept DEF ExamInv, PostsAreEntered, GradedAsEntered
<1>4. CASE SubmissionAnswered(s) /\ Alive(s)
  <2> DEFINE p == [paper EXCEPT !.result = TRUE, !.submitting = FALSE]
  <2>1. Show(p)
    BY <1>4 DEF SubmissionAnswered
  <2>2. IsPaper(paper) => /\ IsPaper(p) /\ p.answers = paper.answers
                          /\ p.started = paper.started
                          /\ p.submitted => paper.submitted
    BY Done
  <2> HIDE DEF p
  <2> QED  BY <1>3, <1>4, <2>1, <2>2
<1>5. CASE SubmissionFails(s) /\ Alive(s)
  <2> DEFINE p == [paper EXCEPT !.submitted = FALSE, !.called = FALSE, !.submitting = FALSE]
  <2>1. Show(p)
    BY <1>5 DEF SubmissionFails
  <2>2. IsPaper(paper) => /\ IsPaper(p) /\ p.answers = paper.answers
                          /\ p.started = paper.started
                          /\ p.submitted => paper.submitted
    BY Again
  <2> HIDE DEF p
  <2> QED  BY <1>3, <1>5, <2>1, <2>2
<1> QED  BY <1>2, <1>4, <1>5 DEF SubmissionAnswered, SubmissionFails

\* Grading and closing the page rewrite one field of a submission, the rest is as sent.
LEMMA ExamServingKeeps ==
    ASSUME ExamInv, CloseExam \/ \E s \in posts : SubmissionGraded(s)
    PROVE  ExamInv'
<1>1. \A v \in posts' : v \in posts \/ \E s \in posts : \E x : \/ v = [s EXCEPT !.page = x]
                                                          \/ v = [s EXCEPT !.at = x]
  BY DEF CloseExam, SubmissionGraded
<1>2. PostsAreEntered'
  BY <1>1, Graded DEF ExamInv, PostsAreEntered
<1>3. GradedAsEntered'
  BY DEF CloseExam, SubmissionGraded, ExamInv, PostsAreEntered, GradedAsEntered
<1>4. PaperIsEntered' /\ DraftIsEntered'
  BY DEF CloseExam, SubmissionGraded, ExamInv, PaperIsEntered, DraftIsEntered
<1> QED  BY <1>2, <1>3, <1>4 DEF ExamInv

-----------------------------------------------------------------------------
\* Every step of the student, the editors and the network keeps it.
LEMMA ExamInductive == ExamInv /\ [ExamNext]_examVars => ExamInv'
<1> SUFFICES ASSUME ExamInv, [ExamNext]_examVars PROVE ExamInv'
  OBVIOUS
<1>1. CASE OpenExam \/ QuizRevalidated
  BY <1>1, ExamOpeningKeeps
<1>2. CASE startExam \/ resetExamAttempt
  BY <1>2, ExamStartingKeeps
<1>3. CASE pressSubmit \/ updateTime
  BY <1>3, ExamSubmittingKeeps
<1>4. CASE \E e \in DOMAIN Editions : \E q \in DOMAIN Quiz(e) : \E o \in Quiz(e)[q] :
             chooseAnswer(q, o)
  BY <1>4, ExamChoosingKeeps
<1>5. CASE CloseExam \/ \E s \in posts : SubmissionGraded(s)
  BY <1>5, ExamServingKeeps
<1>6. CASE \E s \in posts : SubmissionAnswered(s) \/ SubmissionFails(s)
  BY <1>6, ExamAnsweringKeeps
<1>7. CASE QuizEdited \/ TimeRunsOut \/ UNCHANGED examVars
  BY <1>7 DEF QuizEdited, TimeRunsOut, examVars, ExamInv, PaperIsEntered, DraftIsEntered,
              PostsAreEntered, GradedAsEntered
<1> QED  BY <1>1, <1>2, <1>3, <1>4, <1>5, <1>6, <1>7 DEF ExamNext

\* The parts hold together whatever the student, the editors and the network do.
THEOREM ExamInvariant == ExamSpec => []ExamInv
<1>1. ExamInit => ExamInv
  BY DEF ExamInit, ExamInv, PaperIsEntered, DraftIsEntered, PostsAreEntered, GradedAsEntered,
         NoExamDraft
<1> QED  BY <1>1, ExamInductive, PTL DEF ExamSpec

\* What is graded is what the student entered in the attempt.
THEOREM GradesAreEarned == ExamSpec => []GradedAsEntered
<1>1. ExamInv => GradedAsEntered
  BY DEF ExamInv
<1> QED  BY <1>1, ExamInvariant, PTL

\* An open page shows an edition the quiz has had, answers to its questions only, and
\* waits for an answer only after submitting; its draft says the same.
FitsQuiz(p, e) ==
    /\ p.edition \in 1 .. e /\ DOMAIN p.answers \subseteq DOMAIN Quiz(p.edition)
    /\ p.submitting => p.submitted /\ p.called

ExamShape ==
    /\ edition \in DOMAIN Editions
    /\ paper.open => FitsQuiz(paper, edition) /\ examDraft = Written(paper)
    /\ visits \in 0 .. MaxVisits /\ attempts \in 0 .. MaxAttempts
    /\ examFailures \in 0 .. MaxExamFailures

\* The three budgets only grow, up to their bounds.
LEMMA ExamCounted ==
    ASSUME ExamShape, ExamNext
    PROVE  /\ visits' \in 0 .. MaxVisits /\ attempts' \in 0 .. MaxAttempts
           /\ examFailures' \in 0 .. MaxExamFailures
           /\ edition \in Nat /\ edition' \in DOMAIN Editions /\ 1 .. edition \subseteq 1 .. edition'
<1>1. /\ MaxVisits \in Nat /\ MaxAttempts \in Nat /\ MaxExamFailures \in Nat
      /\ edition \in Nat /\ edition >= 1 /\ edition <= Len(Editions) /\ Len(Editions) \in Nat
  BY ExamAssumption DEF ExamShape
<1>2. visits' = visits \/ (visits < MaxVisits /\ visits' = visits + 1)
  BY DEF ExamNext, OpenExam, CloseExam, QuizRevalidated, QuizEdited, TimeRunsOut, startExam,
         pressSubmit, updateTime, handleSubmit, resetExamAttempt, chooseAnswer,
         SubmissionGraded, SubmissionAnswered, SubmissionFails
<1>3. attempts' = attempts \/ (attempts < MaxAttempts /\ attempts' = attempts + 1)
  BY DEF ExamNext, OpenExam, CloseExam, QuizRevalidated, QuizEdited, TimeRunsOut, startExam,
         pressSubmit, updateTime, handleSubmit, resetExamAttempt, chooseAnswer,
         SubmissionGraded, SubmissionAnswered, SubmissionFails
<1>4. \/ examFailures' = examFailures
      \/ examFailures < MaxExamFailures /\ examFailures' = examFailures + 1
  BY DEF ExamNext, OpenExam, CloseExam, QuizRevalidated, QuizEdited, TimeRunsOut, startExam,
         pressSubmit, updateTime, handleSubmit, resetExamAttempt, chooseAnswer,
         SubmissionGraded, SubmissionAnswered, SubmissionFails
<1>5. edition' = edition \/ (edition < Len(Editions) /\ edition' = edition + 1)
  BY DEF ExamNext, OpenExam, CloseExam, QuizRevalidated, QuizEdited, TimeRunsOut, startExam,
         pressSubmit, updateTime, handleSubmit, resetExamAttempt, chooseAnswer,
         SubmissionGraded, SubmissionAnswered, SubmissionFails
<1>6. edition' \in 1 .. Len(Editions) /\ 1 .. edition \subseteq 1 .. edition'
  BY <1>1, <1>5
<1> QED  BY <1>1, <1>2, <1>3, <1>4, <1>6, ExamAssumption DEF ExamShape

\* A page that is shown after a step still fits the quiz.
LEMMA ExamPageKeeps ==
    ASSUME ExamInv, ExamShape, ExamNext
    PROVE  \/ UNCHANGED <<paper, examDraft>>
           \/ ~paper'.open
           \/ \E p : Show(p) /\ FitsQuiz(p, edition)
<1> DEFINE Goal == \E p : Show(p) /\ FitsQuiz(p, edition)
<1>1. paper.open => IsPaper(paper) /\ FitsQuiz(paper, edition)
  BY DEF ExamInv, PaperIsEntered, Closed, ExamShape
<1>2. CASE OpenExam \/ QuizRevalidated
  <2>1. edition \in 1 .. edition
    BY ExamAssumption DEF ExamShape
  <2>2. FitsQuiz(Hydrated(edition), edition)
    BY <2>1 DEF Hydrated, Blank, sanitizeDraftAnswers, NoAnswers, FitsQuiz
  <2> QED  BY <1>2, <2>2 DEF OpenExam, QuizRevalidated
<1>3. CASE startExam
  <2> DEFINE p == [paper EXCEPT !.started = TRUE]
  <2>1. FitsQuiz(p, edition)
    BY <1>1, <1>3 DEF startExam, IsPaper, PaperFields, FitsQuiz
  <2> QED  BY <1>3, <2>1 DEF startExam
<1>4. ASSUME NEW q, NEW o, chooseAnswer(q, o) PROVE Goal
  <2> DEFINE a == [x \in DOMAIN paper.answers \cup {q} |-> IF x = q THEN o ELSE paper.answers[x]]
             p == [paper EXCEPT !.answers = a]
  <2>1. Show(p) /\ q \in DOMAIN Quiz(paper.edition) /\ paper.open
    BY <1>4 DEF chooseAnswer, Questions
  <2>2. DOMAIN a \subseteq DOMAIN Quiz(paper.edition)
    BY <1>1, <2>1 DEF FitsQuiz
  <2> HIDE DEF a
  <2>3. FitsQuiz(p, edition)
    BY <1>1, <2>1, <2>2 DEF IsPaper, PaperFields, FitsQuiz
  <2> QED  BY <2>1, <2>3
<1>5. CASE pressSubmit \/ updateTime
  <2> DEFINE p == [paper EXCEPT !.called = TRUE, !.submitted = TRUE, !.submitting = TRUE]
  <2>1. Show(p) /\ paper.open
    BY <1>5 DEF pressSubmit, updateTime, handleSubmit, Questions
  <2>2. FitsQuiz(p, edition)
    BY <1>1, <2>1 DEF IsPaper, PaperFields, FitsQuiz
  <2> QED  BY <2>1, <2>2
<1>6. CASE resetExamAttempt
  <2>1. FitsQuiz(Blank(paper.edition), edition)
    BY <1>1, <1>6 DEF resetExamAttempt, Blank, NoAnswers, FitsQuiz
  <2> QED  BY <1>6, <2>1 DEF resetExamAttempt
<1>7. ASSUME NEW s \in posts, SubmissionAnswered(s), Alive(s) PROVE Goal
  <2> DEFINE p == [paper EXCEPT !.result = TRUE, !.submitting = FALSE]
  <2>1. FitsQuiz(p, edition)
    BY <1>1, <1>7 DEF Alive, IsPaper, PaperFields, FitsQuiz
  <2> QED  BY <1>7, <2>1 DEF SubmissionAnswered
<1>8. ASSUME NEW s \in posts, SubmissionFails(s), Alive(s) PROVE Goal
  <2> DEFINE p == [paper EXCEPT !.submitted = FALSE, !.called = FALSE, !.submitting = FALSE]
  <2>1. FitsQuiz(p, edition)
    BY <1>1, <1>8 DEF Alive, IsPaper, PaperFields, FitsQuiz
  <2> QED  BY <1>8, <2>1 DEF SubmissionFails
<1>9. CASE CloseExam
  BY <1>9 DEF CloseExam, Closed
<1>10. ASSUME NEW s \in posts,
              \/ SubmissionGraded(s)
              \/ ~Alive(s) /\ (SubmissionAnswered(s) \/ SubmissionFails(s))
       PROVE  UNCHANGED <<paper, examDraft>>
  BY <1>10 DEF SubmissionGraded, SubmissionAnswered, SubmissionFails
<1>11. CASE QuizEdited \/ TimeRunsOut
  BY <1>11 DEF QuizEdited, TimeRunsOut
<1> QED  BY <1>2, <1>3, <1>4, <1>5, <1>6, <1>7, <1>8, <1>9, <1>10, <1>11 DEF ExamNext

LEMMA ExamStarts == ExamInit => ExamInv /\ ExamShape
  BY ExamAssumption DEF ExamInit, ExamInv, PaperIsEntered, DraftIsEntered, PostsAreEntered,
     GradedAsEntered, NoExamDraft, ExamShape, Closed

LEMMA ExamShapeKeeps == ExamInv /\ ExamShape /\ [ExamNext]_examVars => ExamShape'
<1> SUFFICES ASSUME ExamInv, ExamShape, [ExamNext]_examVars PROVE ExamShape'
  OBVIOUS
<1>1. CASE ExamNext
  <2>1. paper'.open => FitsQuiz(paper', edition) /\ examDraft' = Written(paper')
    BY <1>1, ExamPageKeeps DEF Show, ExamShape
  <2>2. \A p : FitsQuiz(p, edition) => FitsQuiz(p, edition')
    BY <1>1, ExamCounted DEF FitsQuiz
  <2>3. (paper.open => FitsQuiz(paper, edition) /\ examDraft = Written(paper))'
    BY <2>1, <2>2 DEF FitsQuiz
  <2> QED  BY <1>1, <2>3, ExamCounted DEF ExamShape
<1>2. CASE UNCHANGED examVars
  BY <1>2 DEF examVars, ExamShape, FitsQuiz, Written
<1> QED  BY <1>1, <1>2

LEMMA ExamInvTypes == ExamInv /\ ExamShape => ExamTypeOK
  BY DEF ExamInv, DraftIsEntered, ExamShape, FitsQuiz, ExamTypeOK

\* The page, its draft and the quiz keep in step through edits, reloads and submissions.
THEOREM ExamTypes == ExamSpec => []ExamTypeOK
<1> QED  BY ExamStarts, ExamInductive, ExamShapeKeeps, ExamInvTypes, PTL DEF ExamSpec

-----------------------------------------------------------------------------
(* The live room. *)

Interaction == [kind : Kinds, own : BOOLEAN, status : Statuses]

\* A list of interactions of the room.
OfRoom(items) ==
    DOMAIN items \subseteq DOMAIN room /\ \A i \in DOMAIN items : items[i] \in Statuses

\* Requests of the page: a text to post, a question to answer, and what was stored.
Asked == [at : {"asked"}, do : {"post"}, kind : Kinds]
         \cup [at : {"asked"}, do : {"answer"}, id : DOMAIN room]
Performed == [at : {"done"}, id : DOMAIN room, status : Statuses]

\* The interactions are numbered from one on, and whatever is cached, read, announced or
\* under way is about one of them.
LiveInv ==
    /\ \E n \in Nat : room \in [1 .. n -> Interaction]
    /\ OfRoom(list) /\ OfRoom(reads.full.items) /\ OfRoom(reads.poll.items)
    /\ reads = [full |-> reads.full, poll |-> reads.poll]
    /\ feed \subseteq (DOMAIN room) \X Statuses
    /\ calls = {} \/ \E c \in Asked \cup Performed : calls = {c}
    /\ spent \in [DOMAIN Bounds -> Nat] /\ \A b \in DOMAIN Bounds : spent[b] <= Bounds[b]

\* A list merged into another one is of the room, as long as the room has both.
LEMMA OverlaidIsOfRoom ==
    ASSUME NEW f, OfRoom(f), NEW g, OfRoom(g)
    PROVE  OfRoom(Overlay(f, g))
  BY DEF OfRoom, Overlay

LEMMA OneIsOfRoom ==
    ASSUME NEW i \in DOMAIN room, NEW s \in Statuses
    PROVE  OfRoom(One(i, s))
  BY DEF OfRoom, One

LEMMA NoneIsOfRoom == OfRoom(<<>>) /\ OfRoom(NoRead.items)
  BY DEF OfRoom, NoRead

\* The interactions keep their numbers: what was of the room still is.
LEMMA RoomGrows ==
    ASSUME LiveInv, DOMAIN room \subseteq DOMAIN room', NEW f, OfRoom(f)
    PROVE  OfRoom(f)'
  BY DEF OfRoom

\* What the budget allows is counted, and never goes beyond it.
LEMMA Spending ==
    ASSUME LiveInv, \/ UNCHANGED spent
                    \/ \E b \in {"posts", "moderations", "failures", "focus"} : Spend(b)
    PROVE  spent' \in [DOMAIN Bounds -> Nat] /\ \A b \in DOMAIN Bounds : spent'[b] <= Bounds[b]
<1>1. DOMAIN Bounds = {"posts", "moderations", "failures", "focus"}
  BY DEF Bounds
<1>2. \A b \in DOMAIN Bounds : Bounds[b] \in Nat
  BY LiveAssumption DEF Bounds
<1> HIDE DEF Bounds
<1>3. spent \in [DOMAIN Bounds -> Nat] /\ \A b \in DOMAIN Bounds : spent[b] <= Bounds[b]
  BY DEF LiveInv
<1> QED  BY <1>1, <1>2, <1>3 DEF Spend

\* Reading the list again, or reading it, keeps both reads lists of the room.
LEMMA ReadsKeep ==
    ASSUME LiveInv,
           \/ \E r \in {"full", "poll"} : reads' = StartRead(r)
           \/ \E r \in {"full", "poll"} : reads' = [reads EXCEPT ![r] = NoRead]
           \/ \E r \in {"full", "poll"} :
                reads' = [reads EXCEPT ![r] = [at |-> "read", items |-> listInteractions]]
           \/ reads' = [full |-> NoRead, poll |-> NoRead]
    PROVE  /\ OfRoom(reads'.full.items) /\ OfRoom(reads'.poll.items)
           /\ reads' = [full |-> reads'.full, poll |-> reads'.poll]
<1>1. OfRoom(listInteractions)
  BY DEF LiveInv, Interaction, OfRoom, listInteractions
<1>2. OfRoom(<<>>) /\ OfRoom(NoRead.items)
  BY NoneIsOfRoom
<1>3. /\ OfRoom(reads.full.items) /\ OfRoom(reads.poll.items)
      /\ reads = [full |-> reads.full, poll |-> reads.poll]
  BY DEF LiveInv
<1> HIDE DEF OfRoom, listInteractions
<1>4. ASSUME NEW r \in {"full", "poll"}, NEW new, OfRoom(new.items),
             reads' = [reads EXCEPT ![r] = new]
      PROVE  /\ OfRoom(reads'.full.items) /\ OfRoom(reads'.poll.items)
             /\ reads' = [full |-> reads'.full, poll |-> reads'.poll]
  BY <1>3, <1>4
<1>5. ASSUME NEW r \in {"full", "poll"}, reads' = StartRead(r)
      PROVE  /\ OfRoom(reads'.full.items) /\ OfRoom(reads'.poll.items)
             /\ reads' = [full |-> reads'.full, poll |-> reads'.poll]
  BY <1>2, <1>3, <1>5 DEF StartRead
<1>6. [at |-> "read", items |-> listInteractions].items = listInteractions
  OBVIOUS
<1> QED  BY <1>1, <1>2, <1>4, <1>5, <1>6

\* A step of the page, or of its channel, that leaves the room as it is.
LEMMA PageKeeps ==
    ASSUME LiveInv, UNCHANGED room, OfRoom(list'),
           OfRoom(reads'.full.items) /\ OfRoom(reads'.poll.items),
           reads' = [full |-> reads'.full, poll |-> reads'.poll],
           feed' \subseteq feed,
           calls' = calls \/ calls' = {} \/ \E c \in Asked : calls' = {c},
           UNCHANGED spent \/ \E b \in {"posts", "moderations", "failures", "focus"} : Spend(b)
    PROVE  LiveInv'
<1>1. spent' \in [DOMAIN Bounds -> Nat] /\ \A b \in DOMAIN Bounds : spent'[b] <= Bounds[b]
  BY Spending
<1>2. Asked' = Asked /\ Performed' = Performed
  BY DEF Asked, Performed
<1>3. calls' = {} \/ \E c \in Asked \cup Performed : calls' = {c}
  BY DEF LiveInv
<1>4. OfRoom(list)' /\ OfRoom(reads.full.items)' /\ OfRoom(reads.poll.items)'
  BY DEF OfRoom
<1> HIDE DEF OfRoom, Asked, Performed
<1> QED  BY <1>1, <1>2, <1>3, <1>4 DEF LiveInv

\* A step of the server: the room may grow, an interaction gets a status and says so.
LEMMA ServerKeeps ==
    ASSUME LiveInv, NEW n \in Nat, room' \in [1 .. n -> Interaction],
           DOMAIN room \subseteq 1 .. n, UNCHANGED <<list, reads>>,
           NEW i \in 1 .. n, NEW s \in Statuses, feed' = feed \cup {<<i, s>>},
           calls' = calls \/ calls' = {[at |-> "done", id |-> i, status |-> s]},
           UNCHANGED spent \/ \E b \in {"posts", "moderations", "failures", "focus"} : Spend(b)
    PROVE  LiveInv'
<1>1. spent' \in [DOMAIN Bounds -> Nat] /\ \A b \in DOMAIN Bounds : spent'[b] <= Bounds[b]
  BY Spending
<1>2. DOMAIN room' = 1 .. n
  OBVIOUS
<1>3. Asked \subseteq Asked' /\ Performed \subseteq Performed'
  BY <1>2 DEF Asked, Performed
<1>4. [at |-> "done", id |-> i, status |-> s] \in Performed'
  BY <1>2 DEF Performed
<1>5. (calls = {} \/ \E c \in Asked \cup Performed : calls = {c})'
  BY <1>3, <1>4 DEF LiveInv
<1>6. OfRoom(list)' /\ OfRoom(reads.full.items)' /\ OfRoom(reads.poll.items)'
  BY <1>2 DEF LiveInv, OfRoom
<1>7. (feed \subseteq (DOMAIN room) \X Statuses)'
  BY <1>2 DEF LiveInv
<1> QED  BY <1>1, <1>5, <1>6, <1>7 DEF LiveInv

\* A new interaction gets the next number.
LEMMA Posted ==
    ASSUME LiveInv, NEW kind \in Kinds, NEW own \in BOOLEAN, Post(kind, own)
    PROVE  \E n \in Nat : /\ room' \in [1 .. n -> Interaction] /\ n \in 1 .. n
                          /\ DOMAIN room \subseteq 1 .. n /\ Cardinality(DOMAIN room') = n
                          /\ feed' = feed \cup {<<n, "pending">>}
<1>1. PICK n \in Nat : room \in [1 .. n -> Interaction]
  BY DEF LiveInv
<1>2. PICK m, e : m = n + 1 /\ e = [kind |-> kind, own |-> own, status |-> "pending"]
  OBVIOUS
<1>3. e \in Interaction
  BY <1>2 DEF Interaction, Statuses
<1>4. Cardinality(DOMAIN room) = n /\ Cardinality(1 .. m) = m
  BY <1>1, <1>2, FS_Interval
<1>5. room' = Overlay(One(m, e), room) /\ feed' = feed \cup {<<m, "pending">>}
  BY <1>2, <1>4 DEF Post
<1>6. m \in Nat /\ m \in 1 .. m /\ 1 .. m = 1 .. n \cup {m} /\ 1 .. n \subseteq 1 .. m
  BY <1>2
<1>7. room' \in [1 .. m -> Interaction]
  BY <1>1, <1>3, <1>5, <1>6 DEF Overlay, One
<1> QED  BY <1>1, <1>4, <1>5, <1>6, <1>7

\* An interaction that gets another status keeps the rest.
LEMMA Restated ==
    ASSUME LiveInv, NEW i \in DOMAIN room, NEW s \in Statuses,
           room' = [room EXCEPT ![i].status = s]
    PROVE  \E n \in Nat : /\ room' \in [1 .. n -> Interaction] /\ i \in 1 .. n
                          /\ DOMAIN room \subseteq 1 .. n
<1>1. PICK n \in Nat : room \in [1 .. n -> Interaction]
  BY DEF LiveInv
<1>2. PICK e : e = [room[i] EXCEPT !.status = s]
  OBVIOUS
<1>3. e \in Interaction
  BY <1>1, <1>2 DEF Interaction
<1>4. room' = [room EXCEPT ![i] = e]
  BY <1>2
<1> QED  BY <1>1, <1>3, <1>4

\* A room in which nobody has written, on a page that has read nothing.
LEMMA LiveUnused ==
    ASSUME room = <<>>, list = <<>>, calls = {}, feed = {},
           reads = [full |-> reads.full, poll |-> reads.poll],
           reads.full.items = <<>>, reads.poll.items = <<>>,
           spent = [b \in DOMAIN Bounds |-> 0]
    PROVE  LiveInv
<1>1. room \in [1 .. 0 -> Interaction]
  OBVIOUS
<1>2. \A b \in DOMAIN Bounds : Bounds[b] \in Nat
  BY LiveAssumption DEF Bounds
<1>3. spent \in [DOMAIN Bounds -> Nat] /\ \A b \in DOMAIN Bounds : spent[b] <= Bounds[b]
  <2> HIDE DEF Bounds
  <2> QED  BY <1>2
<1> QED  BY <1>1, <1>3, NoneIsOfRoom DEF LiveInv

LEMMA LiveStarts == LiveInit => LiveInv
<1> SUFFICES ASSUME LiveInit PROVE LiveInv
  OBVIOUS
<1>1. /\ room = <<>> /\ list = <<>> /\ calls = {} /\ feed = {}
      /\ reads = [full |-> reads.full, poll |-> reads.poll]
      /\ reads.full.items = <<>> /\ reads.poll.items = <<>>
      /\ spent = [b \in DOMAIN Bounds |-> 0]
  BY DEF LiveInit, NoRead
<1> QED  BY <1>1, LiveUnused

LEMMA LiveInvTypes == LiveInv => LiveTypeOK
<1> SUFFICES ASSUME LiveInv PROVE LiveTypeOK
  OBVIOUS
<1>1. Cardinality(calls) <= 1
  <2>1. CASE calls = {}
    BY <2>1, FS_EmptySet
  <2>2. ASSUME NEW c, calls = {c} PROVE Cardinality(calls) <= 1
    BY <2>2, FS_Singleton
  <2> QED  BY <2>1, <2>2 DEF LiveInv
<1>2. \A b \in DOMAIN Bounds : spent[b] \in Nat /\ Bounds[b] \in Nat /\ spent[b] <= Bounds[b]
  BY LiveAssumption DEF LiveInv, Bounds
<1>3. \A b \in DOMAIN Bounds : spent[b] \in 0 .. Bounds[b]
  <2> HIDE DEF Bounds
  <2> QED  BY <1>2
<1>4. \A e \in feed : e[1] \in DOMAIN room /\ e[2] \in Statuses
  BY DEF LiveInv
<1> QED  BY <1>1, <1>3, <1>4 DEF LiveInv, LiveTypeOK, OfRoom

\* The answer to a change of one's own, an event or a poll is merged into the list.
LEMMA MutatedIsOfRoom ==
    ASSUME LiveInv, NEW items, OfRoom(items), Mutated(items)
    PROVE  /\ OfRoom(list') /\ OfRoom(reads'.full.items) /\ OfRoom(reads'.poll.items)
           /\ reads' = [full |-> reads'.full, poll |-> reads'.poll]
  BY OverlaidIsOfRoom, NoneIsOfRoom DEF LiveInv, Mutated, mergeLiveInteractions

LEMMA CallsKeep ==
    ASSUME LiveInv, NEW c \in calls, CallServed(c) \/ CallAnswered(c) \/ CallFails(c)
    PROVE  LiveInv'
<1>1. c \in Asked \cup Performed
  BY DEF LiveInv
<1>2. CASE CallServed(c) /\ c.do = "post"
  <2>1. c.kind \in Kinds
    BY <1>1, <1>2 DEF CallServed, Asked, Performed
  <2>2. Post(c.kind, TRUE)
    BY <1>2 DEF CallServed
  <2>3. PICK n \in Nat : /\ room' \in [1 .. n -> Interaction] /\ n \in 1 .. n
                         /\ DOMAIN room \subseteq 1 .. n /\ Cardinality(DOMAIN room') = n
                         /\ feed' = feed \cup {<<n, "pending">>}
    BY <2>1, <2>2, Posted
  <2>4. /\ calls' = {[at |-> "done", id |-> n, status |-> "pending"]}
        /\ UNCHANGED <<list, reads, spent>>
    BY <1>2, <2>3 DEF CallServed
  <2> QED  BY <2>3, <2>4, ServerKeeps DEF Statuses
<1>3. CASE CallServed(c) /\ c.do # "post"
  <2>1. c.id \in DOMAIN room
    BY <1>1, <1>3 DEF CallServed, Asked, Performed
  <2>2. /\ room' = [room EXCEPT ![c.id].status = "answered"]
        /\ feed' = feed \cup {<<c.id, "answered">>}
        /\ calls' = {[at |-> "done", id |-> c.id, status |-> "answered"]}
        /\ UNCHANGED <<list, reads, spent>>
    BY <1>3 DEF CallServed
  <2> QED  BY <2>1, <2>2, Restated, ServerKeeps DEF Statuses
<1>4. CASE CallAnswered(c)
  <2>1. c.id \in DOMAIN room /\ c.status \in Statuses
    BY <1>1, <1>4 DEF CallAnswered, Asked, Performed
  <2>2. /\ Mutated(One(c.id, c.status)) /\ calls' = {} /\ UNCHANGED <<room, feed, spent>>
    BY <1>4 DEF CallAnswered
  <2> QED  BY <2>1, <2>2, OneIsOfRoom, MutatedIsOfRoom, PageKeeps
<1>5. CASE CallFails(c)
  BY <1>5, PageKeeps DEF CallFails, LiveInv
<1> QED  BY <1>2, <1>3, <1>4, <1>5

LEMMA LiveUsersKeep ==
    ASSUME LiveInv,
           \/ \E kind \in Kinds : submitInteraction(kind) \/ OtherPosts(kind)
           \/ \E i \in DOMAIN room : markAnswered(i) \/ \E s \in Statuses : Moderated(i, s)
    PROVE  LiveInv'
<1>1. ASSUME NEW kind \in Kinds, submitInteraction(kind) PROVE LiveInv'
  <2>1. [at |-> "asked", do |-> "post", kind |-> kind] \in Asked
    BY DEF Asked
  <2> QED  BY <1>1, <2>1, PageKeeps DEF submitInteraction, LiveInv
<1>2. ASSUME NEW kind \in Kinds, OtherPosts(kind) PROVE LiveInv'
  <2>1. Post(kind, FALSE) /\ Spend("posts") /\ UNCHANGED <<list, calls, reads>>
    BY <1>2 DEF OtherPosts
  <2> QED  BY <2>1, Posted, ServerKeeps DEF Statuses
<1>3. ASSUME NEW i \in DOMAIN room, markAnswered(i) PROVE LiveInv'
  <2>1. [at |-> "asked", do |-> "answer", id |-> i] \in Asked
    BY DEF Asked
  <2> QED  BY <1>3, <2>1, PageKeeps DEF markAnswered, LiveInv
<1>4. ASSUME NEW i \in DOMAIN room, NEW s \in Statuses, Moderated(i, s) PROVE LiveInv'
  <2>1. /\ room' = [room EXCEPT ![i].status = s] /\ feed' = feed \cup {<<i, s>>}
        /\ Spend("moderations") /\ UNCHANGED <<list, calls, reads>>
    BY <1>4 DEF Moderated, Moderate
  <2> QED  BY <2>1, Restated, ServerKeeps
<1> QED  BY <1>1, <1>2, <1>3, <1>4

LEMMA LiveReadsKeep ==
    ASSUME LiveInv,
           \/ \E r \in {"full", "poll"} : ReadServed(r) \/ ReadFails(r)
           \/ FullApplied \/ PollApplied \/ mutateAll \/ RoomSnapshot \/ RoomListenFails \/ runPoll
           \/ Resubscribes \/ \E e \in feed : handleEvent(e)
    PROVE  LiveInv'
<1>1. /\ UNCHANGED <<room, calls>> /\ feed' \subseteq feed
      /\ UNCHANGED spent \/ \E b \in {"posts", "moderations", "failures", "focus"} : Spend(b)
  BY DEF ReadServed, ReadFails, FullApplied, PollApplied, mutateAll, RoomSnapshot,
         RoomListenFails, runPoll, Resubscribes, handleEvent
<1>2. OfRoom(list) /\ OfRoom(reads.full.items) /\ OfRoom(reads.poll.items)
  BY DEF LiveInv
<1>3. ASSUME UNCHANGED list \/ list' = reads.full.items,
             \/ \E r \in {"full", "poll"} : reads' = StartRead(r)
             \/ \E r \in {"full", "poll"} : reads' = [reads EXCEPT ![r] = NoRead]
             \/ \E r \in {"full", "poll"} :
                  reads' = [reads EXCEPT ![r] = [at |-> "read", items |-> listInteractions]]
             \/ reads' = [full |-> NoRead, poll |-> NoRead]
      PROVE  LiveInv'
  <2>1. /\ OfRoom(reads'.full.items) /\ OfRoom(reads'.poll.items)
        /\ reads' = [full |-> reads'.full, poll |-> reads'.poll]
    BY <1>3, ReadsKeep
  <2> QED  BY <1>1, <1>2, <1>3, <2>1, PageKeeps
<1>4. ASSUME NEW r \in {"full", "poll"}, ReadServed(r) \/ ReadFails(r) PROVE LiveInv'
  BY <1>3, <1>4 DEF ReadServed, ReadFails
<1>5. CASE FullApplied
  <2>1. reads' = [reads EXCEPT !["full"] = NoRead]
    BY <1>5 DEF FullApplied, LiveInv
  <2> QED  BY <1>3, <1>5, <2>1 DEF FullApplied
<1>6. CASE mutateAll \/ RoomSnapshot \/ RoomListenFails \/ runPoll
  BY <1>3, <1>6 DEF mutateAll, RoomSnapshot, RoomListenFails, runPoll
<1>7. ASSUME NEW items, OfRoom(items), Mutated(items) PROVE LiveInv'
  BY <1>1, <1>7, MutatedIsOfRoom, PageKeeps
<1>8. ASSUME NEW e \in feed, handleEvent(e) PROVE LiveInv'
  <2>1. e[1] \in DOMAIN room /\ e[2] \in Statuses
    BY DEF LiveInv
  <2> QED  BY <1>7, <1>8, <2>1, OneIsOfRoom DEF handleEvent
<1>9. CASE PollApplied
  BY <1>2, <1>7, <1>9 DEF PollApplied
<1>10. CASE Resubscribes
  BY <1>1, <1>10, PageKeeps DEF Resubscribes, LiveInv
<1> QED  BY <1>4, <1>5, <1>6, <1>8, <1>9, <1>10

\* Every step of the page, its channel, the server and the others keeps the invariant.
LEMMA LiveInductive == LiveInv /\ [LiveNext]_liveVars => LiveInv'
<1> SUFFICES ASSUME LiveInv, [LiveNext]_liveVars PROVE LiveInv'
  OBVIOUS
<1>1. CASE UNCHANGED liveVars
  BY <1>1 DEF liveVars, LiveInv, OfRoom, Asked, Performed
<1> QED  BY <1>1, CallsKeep, LiveUsersKeep, LiveReadsKeep DEF LiveNext

\* Whatever is shown, read or announced is an interaction of the room, and the page has
\* one request of its own under way at most.
THEOREM LiveTypes == LiveSpec => []LiveTypeOK
<1> QED  BY LiveStarts, LiveInductive, LiveInvTypes, PTL DEF LiveSpec

-----------------------------------------------------------------------------
(* The video of a topic page. *)

Position == 0 .. NearEnd

\* A request under way, and the shape of everything an answer reads.
VideoRequest == [kind : {"progress", "complete"}, lesson : Lesson, at : Position,
            st : {"sent", "saved", "refused"}]

VideoShape ==
    /\ lesson \in Lesson /\ stage \in {"loading", "read", "ready", "failed"}
    /\ position \in Position /\ resumeAt \in Position /\ lastSaved \in Position
    /\ watched \in [Lesson -> Position] /\ furthest \in [Lesson -> Position]
    /\ completed \subseteq Lesson /\ announced \subseteq Lesson
    /\ writes \subseteq VideoRequest
    /\ player = "youtube" => ~saving

\* Nothing in the page, in flight or at the server is ahead of what was watched.
NothingAhead ==
    /\ position <= furthest[lesson] /\ resumeAt <= furthest[lesson]
    /\ \A l \in Lesson : watched[l] <= furthest[l]
    /\ \A w \in writes : w.at <= furthest[w.lesson]

\* A "saved" that is still under way is true at the server already.
AnswersAreTrue ==
    /\ \A w \in writes : w.st = "saved" => w.lesson \in completed
    /\ player = "vdo" => announced \subseteq completed

VideoIInv == VideoShape /\ NothingAhead /\ AnswersAreTrue

-----------------------------------------------------------------------------
\* The later of two positions is one of them and neither is after it
\* (Math.max in useVideoProgress.ts and in the server's update).
LEMMA LaterIsMax ==
    ASSUME NEW a \in Position, NEW b \in Position
    PROVE  /\ Later(a, b) \in Position /\ a <= Later(a, b) /\ b <= Later(a, b)
           /\ \A c \in Position : a <= c /\ b <= c => Later(a, b) <= c
  BY DEF Later, Position

\* What the page would save now is a position it has really been at.
LEMMA CurrentWasReached ==
    ASSUME VideoShape, NothingAhead
    PROVE  currentWatchedSeconds \in Position /\ currentWatchedSeconds <= furthest[lesson]
  BY LaterIsMax DEF VideoShape, NothingAhead, currentWatchedSeconds

LEMMA VideoStarts == VideoInit => VideoIInv
  BY VideoAssumption
  DEF VideoInit, VideoIInv, VideoShape, NothingAhead, AnswersAreTrue, Position, VideoRequest

\* Another request for the open lesson, no further than it was watched.
LEMMA VideoRequestAdded ==
    ASSUME VideoIInv, NEW kind \in {"progress", "complete"}, NEW at \in Position,
           at <= furthest[lesson]
    PROVE  LET W == writes \cup {Write(kind, lesson, at)} IN
           /\ W \subseteq VideoRequest
           /\ \A w \in W : w.at <= furthest[w.lesson]
           /\ \A w \in W : w.st = "saved" => w.lesson \in completed
  BY DEF VideoIInv, VideoShape, NothingAhead, AnswersAreTrue, Write, VideoRequest

LEMMA VideoOpeningKeeps ==
    ASSUME VideoIInv, NEW l \in Lesson, openLesson(l)
    PROVE  VideoIInv'
<1>1. writes' \subseteq VideoRequest /\ \A w \in writes' : w.at <= furthest[w.lesson]
  BY VideoRequestAdded, CurrentWasReached
     DEF openLesson, VideoIInv, VideoShape, NothingAhead
<1>2. \A w \in writes' : w.st = "saved" => w.lesson \in completed
  BY VideoRequestAdded, CurrentWasReached
     DEF openLesson, VideoIInv, VideoShape, NothingAhead, AnswersAreTrue
<1>3. VideoShape'
  BY <1>1, VideoAssumption DEF openLesson, VideoIInv, VideoShape, Position, serverSide
<1>4. NothingAhead'
  BY <1>1, VideoAssumption
     DEF openLesson, VideoIInv, VideoShape, NothingAhead, Position, serverSide
<1>5. AnswersAreTrue'
  BY <1>2 DEF openLesson, VideoIInv, AnswersAreTrue, serverSide
<1> QED  BY <1>3, <1>4, <1>5 DEF VideoIInv

LEMMA VideoPlayerKeeps ==
    ASSUME VideoIInv, fetchStream \/ playerReady \/ handlePlay \/ handlePause
    PROVE  VideoIInv'
  BY DEF VideoIInv, VideoShape, NothingAhead, AnswersAreTrue, fetchStream, playerReady, handlePlay,
         handlePause, screen, serverSide, budget

LEMMA VideoWatchingKeeps ==
    ASSUME VideoIInv, watch
    PROVE  VideoIInv'
<1>1. position' \in Position
  BY VideoAssumption DEF watch, VideoIInv, VideoShape, Position
<1>2. furthest' \in [Lesson -> Position] /\ \A l \in Lesson : furthest[l] <= furthest'[l]
  <2>1. lesson \in Lesson /\ furthest \in [Lesson -> Position]
    BY DEF VideoIInv, VideoShape
  <2>2. PICK p \in Position : p = Later(furthest[lesson], position') /\ furthest[lesson] <= p
    BY <1>1, <2>1, LaterIsMax
  <2>3. furthest' = [furthest EXCEPT ![lesson] = p]
    BY <2>2 DEF watch
  <2> QED  BY <2>1, <2>2, <2>3 DEF Position
<1>3. position' <= furthest'[lesson]
  BY <1>1, LaterIsMax DEF watch, VideoIInv, VideoShape
<1>4. VideoShape'
  BY <1>1, <1>2 DEF watch, VideoIInv, VideoShape, screen, serverSide
<1>5. NothingAhead'
  <2>1. \A w \in writes : w.lesson \in Lesson /\ w.at \in Position
    BY DEF VideoIInv, VideoShape, VideoRequest
  <2> QED  BY <2>1, <1>2, <1>3
              DEF watch, VideoIInv, VideoShape, NothingAhead, screen, serverSide, Position
<1>6. AnswersAreTrue'
  BY DEF watch, VideoIInv, AnswersAreTrue, screen, serverSide
<1> QED  BY <1>4, <1>5, <1>6 DEF VideoIInv

LEMMA VideoSendingKeeps ==
    ASSUME VideoIInv, reportCompletion \/ saveProgress
    PROVE  VideoIInv'
<1>1. /\ writes' \subseteq VideoRequest
      /\ \A w \in writes' : w.at <= furthest[w.lesson]
      /\ \A w \in writes' : w.st = "saved" => w.lesson \in completed
  BY VideoRequestAdded, CurrentWasReached
     DEF reportCompletion, saveProgress, VideoIInv, VideoShape, NothingAhead
<1>2. UNCHANGED <<screen, position, serverSide, furthest>>
  BY DEF reportCompletion, saveProgress
<1>3. VideoShape'
  BY <1>1, <1>2 DEF reportCompletion, saveProgress, VideoIInv, VideoShape, screen, serverSide
<1>4. NothingAhead'
  BY <1>1, <1>2 DEF VideoIInv, NothingAhead, screen, serverSide
<1>5. AnswersAreTrue'
  BY <1>1, <1>2 DEF reportCompletion, saveProgress, VideoIInv, AnswersAreTrue, screen,
                    serverSide
<1> QED  BY <1>3, <1>4, <1>5 DEF VideoIInv

\* What a write that the server carries out leaves there.
LEMMA CarryingKeeps ==
    ASSUME VideoIInv, NEW w \in writes, Carried(w), UNCHANGED furthest
    PROVE  /\ watched' \in [Lesson -> Position] /\ \A l \in Lesson : watched'[l] <= furthest[l]
           /\ completed' \subseteq Lesson /\ completed \subseteq completed'
           /\ Complete(w) => w.lesson \in completed'
<1>1. w \in VideoRequest /\ w.lesson \in Lesson /\ w.at \in Position
  BY DEF VideoIInv, VideoShape, VideoRequest
<1>2. /\ watched \in [Lesson -> Position] /\ watched[w.lesson] \in Position
      /\ furthest \in [Lesson -> Position] /\ furthest[w.lesson] \in Position
      /\ \A l \in Lesson : watched[l] <= furthest[l]
      /\ w.at <= furthest[w.lesson]
  BY <1>1 DEF VideoIInv, VideoShape, NothingAhead
<1>3. PICK at \in watched[w.lesson] .. Later(watched[w.lesson], w.at) :
        watched' = [watched EXCEPT ![w.lesson] = at]
  BY DEF Carried, Recorded
<1>4. Later(watched[w.lesson], w.at) \in Position /\ Later(watched[w.lesson], w.at) <= furthest[w.lesson]
  BY <1>1, <1>2, LaterIsMax
<1>5. at \in Position /\ at <= furthest[w.lesson]
  BY <1>2, <1>3, <1>4, VideoAssumption DEF Position
<1>6. watched' \in [Lesson -> Position] /\ \A l \in Lesson : watched'[l] <= furthest[l]
  BY <1>2, <1>3, <1>5
<1>7. /\ completed' \subseteq Lesson /\ completed \subseteq completed'
      /\ Complete(w) => w.lesson \in completed'
  BY <1>1 DEF Carried, VideoIInv, VideoShape
<1> QED  BY <1>6, <1>7

LEMMA VideoServingKeeps ==
    ASSUME VideoIInv, NEW w \in writes, WriteServed(w) \/ WriteFails(w)
    PROVE  VideoIInv'
<1>1. w \in VideoRequest /\ w.lesson \in Lesson /\ w.at \in Position
  BY DEF VideoIInv, VideoShape, VideoRequest
<1>2. UNCHANGED <<screen, position, lastSaved, saving, furthest, announced>>
  BY DEF WriteServed, WriteFails
<1>3. /\ watched' \in [Lesson -> Position] /\ \A l \in Lesson : watched'[l] <= furthest[l]
      /\ completed' \subseteq Lesson /\ completed \subseteq completed'
      /\ Carried(w) /\ Complete(w) => w.lesson \in completed'
  <2>1. CASE Carried(w)
    BY <1>2, <2>1, CarryingKeeps
  <2>2. CASE ~ Carried(w)
    BY <2>2 DEF WriteServed, WriteFails, serverSide, VideoIInv, VideoShape, NothingAhead
  <2> QED  BY <2>1, <2>2
<1>4. \E st \in {"saved", "refused"} :
        /\ \A v \in writes' : v \in writes \/ v = [w EXCEPT !.st = st]
        /\ st = "saved" => w.lesson \in completed'
  <2>1. CASE WriteServed(w)
    BY <1>3, <2>1 DEF WriteServed, Ended
  <2>2. CASE WriteFails(w)
    BY <2>2 DEF WriteFails, Ended
  <2> QED  BY <2>1, <2>2
<1>5. PICK st \in {"saved", "refused"} :
        /\ \A v \in writes' : v \in writes \/ v = [w EXCEPT !.st = st]
        /\ st = "saved" => w.lesson \in completed'
  BY <1>4
<1>6. PICK done : done = [w EXCEPT !.st = st]
  OBVIOUS
<1>7. done \in VideoRequest /\ done.lesson = w.lesson /\ done.at = w.at /\ done.st = st
  BY <1>1, <1>6 DEF VideoRequest
<1>8. \A v \in writes' : v \in writes \/ v = done
  BY <1>5, <1>6
<1>9. VideoShape'
  BY <1>2, <1>3, <1>7, <1>8 DEF VideoIInv, VideoShape, screen
<1>10. NothingAhead'
  BY <1>1, <1>2, <1>3, <1>7, <1>8 DEF VideoIInv, NothingAhead, screen
<1>11. AnswersAreTrue'
  BY <1>2, <1>3, <1>5, <1>7, <1>8 DEF VideoIInv, AnswersAreTrue, screen
<1> QED  BY <1>9, <1>10, <1>11 DEF VideoIInv

LEMMA VideoAnswerKeeps ==
    ASSUME VideoIInv, NEW w \in writes, CompletionAnswered(w)
    PROVE  VideoIInv'
<1>1. UNCHANGED <<screen, position, lastSaved, serverSide, furthest>> /\ writes' \subseteq writes
  BY DEF CompletionAnswered
<1>2. \/ announced' = announced
      \/ w.st = "saved" /\ w.lesson = lesson /\ announced' = announced \cup {lesson}
  BY DEF CompletionAnswered
<1>3. VideoShape'
  BY <1>1, <1>2 DEF CompletionAnswered, VideoIInv, VideoShape, screen, serverSide
<1>4. NothingAhead'
  BY <1>1 DEF VideoIInv, NothingAhead, screen, serverSide
<1>5. AnswersAreTrue'
  BY <1>1, <1>2 DEF VideoIInv, AnswersAreTrue, screen, serverSide
<1> QED  BY <1>3, <1>4, <1>5 DEF VideoIInv

-----------------------------------------------------------------------------
\* Every step of the player, the page and the server keeps it.
LEMMA VideoInductive == VideoIInv /\ [VideoNext]_videoVars => VideoIInv'
<1> SUFFICES ASSUME VideoIInv, [VideoNext]_videoVars PROVE VideoIInv'
  OBVIOUS
<1>1. ASSUME NEW l \in Lesson, openLesson(l) PROVE VideoIInv'
  BY <1>1, VideoOpeningKeeps
<1>2. CASE fetchStream \/ playerReady \/ handlePlay \/ handlePause
  BY <1>2, VideoPlayerKeeps
<1>3. CASE watch
  BY <1>3, VideoWatchingKeeps
<1>4. CASE reportCompletion \/ saveProgress
  BY <1>4, VideoSendingKeeps
<1>5. ASSUME NEW w \in writes, WriteServed(w) \/ WriteFails(w) PROVE VideoIInv'
  BY <1>5, VideoServingKeeps
<1>6. ASSUME NEW w \in writes, CompletionAnswered(w) PROVE VideoIInv'
  BY <1>6, VideoAnswerKeeps
<1>7. CASE UNCHANGED videoVars
  BY <1>7 DEF videoVars, VideoIInv, VideoShape, NothingAhead, AnswersAreTrue
<1> QED  BY <1>1, <1>2, <1>3, <1>4, <1>5, <1>6, <1>7 DEF VideoNext

\* The three facts hold together whatever the student, the network and the server do.
THEOREM VideoInvariant == VideoSpec => []VideoIInv
<1>1. VideoInit => VideoIInv
  BY VideoStarts
<1> QED  BY <1>1, VideoInductive, PTL DEF VideoSpec

\* The invariant gives positions, requests and lessons their types.
LEMMA VideoInvTypes == VideoIInv => VideoTypeOK
  BY DEF VideoIInv, VideoShape, VideoTypeOK, VideoRequest, Position

\* Positions stay within their lessons, and the watermarks of what is shown and saved
\* with them; a YouTube lesson never waits for a save.
THEOREM VideoTypes == VideoSpec => []VideoTypeOK
<1> QED  BY VideoInvTypes, VideoInvariant, PTL

\* No answer and no save that arrives after another lesson was opened moves a lesson
\* past its own player, and VideoPlayer announces nothing the server does not have.
THEOREM LessonsStayApart == VideoSpec => []LessonsKeptApart
<1>1. VideoIInv => LessonsKeptApart
  BY DEF VideoIInv, NothingAhead, AnswersAreTrue, LessonsKeptApart
<1> QED  BY <1>1, VideoInvariant, PTL

-----------------------------------------------------------------------------
(* The composition: one component runs, the others rest. *)

ClientInv ==
    BoardInv /\ NavInv /\ ChatInv /\ LiveInv /\ ExamInv /\ ExamShape /\ VideoIInv

\* A component rests in a state that it could have reached.
LEMMA ClientsStart == Init => ClientInv
<1> SUFFICES ASSUME Init PROVE ClientInv
  OBVIOUS
<1>1. BoardInit /\ NavInit /\ ExamInit /\ VideoInit /\ open = 1
  BY DEF Init, Begin
<1>2. active = "chat" => ChatInit
  BY DEF Init
<1>3. active # "chat" =>
        /\ side = "student" /\ requests = {} /\ barred = FALSE /\ mode = "listening"
        /\ server = [c \in Conversation |-> <<>>] /\ written = <<>>
        /\ cache = [c \in Conversation |-> [conv |-> c, items |-> <<>>]]
        /\ fetch = [c \in Conversation |-> NoFetch]
        /\ typed = 0 /\ others = 0 /\ chatFailures = 0 /\ unanswered = 0
  BY DEF Init
<1>4. ChatInv
  BY <1>1, <1>2, <1>3, FirstExists, ChatStarts DEF ChatInit, ChatUnused
<1>5. active = "live" => LiveInit
  BY DEF Init
<1>6. active # "live" =>
        /\ room = <<>> /\ list = <<>> /\ calls = {} /\ feed = {}
        /\ reads = [full |-> NoRead, poll |-> NoRead]
        /\ spent = [b \in DOMAIN Bounds |-> 0]
  BY DEF Init
<1>7. LiveInv
  <2>1. CASE active = "live"
    BY <1>5, <2>1, LiveStarts
  <2>2. CASE active # "live"
    BY <1>6, <2>2, LiveUnused DEF NoRead
  <2> QED  BY <2>1, <2>2
<1> QED  BY <1>1, <1>4, <1>7, BoardStarts, NavStarts, ExamStarts, VideoStarts DEF ClientInv

\* A step of one component leaves the others where they are.
LEMMA ClientsKeep == ClientInv /\ [Next]_<<active, Everything>> => ClientInv'
<1> SUFFICES ASSUME ClientInv, [Next]_<<active, Everything>> PROVE ClientInv'
  OBVIOUS
<1>1. /\ [BoardNext]_boardVars /\ [NavNext]_navVars /\ [ChatNext]_chatVars
      /\ [LiveNext]_liveVars /\ [ExamNext]_examVars /\ [VideoNext]_videoVars
  BY DEF Next, Everything
<1> QED  BY <1>1, BoardInductive, NavInductive, ChatInductive, LiveInductive, ExamInductive,
            ExamShapeKeeps, VideoInductive DEF ClientInv

\* The invariants of the six components hold together.
THEOREM ClientInvariant == Spec => []ClientInv
<1> QED  BY ClientsStart, ClientsKeep, PTL DEF Spec

\* Whichever component runs, the state of all six has the shape its code gives it.
THEOREM ClientTypesHold == Spec => []ClientTypes
<1>1. ClientInv => ClientTypes
  BY BoardInvTypes, ChatInvTypes, LiveInvTypes, ExamInvTypes, VideoInvTypes
     DEF ClientInv, NavInv, ClientTypes
<1> QED  BY <1>1, ClientInvariant, PTL
=============================================================================
