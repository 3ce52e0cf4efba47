------------------------------ MODULE Sessions ------------------------------
(***************************************************************************)
(* A browser before the user proxy: ServeHTTP of proxy.go up to the wake,  *)
(* the session cookie, and the redirects of the agent, composed with the   *)
(* tokens of UserTokens.  The tabs of the browser share a jar of cookies.  *)
(*                                                                         *)
(* A path is a sequence of segments; of a query there is the token, and of *)
(* a redirect's query the provider of a login.                             *)
(***************************************************************************)
EXTENDS UserTokens, Sequences, SequencesExt

CONSTANT Tabs

VARIABLES
    jar,       \* per user: the cookie for path /u/{user}, NoToken without one
    tab,       \* per tab: its request and how far it is
    crossed,   \* history, per handler: somebody else changed its user's claim
    standing   \* history, per user: "in" once its present token has let the browser
               \* in by a link, "spoiled" once a request let in under an older token
               \* was answered since the token is there

vars == <<tokenVars, jar, tab, crossed, standing>>

Home(u) == <<"u", u>>

\* What an agent redirects to: a route of its own, mounted at its root or,
\* because it honors X-Forwarded-Prefix, under the prefix it was told.
Routes == {<<>>, <<"login">>, <<"auth", "login">>}

Locations(u) ==
    [path : Routes \cup {Home(u) \o r : r \in Routes}, provider : {"none", "basic", "other"}]

Pages == UNION {Locations(u) : u \in Users}

Closed ==
    [at |-> "closed", page |-> [path |-> <<>>, provider |-> "none"], header |-> NoToken,
     link |-> NoToken, token |-> NoToken, sets |-> NoToken]

AnyToken == Tokens \cup {NoToken}

SessionsTypeOK ==
    /\ TypeOK
    /\ jar \in [Users -> AnyToken]
    /\ tab \in [Tabs -> [at : {"closed", "sent", "let in"}, page : Pages, header : AnyToken,
                         link : AnyToken, token : AnyToken, sets : AnyToken]]
    /\ crossed \in [Handlers -> BOOLEAN]
    /\ standing \in [Users -> {"new", "in", "spoiled"}]

SessionsInit ==
    /\ Init
    /\ jar = [u \in Users |-> NoToken]
    /\ tab = [t \in Tabs |-> Closed]
    /\ crossed = [h \in Handlers |-> FALSE]
    /\ standing = [u \in Users |-> "new"]

-----------------------------------------------------------------------------
\* The user of a path, or NoUser: the gateway serves no such page.
SplitUserPath(path) ==
    IF Len(path) >= 2 /\ path[1] = "u" THEN path[2] ELSE NoUser

\* Mutant: a redirect of the agent passes as it is.
PlainRedirect(loc, u) == loc

\* Mutant: the prefix goes before a path that has it, too.
DoublePrefix(loc, u) == [loc EXCEPT !.path = Home(u) \o loc.path]

\* A path of the agent's own is anchored in the user's subtree, and the route
\* that fails in the agent becomes the page that works.
RewriteRedirect(loc, u) ==
    LET path == IF IsPrefix(Home(u), loc.path) THEN loc.path ELSE Home(u) \o loc.path
    IN  IF path = Home(u) \o <<"auth", "login">> /\ loc.provider = "basic"
        THEN [path |-> Home(u) \o <<"login">>, provider |-> "none"]
        ELSE [loc EXCEPT !.path = path]

\* Header, query parameter, cookie.
TokenFromRequest(r, cookie) ==
    IF r.header # NoToken THEN r.header
    ELSE IF r.link # NoToken THEN r.link ELSE cookie

\* Mutant: a browser that has a cookie keeps it.
KeepCookie(r, cookie) ==
    IF r.link = TokenFromRequest(r, cookie) /\ cookie = NoToken THEN r.link ELSE NoToken

\* The cookie that a request with a valid token is answered with.
SessionCookie(r, cookie) ==
    IF r.link = TokenFromRequest(r, cookie) /\ cookie # r.link THEN r.link ELSE NoToken

VerifyToken(token, stored) == token # NoToken /\ token = stored

-----------------------------------------------------------------------------
Ask(t, path, provider, header, link) ==
    tab' = [tab EXCEPT ![t] =
        [at |-> "sent", page |-> [path |-> path, provider |-> provider],
         header |-> header, link |-> link, token |-> NoToken, sets |-> NoToken]]

Close(t) == tab' = [tab EXCEPT ![t] = Closed]

\* External: a link is opened, or a page of the agent fetches another.
Open(t) ==
    /\ tab[t].at = "closed"
    /\ \E u \in Users : \E header, link \in told[u] \cup {NoToken} :
         Ask(t, Home(u), "none", header, link)
    /\ UNCHANGED <<tokenVars, jar, crossed, standing>>

\* The request with what its tab and the jar give it at the gateway.
Presented(t) ==
    LET u == SplitUserPath(tab[t].page.path)
    IN  IF u = NoUser THEN NoToken ELSE TokenFromRequest(tab[t], jar[u])

Refused(t) ==
    LET u == SplitUserPath(tab[t].page.path)
    IN  u = NoUser \/ ~VerifyToken(Presented(t), hash[u])

\* The claim is read and the token compared, unless the read fails; what happens
\* to the claim while the request is held for the wake, or open in the agent, is
\* not seen.
ServeHTTP(t) ==
    /\ tab[t].at = "sent"
    /\ \/ Close(t)
       \/ /\ ~Refused(t)
          /\ tab' = [tab EXCEPT ![t].at = "let in", ![t].token = Presented(t),
                 ![t].sets = SessionCookie(tab[t], jar[SplitUserPath(tab[t].page.path)])]
    /\ UNCHANGED <<tokenVars, jar, crossed, standing>>

\* The answer of the agent, or an error of the proxy, comes with the cookie.
Answered(t, u) ==
    /\ tab[t].at = "let in"
    /\ u = SplitUserPath(tab[t].page.path)
    /\ jar' = IF tab[t].sets = NoToken THEN jar ELSE [jar EXCEPT ![u] = tab[t].sets]
    /\ standing' = [standing EXCEPT ![u] =
           IF tab[t].token # hash[u] THEN "spoiled"
           ELSE IF tab[t].link = hash[u] /\ @ = "new" THEN "in" ELSE @]
    /\ UNCHANGED <<tokenVars, crossed>>

Done(t, u) == Answered(t, u) /\ Close(t)

\* The agent redirects, and the browser follows without header or query token.
Redirect(t, u) ==
    /\ Answered(t, u)
    /\ \E loc \in Locations(u) :
         LET to == RewriteRedirect(loc, u) IN Ask(t, to.path, to.provider, NoToken, NoToken)

Browse == \E t \in Tabs :
    Open(t) \/ ServeHTTP(t) \/ \E u \in Users : Done(t, u) \/ Redirect(t, u)

\* Who of the handlers works for u, and did not take the step itself.
Crossed(h) ==
    /\ step'[h] # "idle"
    /\ crossed[h] \/ (step'[h] = step[h] /\ (hash'[who[h]] # hash[who[h]] \/ (who[h] \in dying') # (who[h] \in dying)))

Manage ==
    /\ TokenNext
    /\ crossed' = [h \in Handlers |-> Crossed(h)]
    /\ standing' = [u \in Users |-> IF hash'[u] = hash[u] THEN standing[u] ELSE "new"]
    /\ UNCHANGED <<jar, tab>>

Next == Manage \/ Browse

Spec == SessionsInit /\ [][Next]_vars

-----------------------------------------------------------------------------
\* A creation or a rotation that no other change to the user's claim crossed
\* answers with the token that lets its client in: nothing stands between the
\* write and the answer but other requests (users.go:102-137, 225-241).
UncrossedTokenWorks ==
    [][\A h \in Handlers, u \in Users, t \in Tokens :
         t \in told'[u] \ told[u] /\ tok[h] = t /\ ~crossed[h] => hash[u] = t]_vars

\* A browser that a link has let in stays in until the token changes: the
\* cookie and the redirects see to it that no request without a token of its
\* own is refused.  The exception is a request let in under an older token whose
\* answer, and cookie, comes late: held for a wake it may take minutes
\* (proxy.go:86-105, auth.go:41-46).
LetInStaysIn ==
    \A t \in Tabs, u \in Users :
        /\ tab[t].at = "sent" /\ SplitUserPath(tab[t].page.path) = u
        /\ tab[t].header = NoToken /\ tab[t].link = NoToken
        /\ standing[u] = "in"
        => ~Refused(t)

\* Following the redirects of its agent a browser stays in the subtree of the
\* user it came from, and is never sent to the login route that fails
\* (proxy.go:168-178, 190-221).
RedirectsStayHome ==
    [][\A t \in Tabs :
         tab[t].at = "let in" /\ tab'[t].at = "sent" =>
           /\ SplitUserPath(tab'[t].page.path) = SplitUserPath(tab[t].page.path)
           /\ tab'[t].page # [path |-> Home(SplitUserPath(tab[t].page.path)) \o <<"auth", "login">>,
                              provider |-> "basic"]]_vars
=============================================================================
