--------------------------- MODULE SessionsProofs ---------------------------
(***************************************************************************)
(* Proofs about the tokens of the users and the redirects of their agents, *)
(* for any number of users, admin handlers, tokens and tabs.               *)
(***************************************************************************)
EXTENDS Sessions, TLAPS

\* The types of the token state that the arguments below need.
TokenTypes ==
    /\ hash \in [Users -> Tokens \cup {NoToken}]
    /\ step \in [Handlers -> {"idle", "create", "readback", "patch", "answer"}]
    /\ who \in [Handlers -> Users \cup {NoUser}]
    /\ tok \in [Handlers -> Tokens \cup {NoToken}]
    /\ told \in [Users -> SUBSET Tokens]
    /\ lost \in [Users -> SUBSET Tokens]

\* A handler that is at work has a user and a token.
AtWork ==
    \A h \in Handlers : step[h] # "idle" => who[h] \in Users /\ tok[h] \in Tokens

TInv == TokenTypes /\ AtWork /\ NobodyLockedOut

\* Every token that a claim holds has somebody to know it: the client that was
\* answered with it, the handler on its way there, or a failure that was told.
LEMMA TokensInit == SessionsInit => TInv
  BY TokensAssumption DEF SessionsInit, Init, TInv, TokenTypes, AtWork, NobodyLockedOut, Some

\* A handler that has just minted its token has stored it nowhere.
LEMMA MintKeeps ==
  ASSUME TInv, NEW h \in Handlers, NEW u \in Users, NEW at \in {"create", "patch"},
         MintToken(h, u, at), UNCHANGED <<claimVars, told, lost>>
  PROVE  TInv'
<1>1. PICK t \in Tokens : tok' = [tok EXCEPT ![h] = t]
  BY DEF MintToken
<1>2. /\ step[h] = "idle"
      /\ who' = [who EXCEPT ![h] = u]
      /\ step' = [step EXCEPT ![h] = at]
      /\ UNCHANGED <<hash, told, lost>>
  BY DEF MintToken, GoTo, claimVars
<1>3. TokenTypes'
  BY <1>1, <1>2 DEF TInv, TokenTypes
<1>4. AtWork'
  BY <1>1, <1>2 DEF TInv, TokenTypes, AtWork
<1>5. NobodyLockedOut'
  BY <1>1, <1>2 DEF TInv, TokenTypes, NobodyLockedOut, Some
<1> QED BY <1>3, <1>4, <1>5 DEF TInv

\* A handler that stores its token goes on to answer with it, or fails visibly.
LEMMA StoredKeeps ==
  ASSUME TInv, NEW h \in Handlers, NEW at \in {"readback", "answer"},
         step[h] # "idle", Stored(h, at)
  PROVE  TInv'
<1>1. who[h] \in Users /\ tok[h] \in Tokens
  BY DEF TInv, AtWork
<1>2. hash' = [hash EXCEPT ![who[h]] = tok[h]] /\ UNCHANGED told
  BY DEF Stored, Store
<1>3. CASE GoTo(h, at) /\ UNCHANGED <<who, tok, lost>>
  <2>1. TokenTypes'
    BY <1>1, <1>2, <1>3 DEF TInv, TokenTypes, GoTo
  <2>2. AtWork'
    BY <1>1, <1>3 DEF TInv, TokenTypes, AtWork, GoTo
  <2>3. NobodyLockedOut'
    BY <1>1, <1>2, <1>3 DEF TInv, TokenTypes, NobodyLockedOut, Some, GoTo
  <2> QED BY <2>1, <2>2, <2>3 DEF TInv
<1>4. CASE Return(h) /\ lost' = [lost EXCEPT ![who[h]] = @ \cup {tok[h]}]
  <2>1. TokenTypes'
    BY <1>1, <1>2, <1>4 DEF TInv, TokenTypes, Return, GoTo
  <2>2. AtWork'
    BY <1>1, <1>4 DEF TInv, TokenTypes, AtWork, Return, GoTo
  <2>3. NobodyLockedOut'
    BY <1>1, <1>2, <1>4 DEF TInv, TokenTypes, NobodyLockedOut, Some, Return, GoTo
  <2> QED BY <2>1, <2>2, <2>3 DEF TInv
<1> QED BY <1>3, <1>4 DEF Stored

\* A handler that gives up before its write took effect leaves nothing behind.
LEMMA NotStoredKeeps ==
  ASSUME TInv, NEW h \in Handlers, step[h] \in {"create", "patch"}, NotStored(h)
  PROVE  TInv'
<1>1. /\ step' = [step EXCEPT ![h] = "idle"]
      /\ who' = [who EXCEPT ![h] = NoUser]
      /\ tok' = [tok EXCEPT ![h] = NoToken]
      /\ UNCHANGED <<hash, told, lost>>
  BY DEF NotStored, Return, GoTo, claimVars
<1>2. TokenTypes'
  BY <1>1 DEF TInv, TokenTypes
<1>3. AtWork'
  BY <1>1 DEF TInv, TokenTypes, AtWork
<1>4. NobodyLockedOut'
  BY <1>1 DEF TInv, TokenTypes, NobodyLockedOut, Some
<1> QED BY <1>2, <1>3, <1>4 DEF TInv

\* An answer, and a failure after the write, account for the token they carry.
LEMMA AccountedKeeps ==
  ASSUME TInv, NEW h \in Handlers, step[h] # "idle", Return(h), UNCHANGED hash,
         \/ told' = [told EXCEPT ![who[h]] = @ \cup {tok[h]}] /\ UNCHANGED lost
         \/ lost' = [lost EXCEPT ![who[h]] = @ \cup {tok[h]}] /\ UNCHANGED told
  PROVE  TInv'
<1>1. who[h] \in Users /\ tok[h] \in Tokens
  BY DEF TInv, AtWork
<1>2. /\ step' = [step EXCEPT ![h] = "idle"]
      /\ who' = [who EXCEPT ![h] = NoUser]
      /\ tok' = [tok EXCEPT ![h] = NoToken]
  BY DEF Return, GoTo
<1>3. TokenTypes'
  BY <1>1, <1>2 DEF TInv, TokenTypes
<1>4. AtWork'
  BY <1>2 DEF TInv, TokenTypes, AtWork
<1>5. NobodyLockedOut'
  BY <1>1, <1>2 DEF TInv, TokenTypes, NobodyLockedOut, Some
<1> QED BY <1>3, <1>4, <1>5 DEF TInv

LEMMA HandlerKeeps ==
  ASSUME TInv, NEW h \in Handlers, HandlerStep(h)
  PROVE  TInv'
<1>1. ASSUME NEW u \in Users, BeginCreate(h, u) \/ BeginRotate(h, u)
      PROVE  TInv'
  BY <1>1, MintKeeps DEF BeginCreate, BeginRotate
<1>2. CASE EnsureUser(h)
  BY <1>2, StoredKeeps, NotStoredKeeps DEF EnsureUser
<1>3. CASE ReadBack(h)
  <2>1. CASE /\ Some(who[h]) /\ GoTo(h, "answer")
             /\ UNCHANGED <<claimVars, minted, who, tok, told, lost>>
    BY <1>3, <2>1
       DEF ReadBack, TInv, TokenTypes, AtWork, NobodyLockedOut, Some, GoTo, claimVars
  <2>2. CASE LoseToken(h)
    BY <1>3, <2>2, AccountedKeeps DEF ReadBack, LoseToken, claimVars
  <2> QED BY <1>3, <2>1, <2>2 DEF ReadBack
<1>4. CASE SetTokenHash(h)
  BY <1>4, StoredKeeps, NotStoredKeeps DEF SetTokenHash
<1>5. CASE Answer(h)
  BY <1>5, AccountedKeeps DEF Answer, LoseToken, claimVars
<1> QED BY <1>1, <1>2, <1>3, <1>4, <1>5 DEF HandlerStep

LEMMA TokensNext ==
  ASSUME TInv, TokenNext
  PROVE  TInv'
<1>1. CASE \E h \in Handlers : HandlerStep(h)
  BY <1>1, HandlerKeeps
<1>2. ASSUME NEW u \in Users, DeleteUser(u)
      PROVE  TInv'
  BY <1>2 DEF DeleteUser, handlerVars, TInv, TokenTypes, AtWork, NobodyLockedOut, Some
<1>3. ASSUME NEW u \in Users, Reap(u)
      PROVE  TInv'
  BY <1>3 DEF Reap, handlerVars, TInv, TokenTypes, AtWork, NobodyLockedOut, Some
<1> QED BY <1>1, <1>2, <1>3 DEF TokenNext

LEMMA TokensSame ==
  ASSUME TInv, UNCHANGED tokenVars
  PROVE  TInv'
  BY DEF tokenVars, claimVars, handlerVars, TInv, TokenTypes, AtWork, NobodyLockedOut, Some

\* Whatever creations, rotations and deletions cross each other, no claim keeps
\* a token of which every client was left in the dark without an error
\* (users.go:127-137).
THEOREM EveryTokenHasAnOwner == Spec => []NobodyLockedOut
<1>1. SessionsInit => TInv
  BY TokensInit
<1>2. TInv /\ [Next]_vars => TInv'
  BY TokensNext, TokensSame
     DEF Next, vars, Manage, Browse, Open, ServeHTTP, Done, Redirect, Answered
<1>3. TInv => NobodyLockedOut
  BY DEF TInv
<1> QED BY <1>1, <1>2, <1>3, PTL DEF Spec

-----------------------------------------------------------------------------
\* No two handlers work with the same token: each is minted once.
Fresh ==
    /\ \A h \in Handlers : tok[h] \in minted \cup {NoToken}
    /\ \A h, k \in Handlers : tok[h] = tok[k] /\ tok[h] # NoToken => h = k

\* The token of a handler on its way to the answer is the one of the claim,
\* as long as nobody else has changed that.
Steady ==
    \A h \in Handlers : step[h] \in {"readback", "answer"} /\ ~crossed[h] => hash[who[h]] = tok[h]

UInv == TInv /\ minted \in SUBSET Tokens /\ crossed \in [Handlers -> BOOLEAN] /\ Fresh /\ Steady

\* A step mints, returns a token to nobody, or leaves the tokens alone.
LEMMA TokenMoves ==
  ASSUME TokenNext
  PROVE  \/ UNCHANGED <<tok, minted>>
         \/ \E h \in Handlers : tok' = [tok EXCEPT ![h] = NoToken] /\ UNCHANGED minted
         \/ \E h \in Handlers, t \in Tokens \ minted :
               tok' = [tok EXCEPT ![h] = t] /\ minted' = minted \cup {t}
<1>1. ASSUME NEW u \in Users, DeleteUser(u) \/ Reap(u)
      PROVE  UNCHANGED <<tok, minted>>
  BY <1>1 DEF DeleteUser, Reap, handlerVars
<1>2. ASSUME NEW h \in Handlers, HandlerStep(h)
      PROVE  \/ UNCHANGED <<tok, minted>>
             \/ tok' = [tok EXCEPT ![h] = NoToken] /\ UNCHANGED minted
             \/ \E t \in Tokens \ minted : tok' = [tok EXCEPT ![h] = t] /\ minted' = minted \cup {t}
  BY <1>2 DEF HandlerStep, BeginCreate, BeginRotate, MintToken, EnsureUser, Stored, NotStored,
       ReadBack, SetTokenHash, Answer, LoseToken, Return
<1> QED BY <1>1, <1>2 DEF TokenNext

LEMMA FreshKeeps ==
  ASSUME UInv, TokenNext
  PROVE  Fresh' /\ minted' \in SUBSET Tokens
<1> USE TokensAssumption DEF UInv, TInv, TokenTypes, Fresh
<1>1. CASE UNCHANGED <<tok, minted>>
  BY <1>1
<1>2. ASSUME NEW h \in Handlers, tok' = [tok EXCEPT ![h] = NoToken] /\ UNCHANGED minted
      PROVE  Fresh' /\ minted' \in SUBSET Tokens
  BY <1>2
<1>3. ASSUME NEW h \in Handlers, NEW t \in Tokens \ minted,
             tok' = [tok EXCEPT ![h] = t] /\ minted' = minted \cup {t}
      PROVE  Fresh' /\ minted' \in SUBSET Tokens
  BY <1>3
<1> QED BY <1>1, <1>2, <1>3, TokenMoves

\* How a handler comes to, or stays at, the steps between the write and the
\* answer: it waits, it has just stored its token, or it has read back.
LEMMA WayToAnswer ==
  ASSUME TInv, TokenNext, NEW h \in Handlers, step'[h] \in {"readback", "answer"}
  PROVE  /\ who'[h] = who[h] /\ tok'[h] = tok[h]
         /\ \/ step'[h] = step[h]
            \/ hash'[who[h]] = tok[h]
            \/ step[h] = "readback" /\ UNCHANGED hash
<1>1. ASSUME NEW u \in Users, DeleteUser(u) \/ Reap(u)
      PROVE  UNCHANGED <<step, who, tok>>
  BY <1>1 DEF DeleteUser, Reap, handlerVars
<1>2. ASSUME NEW k \in Handlers, HandlerStep(k), k # h
      PROVE  step'[h] = step[h] /\ who'[h] = who[h] /\ tok'[h] = tok[h]
  BY <1>2 DEF TInv, TokenTypes, HandlerStep, BeginCreate, BeginRotate, MintToken, EnsureUser,
       Stored, NotStored, ReadBack, SetTokenHash, Answer, LoseToken, Return, GoTo
<1>3. CASE HandlerStep(h)
  <2>1. ASSUME NEW u \in Users, BeginCreate(h, u) \/ BeginRotate(h, u)
        PROVE  FALSE
    BY <2>1 DEF TInv, TokenTypes, BeginCreate, BeginRotate, MintToken, GoTo
  <2>2. ~Return(h)
    BY DEF TInv, TokenTypes, Return, GoTo
  <2>3. CASE EnsureUser(h) \/ SetTokenHash(h)
    <3>1. step[h] # "idle" /\ \E at \in {"readback", "answer"} : Stored(h, at)
      BY <2>2, <2>3 DEF EnsureUser, SetTokenHash, NotStored
    <3>2. who[h] \in Users
      BY <3>1 DEF TInv, AtWork
    <3> QED BY <2>2, <3>1, <3>2 DEF Stored, Store, TInv, TokenTypes
  <2>4. CASE ReadBack(h)
    BY <2>2, <2>4 DEF ReadBack, LoseToken, claimVars
  <2>5. ~Answer(h)
    BY <2>2 DEF Answer, LoseToken
  <2> QED BY <1>3, <2>1, <2>3, <2>4, <2>5 DEF HandlerStep
<1> QED BY <1>1, <1>2, <1>3 DEF TokenNext

LEMMA SteadyKeeps ==
  ASSUME UInv, Manage
  PROVE  Steady' /\ crossed' \in [Handlers -> BOOLEAN]
<1>1. crossed' = [h \in Handlers |-> Crossed(h)]
  BY DEF Manage
<1>2. ASSUME NEW h \in Handlers PROVE Crossed(h) \in BOOLEAN
  BY DEF Crossed, UInv
<1>3. ASSUME NEW h \in Handlers, step'[h] \in {"readback", "answer"}, ~crossed'[h]
      PROVE  hash'[who'[h]] = tok'[h]
  <2>1. ~crossed[h] /\ (step'[h] = step[h] => hash'[who[h]] = hash[who[h]])
    BY <1>1, <1>3 DEF Crossed
  <2> QED BY <1>3, <2>1, WayToAnswer DEF UInv, Steady, Manage
<1> QED BY <1>1, <1>2, <1>3 DEF Steady

\* An answer is about the claim that the answering handler works for.
LEMMA AnswersTell ==
  ASSUME UInv, TokenNext, NEW u \in Users, NEW t \in told'[u] \ told[u]
  PROVE  \E h \in Handlers : step[h] = "answer" /\ who[h] = u /\ tok[h] = t
<1>1. PICK h \in Handlers : HandlerStep(h)
  BY DEF TokenNext, DeleteUser, Reap
<1>2. step[h] = "answer" /\ told' = [told EXCEPT ![who[h]] = @ \cup {tok[h]}]
  BY <1>1 DEF HandlerStep, BeginCreate, BeginRotate, EnsureUser, Stored, NotStored,
       ReadBack, SetTokenHash, Answer, LoseToken
<1> QED BY <1>2 DEF UInv, TInv, TokenTypes

\* The token that a creation or a rotation answers with is the one that lets
\* its client in, unless somebody else has changed the claim in between
\* (users.go:102-137, 225-241).
THEOREM TokensThatWork == Spec => UncrossedTokenWorks
<1> DEFINE Works(h, u, t) == t \in told'[u] \ told[u] /\ tok[h] = t /\ ~crossed[h] => hash[u] = t
<1>1. SessionsInit => UInv
  BY TokensInit DEF SessionsInit, Init, UInv, Fresh, Steady
<1>2. UInv /\ [Next]_vars => UInv'
  <2> SUFFICES ASSUME UInv, [Next]_vars PROVE UInv'
    OBVIOUS
  <2>1. CASE Manage
    BY <2>1, TokensNext, FreshKeeps, SteadyKeeps DEF Manage, UInv
  <2>2. CASE Browse \/ UNCHANGED vars
    <3>1. UNCHANGED <<tokenVars, crossed>>
      BY <2>2 DEF vars, Browse, Open, ServeHTTP, Done, Redirect, Answered
    <3> QED BY <3>1, TokensSame DEF UInv, Fresh, Steady, tokenVars, claimVars, handlerVars
  <2> QED BY <2>1, <2>2 DEF Next
<1>3. UInv /\ [Next]_vars => [\A h \in Handlers, u \in Users, t \in Tokens : Works(h, u, t)]_vars
  <2> SUFFICES ASSUME UInv, [Next]_vars, NEW h \in Handlers, NEW u \in Users, NEW t \in Tokens,
                      t \in told'[u] \ told[u], tok[h] = t, ~crossed[h]
               PROVE  hash[u] = t
    OBVIOUS
  <2>1. TokenNext
    BY DEF Next, Manage, Browse, Open, ServeHTTP, Done, Redirect, Answered, vars, tokenVars
  <2>2. PICK k \in Handlers : step[k] = "answer" /\ who[k] = u /\ tok[k] = t
    BY <2>1, AnswersTell
  <2>3. k = h
    BY <2>2, TokensAssumption DEF UInv, Fresh
  <2> QED BY <2>2, <2>3 DEF UInv, Steady
<1> QED BY <1>1, <1>2, <1>3, PTL DEF Spec, UncrossedTokenWorks

-----------------------------------------------------------------------------
\* A path under the home of a user is a path of that user.
LEMMA HomeIsTheirs ==
  ASSUME NEW u \in Users, NEW path, IsPrefix(Home(u), path)
  PROVE  SplitUserPath(path) = u
  BY DEF IsPrefix, Home, SplitUserPath

LEMMA UnderHome ==
  ASSUME NEW u \in Users, NEW r \in Routes
  PROVE  SplitUserPath(Home(u) \o r) = u
  BY DEF Home, SplitUserPath, Routes

\* A redirect leads to a path of the user it came from.
LEMMA RedirectIsHome ==
  ASSUME NEW u \in Users, NEW loc \in Locations(u)
  PROVE  SplitUserPath(RewriteRedirect(loc, u).path) = u
<1> DEFINE path == IF IsPrefix(Home(u), loc.path) THEN loc.path ELSE Home(u) \o loc.path
<1>1. /\ loc = [path |-> loc.path, provider |-> loc.provider]
      /\ loc.path \in Routes \/ \E r \in Routes : loc.path = Home(u) \o r
  BY DEF Locations
<1>2. SplitUserPath(path) = u
  <2>1. CASE IsPrefix(Home(u), loc.path)
    BY <2>1, HomeIsTheirs
  <2>2. CASE ~IsPrefix(Home(u), loc.path) /\ loc.path \in Routes
    BY <2>2, UnderHome
  <2>3. CASE \E r \in Routes : loc.path = Home(u) \o r
    <3>1. SplitUserPath(loc.path) = u
      BY <2>3, UnderHome
    <3>2. IsPrefix(Home(u), loc.path)
      BY <2>3 DEF IsPrefix, Home, Routes
    <3> QED BY <3>1, <3>2
  <2> QED BY <1>1, <2>1, <2>2, <2>3
<1>3. SplitUserPath(Home(u) \o <<"login">>) = u
  BY UnderHome DEF Routes
<1>4. RewriteRedirect(loc, u).path \in {path, Home(u) \o <<"login">>}
  BY <1>1 DEF RewriteRedirect
<1> QED BY <1>2, <1>3, <1>4

\* A redirect never leads to the login that fails.
LEMMA RedirectIsNoDeadEnd ==
  ASSUME NEW u \in Users, NEW loc \in Locations(u)
  PROVE  LET to == RewriteRedirect(loc, u)
         IN  ~(to.path = Home(u) \o <<"auth", "login">> /\ to.provider = "basic")
<1>1. loc = [path |-> loc.path, provider |-> loc.provider]
  BY DEF Locations
<1> QED BY <1>1 DEF RewriteRedirect

\* A step of one tab is no step of another.
LEMMA OtherTabsStay ==
  ASSUME DOMAIN tab = Tabs, NEW t \in Tabs, NEW s \in Tabs, s # t,
         Open(s) \/ ServeHTTP(s) \/ \E u \in Users : Done(s, u) \/ Redirect(s, u)
  PROVE  tab'[t] = tab[t]
<1>1. ASSUME NEW x, tab' = [tab EXCEPT ![s] = x]
      PROVE  tab'[t] = tab[t]
  BY <1>1
<1>2. CASE Open(s)
  BY <1>2 DEF Open, Ask
<1>3. CASE ServeHTTP(s)
  <2>1. CASE Close(s)
    BY <2>1, <1>1 DEF Close
  <2>2. CASE ~Close(s)
    BY <1>3, <2>2 DEF ServeHTTP
  <2> QED BY <2>1, <2>2
<1>4. ASSUME NEW u \in Users, Done(s, u)
      PROVE  tab'[t] = tab[t]
  BY <1>1, <1>4 DEF Done, Close
<1>5. ASSUME NEW u \in Users, Redirect(s, u)
      PROVE  tab'[t] = tab[t]
  BY <1>5 DEF Redirect, Ask
<1> QED BY <1>2, <1>3, <1>4, <1>5

\* A tab that was let in asks again only along a redirect.
LEMMA OnlyRedirectsAskAgain ==
  ASSUME DOMAIN tab = Tabs, [Next]_vars,
         NEW t \in Tabs, tab[t].at = "let in", tab'[t].at = "sent"
  PROVE  \E u \in Users : Redirect(t, u)
<1>1. tab' # tab
  OBVIOUS
<1>2. PICK s \in Tabs : Open(s) \/ ServeHTTP(s) \/ \E u \in Users : Done(s, u) \/ Redirect(s, u)
  BY <1>1 DEF Next, vars, Manage, Browse
<1>3. s = t
  BY <1>2, OtherTabsStay
<1>4. ~Open(t) /\ ~ServeHTTP(t)
  BY DEF Open, ServeHTTP
<1>5. ASSUME NEW u \in Users PROVE ~Done(t, u)
  <2>1. Closed.at # "sent"
    BY DEF Closed
  <2> QED BY <2>1 DEF Done, Close
<1> QED BY <1>2, <1>3, <1>4, <1>5

\* The tabs stay the same.
LEMMA TabsStay ==
  ASSUME DOMAIN tab = Tabs, [Next]_vars
  PROVE  DOMAIN tab' = Tabs
BY DEF Next, vars, Manage, Browse, Open, ServeHTTP, Done, Redirect, Answered, Ask, Close

\* Whatever its agent answers with, a browser that follows its redirects stays
\* with the user it came from and out of the login that fails (proxy.go:168-178, 190-221).
THEOREM RedirectsLeadHome == Spec => RedirectsStayHome
<1> DEFINE Tab == DOMAIN tab = Tabs
           Stays(t) == /\ SplitUserPath(tab'[t].page.path) = SplitUserPath(tab[t].page.path)
                       /\ tab'[t].page # [path |-> Home(SplitUserPath(tab[t].page.path)) \o <<"auth", "login">>,
                                          provider |-> "basic"]
<1>1. SessionsInit => Tab
  BY DEF SessionsInit
<1>2. Tab /\ [Next]_vars => Tab'
  BY TabsStay
<1>3. Tab /\ [Next]_vars => [\A t \in Tabs : tab[t].at = "let in" /\ tab'[t].at = "sent" => Stays(t)]_vars
  <2> SUFFICES ASSUME Tab, [Next]_vars, NEW t \in Tabs, tab[t].at = "let in", tab'[t].at = "sent"
               PROVE  Stays(t)
    OBVIOUS
  <2>1. PICK u \in Users : Redirect(t, u)
    BY OnlyRedirectsAskAgain
  <2>2. PICK loc \in Locations(u) :
          Ask(t, RewriteRedirect(loc, u).path, RewriteRedirect(loc, u).provider, NoToken, NoToken)
    BY <2>1 DEF Redirect
  <2>3. u = SplitUserPath(tab[t].page.path)
    BY <2>1 DEF Redirect, Answered
  <2>4. /\ tab'[t].page.path = RewriteRedirect(loc, u).path
        /\ tab'[t].page.provider = RewriteRedirect(loc, u).provider
    BY <2>2 DEF Ask
  <2>5. SplitUserPath(RewriteRedirect(loc, u).path) = u
    BY RedirectIsHome
  <2>6. ~(/\ RewriteRedirect(loc, u).path = Home(u) \o <<"auth", "login">>
          /\ RewriteRedirect(loc, u).provider = "basic")
    BY RedirectIsNoDeadEnd
  <2>7. SplitUserPath(tab'[t].page.path) = SplitUserPath(tab[t].page.path)
    BY <2>3, <2>4, <2>5
  <2>8. tab'[t].page # [path |-> Home(u) \o <<"auth", "login">>, provider |-> "basic"]
    <3>1. ASSUME NEW page, NEW path, page.path # path \/ page.provider # "basic"
          PROVE  page # [path |-> path, provider |-> "basic"]
      <4>1. ASSUME page = [path |-> path, provider |-> "basic"]
            PROVE  page.path = path /\ page.provider = "basic"
        BY <4>1
      <4> QED BY <3>1, <4>1
    <3>2. \/ tab'[t].page.path # Home(u) \o <<"auth", "login">>
          \/ tab'[t].page.provider # "basic"
      BY <2>4, <2>6
    <3> QED BY <3>1, <3>2, Zenon
  <2> QED BY <2>3, <2>7, <2>8
<1> QED BY <1>1, <1>2, <1>3, PTL DEF Spec, RedirectsStayHome

-----------------------------------------------------------------------------
(* The browser that a link has let in. *)

\* The pages a tab may ask for.
LEMMA PageTypes ==
  ASSUME NEW u \in Users
  PROVE  /\ Closed.page \in Pages
         /\ [path |-> Home(u), provider |-> "none"] \in Pages
         /\ \A loc \in Locations(u) : RewriteRedirect(loc, u) \in Locations(u)
<1>1. Locations(u) \subseteq Pages
  BY DEF Pages
<1>2. <<>> \in Routes /\ <<"login">> \in Routes
  BY DEF Routes
<1>3. Closed.page = [path |-> <<>>, provider |-> "none"] /\ Closed.page \in Locations(u)
  BY <1>2 DEF Closed, Locations
<1>4. Home(u) = Home(u) \o <<>>
  BY DEF Home
<1>5. [path |-> Home(u), provider |-> "none"] \in Locations(u)
  BY <1>2, <1>4 DEF Locations
<1>6. ASSUME NEW loc \in Locations(u) PROVE RewriteRedirect(loc, u) \in Locations(u)
  <2> DEFINE paths == Routes \cup {Home(u) \o r : r \in Routes}
             path  == IF IsPrefix(Home(u), loc.path) THEN loc.path ELSE Home(u) \o loc.path
  <2>1. loc.path \in paths /\ loc.provider \in {"none", "basic", "other"}
        /\ loc = [path |-> loc.path, provider |-> loc.provider]
    BY DEF Locations
  <2>2. path \in paths
    <3>1. ASSUME NEW r \in Routes, loc.path = Home(u) \o r PROVE IsPrefix(Home(u), loc.path)
      BY <3>1 DEF IsPrefix, Home, Routes
    <3> QED BY <2>1, <3>1
  <2>3. [path |-> Home(u) \o <<"login">>, provider |-> "none"] \in Locations(u)
    BY <1>2 DEF Locations
  <2>4. \A p \in paths : [loc EXCEPT !.path = p] \in Locations(u)
    BY <2>1 DEF Locations
  <2> HIDE DEF paths
  <2> QED BY <2>2, <2>3, <2>4 DEF RewriteRedirect
<1> QED BY <1>1, <1>3, <1>5, <1>6

\* A page belongs to a user or to nobody.
LEMMA PageOwner ==
  ASSUME NEW page \in Pages
  PROVE  SplitUserPath(page.path) \in Users \cup {NoUser}
<1>1. PICK u \in Users : page.path \in Routes \cup {Home(u) \o r : r \in Routes}
  BY DEF Pages, Locations
<1>2. \A r \in Routes : SplitUserPath(r) = NoUser
  BY DEF Routes, SplitUserPath
<1> QED BY <1>1, <1>2, UnderHome

\* Nothing that a tab does leaves its type.
LEMMA TabTypes ==
  ASSUME SessionsTypeOK, Browse
  PROVE  SessionsTypeOK'
<1> DEFINE Page == [at : {"closed", "sent", "let in"}, page : Pages, header : AnyToken,
                    link : AnyToken, token : AnyToken, sets : AnyToken]
<1>1. \A u \in Users : told[u] \subseteq Tokens
  BY DEF SessionsTypeOK, TypeOK
<1>2. PICK t \in Tabs : Open(t) \/ ServeHTTP(t) \/ \E u \in Users : Done(t, u) \/ Redirect(t, u)
  BY DEF Browse
<1>3. tab \in [Tabs -> Page] /\ tab[t] \in Page /\ jar \in [Users -> AnyToken]
  BY DEF SessionsTypeOK
<1>4. \E u \in Users : TRUE
  BY <1>3 DEF Pages
<1>5. Closed \in Page
  <2>1. Closed.page \in Pages
    BY <1>4, PageTypes
  <2> QED BY <2>1 DEF Closed, AnyToken
<1>6. ASSUME NEW page \in Pages, NEW header \in AnyToken, NEW link \in AnyToken
      PROVE  [at |-> "sent", page |-> page, header |-> header, link |-> link,
              token |-> NoToken, sets |-> NoToken] \in Page
  BY DEF AnyToken
<1>7. ASSUME NEW x \in Page, tab' = [tab EXCEPT ![t] = x]
      PROVE  tab' \in [Tabs -> Page]
  BY <1>3, <1>7
<1>8. CASE Open(t)
  <2>1. PICK u \in Users, header \in AnyToken, link \in AnyToken : Ask(t, Home(u), "none", header, link)
    BY <1>1, <1>8 DEF Open, AnyToken
  <2>2. tab' \in [Tabs -> Page]
    BY <1>6, <1>7, <2>1, PageTypes DEF Ask
  <2> QED BY <1>8, <2>2 DEF Open, SessionsTypeOK, TypeOK, tokenVars, claimVars, handlerVars
<1>9. CASE ServeHTTP(t)
  <2>1. tab' \in [Tabs -> Page]
    <3>1. CASE Close(t)
      BY <1>5, <1>7, <3>1 DEF Close
    <3>2. CASE /\ ~Refused(t)
               /\ tab' = [tab EXCEPT ![t].at = "let in", ![t].token = Presented(t),
                    ![t].sets = SessionCookie(tab[t], jar[SplitUserPath(tab[t].page.path)])]
      <4>1. SplitUserPath(tab[t].page.path) \in Users
        BY <1>3, <3>2, PageOwner DEF Refused
      <4>2. jar[SplitUserPath(tab[t].page.path)] \in AnyToken /\ tab[t].link \in AnyToken /\ tab[t].header \in AnyToken
        BY <1>3, <4>1
      <4>3. /\ Presented(t) \in AnyToken
            /\ SessionCookie(tab[t], jar[SplitUserPath(tab[t].page.path)]) \in AnyToken
        BY <4>2 DEF Presented, TokenFromRequest, SessionCookie, AnyToken
      <4>4. \A x, y \in AnyToken : [tab[t] EXCEPT !.at = "let in", !.token = x, !.sets = y] \in Page
        BY <1>3
      <4>5. tab' = [tab EXCEPT ![t] = [tab[t] EXCEPT !.at = "let in", !.token = Presented(t),
                    !.sets = SessionCookie(tab[t], jar[SplitUserPath(tab[t].page.path)])]]
        BY <1>3, <3>2
      <4> HIDE DEF Page
      <4> QED BY <1>7, <4>3, <4>4, <4>5
    <3> QED BY <1>9, <3>1, <3>2 DEF ServeHTTP
  <2> QED BY <1>9, <2>1 DEF ServeHTTP, SessionsTypeOK, TypeOK, tokenVars, claimVars, handlerVars
<1>10. ASSUME NEW u \in Users, Done(t, u) \/ Redirect(t, u)
       PROVE  SessionsTypeOK'
  <2>1. tab' \in [Tabs -> Page]
    <3>1. CASE Close(t)
      BY <1>5, <1>7, <3>1 DEF Close
    <3>2. CASE Redirect(t, u)
      <4>1. PICK loc \in Locations(u) : Ask(t, RewriteRedirect(loc, u).path, RewriteRedirect(loc, u).provider, NoToken, NoToken)
        BY <3>2 DEF Redirect
      <4>2. [path |-> RewriteRedirect(loc, u).path, provider |-> RewriteRedirect(loc, u).provider] \in Pages
        <5>1. \A to \in Locations(u) : [path |-> to.path, provider |-> to.provider] \in Pages
          BY DEF Pages, Locations
        <5> QED BY <5>1, PageTypes
      <4> QED BY <1>6, <1>7, <4>1, <4>2 DEF Ask, AnyToken
    <3> QED BY <1>10, <3>1, <3>2 DEF Done
  <2>2. tab[t].sets \in AnyToken
    BY <1>3
  <2>3. jar' \in [Users -> AnyToken]
    BY <1>3, <1>10, <2>2 DEF Done, Redirect, Answered
  <2>4. standing' \in [Users -> {"new", "in", "spoiled"}]
    BY <1>10 DEF Done, Redirect, Answered, SessionsTypeOK
  <2> QED BY <1>10, <2>1, <2>3, <2>4
       DEF Done, Redirect, Answered, SessionsTypeOK, TypeOK, tokenVars, claimVars, handlerVars
<1> QED BY <1>2, <1>8, <1>9, <1>10

\* Nor does the admin API.
LEMMA TokenStateTypes ==
  ASSUME UInv, TypeOK, TokenNext
  PROVE  TypeOK'
<1>1. TokenTypes'
  BY TokensNext DEF UInv, TInv
<1>2. minted' \in SUBSET Tokens
  BY FreshKeeps
<1>3. dying' \in SUBSET Users
  <2>1. ASSUME NEW h \in Handlers, HandlerStep(h) PROVE UNCHANGED dying
    BY <2>1 DEF HandlerStep, BeginCreate, BeginRotate, EnsureUser, Stored, NotStored,
         ReadBack, SetTokenHash, Answer, LoseToken, claimVars
  <2> QED BY <2>1 DEF TokenNext, TypeOK, DeleteUser, Reap
<1> QED BY <1>1, <1>2, <1>3 DEF TypeOK, TokenTypes

\* A token is written to a claim by the handler that has minted it, and once.
Unwritten == {"create", "patch"}

LEMMA HashMoves ==
  ASSUME UInv, TokenNext
  PROVE  \/ UNCHANGED hash
         \/ \E u \in Users : hash' = [hash EXCEPT ![u] = NoToken]
         \/ \E h \in Handlers : /\ step[h] \in Unwritten /\ step'[h] \notin Unwritten
                                /\ who[h] \in Users
                                /\ hash' = [hash EXCEPT ![who[h]] = tok[h]]
<1>1. ASSUME NEW u \in Users, DeleteUser(u) \/ Reap(u)
      PROVE  UNCHANGED hash \/ hash' = [hash EXCEPT ![u] = NoToken]
  BY <1>1 DEF DeleteUser, Reap
<1>2. ASSUME NEW h \in Handlers, HandlerStep(h), ~UNCHANGED hash
      PROVE  /\ step[h] \in Unwritten /\ step'[h] \notin Unwritten
             /\ who[h] \in Users
             /\ hash' = [hash EXCEPT ![who[h]] = tok[h]]
  <2>1. step[h] \in Unwritten /\ \E at \in {"readback", "answer"} : Stored(h, at)
    BY <1>2 DEF HandlerStep, BeginCreate, BeginRotate, EnsureUser, NotStored, ReadBack,
         SetTokenHash, Answer, LoseToken, claimVars, Unwritten
  <2>2. who[h] \in Users
    BY <2>1 DEF UInv, TInv, AtWork, Unwritten
  <2>3. step'[h] \notin Unwritten
    BY <2>1 DEF Stored, GoTo, Return, UInv, TInv, TokenTypes, Unwritten
  <2> QED BY <2>1, <2>2, <2>3 DEF Stored, Store
<1> QED BY <1>1, <1>2 DEF TokenNext

\* A handler that has not written yet was there before with its token, or has
\* minted it in this step.
LEMMA UnwrittenBefore ==
  ASSUME UInv, TokenNext, NEW h \in Handlers, step'[h] \in Unwritten
  PROVE  \/ step[h] \in Unwritten /\ tok'[h] = tok[h]
         \/ tok'[h] \in Tokens \ minted /\ UNCHANGED hash
<1> USE DEF Unwritten
<1>1. ASSUME NEW u \in Users, DeleteUser(u) \/ Reap(u)
      PROVE  UNCHANGED <<step, tok>>
  BY <1>1 DEF DeleteUser, Reap, handlerVars
<1>2. ASSUME NEW k \in Handlers, HandlerStep(k), k # h
      PROVE  step'[h] = step[h] /\ tok'[h] = tok[h]
  BY <1>2 DEF UInv, TInv, TokenTypes, HandlerStep, BeginCreate, BeginRotate, MintToken, EnsureUser,
       Stored, NotStored, ReadBack, SetTokenHash, Answer, LoseToken, Return, GoTo
<1>3. CASE HandlerStep(h)
  <2>1. ASSUME NEW u \in Users, BeginCreate(h, u) \/ BeginRotate(h, u)
        PROVE  tok'[h] \in Tokens \ minted /\ UNCHANGED hash
    BY <2>1 DEF UInv, TInv, TokenTypes, BeginCreate, BeginRotate, MintToken, claimVars
  <2>2. ~Return(h) /\ ~GoTo(h, "readback") /\ ~GoTo(h, "answer")
    BY DEF UInv, TInv, TokenTypes, Return, GoTo
  <2>3. ~EnsureUser(h) /\ ~SetTokenHash(h) /\ ~ReadBack(h) /\ ~Answer(h)
    BY <2>2 DEF EnsureUser, SetTokenHash, ReadBack, Answer, Stored, NotStored, LoseToken
  <2> QED BY <1>3, <2>1, <2>3 DEF HandlerStep
<1> QED BY <1>1, <1>2, <1>3 DEF TokenNext

\* No claim has a token yet that a handler is about to write.
Unseen ==
    /\ \A u \in Users : hash[u] \in minted \cup {NoToken}
    /\ \A h \in Handlers, u \in Users : step[h] \in Unwritten => hash[u] # tok[h]

\* A request that was let in has a token that was once on its user's claim.
\* The cookie it brings is that token; and if it brings none although it came by
\* a link with the present token, the jar had the token already and keeps it
\* unless an answer under an older one spoils it.
Cookie(x, u) ==
    /\ u \in Users
    /\ x.token \in minted
    /\ \A h \in Handlers : step[h] \in Unwritten => tok[h] # x.token
    /\ x.sets \in {NoToken, x.token}
    /\ x.link = x.token /\ x.token = hash[u] /\ standing[u] = "new" /\ x.sets = NoToken => jar[u] = hash[u]

Admitted == \A t \in Tabs : tab[t].at = "let in" => Cookie(tab[t], SplitUserPath(tab[t].page.path))

\* A browser that is in has the present token in its jar.
HasCookie == \A u \in Users : standing[u] = "in" => hash[u] # NoToken /\ jar[u] = hash[u]

BInv == UInv /\ SessionsTypeOK /\ Unseen /\ Admitted /\ HasCookie

LEMMA ManageKeeps ==
  ASSUME BInv, Manage
  PROVE  Unseen' /\ Admitted' /\ HasCookie'
<1> USE DEF BInv
<1>1. TokenNext /\ UNCHANGED <<jar, tab>>
      /\ standing' = [u \in Users |-> IF hash'[u] = hash[u] THEN standing[u] ELSE "new"]
  BY DEF Manage
<1>2. /\ hash \in [Users -> Tokens \cup {NoToken}] /\ tok \in [Handlers -> Tokens \cup {NoToken}]
      /\ minted \in SUBSET Tokens /\ Fresh /\ NoToken \notin Tokens
  BY TokensAssumption DEF UInv, TInv, TokenTypes
<1>3. minted \subseteq minted'
  BY <1>1, TokenMoves
<1>4. \A h \in Handlers : step[h] \in Unwritten => tok[h] \in minted
  BY <1>2 DEF UInv, TInv, AtWork, Fresh, Unwritten
<1>5. ASSUME NEW h \in Handlers, NEW t \in minted, step'[h] \in Unwritten, tok'[h] = t
      PROVE  step[h] \in Unwritten /\ tok[h] = t
  BY <1>1, <1>5, UnwrittenBefore
\* What a claim has after the step it had before, or the step has written it.
<1>6. ASSUME NEW u \in Users, hash'[u] # hash[u]
      PROVE  \/ hash'[u] = NoToken
             \/ \E h \in Handlers : step[h] \in Unwritten /\ step'[h] \notin Unwritten /\ hash'[u] = tok[h]
  BY <1>1, <1>2, <1>6, HashMoves
<1>7. Unseen'
  <2>1. ASSUME NEW u \in Users PROVE hash'[u] \in minted' \cup {NoToken}
    BY <1>3, <1>4, <1>6 DEF Unseen
  <2>2. ASSUME NEW h \in Handlers, NEW u \in Users, step'[h] \in Unwritten, hash'[u] = tok'[h]
        PROVE  FALSE
    <3>1. CASE hash'[u] = hash[u]
      <4>1. tok'[h] # NoToken
        BY <2>2, TokensNext, <1>1, TokensAssumption DEF UInv, TInv, AtWork, Unwritten
      <4>2. hash[u] \in minted
        BY <2>2, <3>1, <4>1 DEF Unseen
      <4> QED BY <1>5, <2>2, <3>1, <4>2 DEF Unseen
    <3>2. CASE hash'[u] = NoToken
      BY <3>2, <2>2, TokensNext, <1>1, TokensAssumption DEF UInv, TInv, AtWork, Unwritten
    <3>3. ASSUME NEW k \in Handlers, step[k] \in Unwritten, step'[k] \notin Unwritten, hash'[u] = tok[k]
          PROVE  FALSE
      <4>1. step[h] \in Unwritten /\ tok[h] = tok[k] /\ tok[k] # NoToken
        BY <1>2, <1>4, <1>5, <2>2, <3>3
      <4> QED BY <2>2, <3>3, <4>1, <1>2 DEF Fresh
    <3> QED BY <1>6, <3>1, <3>2, <3>3
  <2> QED BY <2>1, <2>2 DEF Unseen
<1>8. Admitted'
  <2> SUFFICES ASSUME NEW t \in Tabs, tab[t].at = "let in"
               PROVE  Cookie(tab[t], SplitUserPath(tab[t].page.path))'
    BY <1>1 DEF Admitted
  <2> DEFINE x == tab[t]
             u == SplitUserPath(x.page.path)
  <2>1. Cookie(x, u)
    BY DEF Admitted
  <2> HIDE DEF x, u
  <2>2. u \in Users /\ x.token \in minted' /\ x.token # NoToken /\ x.sets \in {NoToken, x.token}
    BY <1>2, <1>3, <2>1 DEF Cookie
  <2>3. \A h \in Handlers : step'[h] \in Unwritten => tok'[h] # x.token
    BY <1>5, <2>1 DEF Cookie
  <2>4. x.token = hash'[u] => hash'[u] = hash[u]
    BY <1>6, <2>1, <2>2 DEF Cookie
  <2>5. hash'[u] = hash[u] => standing'[u] = standing[u]
    BY <1>1, <2>2
  <2>6. /\ u \in Users /\ x.token \in minted'
        /\ \A h \in Handlers : step'[h] \in Unwritten => tok'[h] # x.token
        /\ x.sets \in {NoToken, x.token}
        /\ x.link = x.token /\ x.token = hash'[u] /\ standing'[u] = "new" /\ x.sets = NoToken => jar'[u] = hash'[u]
    BY <1>1, <2>1, <2>2, <2>3, <2>4, <2>5 DEF Cookie
  <2>7. x' = x /\ u' = u
    BY <1>1 DEF x, u
  <2> QED BY <2>6, <2>7 DEF Cookie, x, u
<1>9. HasCookie'
  BY <1>1 DEF HasCookie
<1> QED BY <1>7, <1>8, <1>9

\* The token of a request that its gateway lets in.
LEMMA ServedCookie ==
  ASSUME BInv, NEW t \in Tabs, ~Refused(t)
  PROVE  LET u == SplitUserPath(tab[t].page.path)
             x == SessionCookie(tab[t], jar[u])
         IN  /\ u \in Users /\ Presented(t) = hash[u] /\ hash[u] # NoToken
             /\ x \in {NoToken, hash[u]}
             /\ x = NoToken /\ tab[t].link = hash[u] => jar[u] = hash[u]
<1> DEFINE u == SplitUserPath(tab[t].page.path)
<1>1. u \in Users /\ u # NoUser
  BY PageOwner DEF BInv, SessionsTypeOK, Refused
<1>2. Presented(t) = TokenFromRequest(tab[t], jar[u])
  BY <1>1 DEF Presented
<1>3. Presented(t) = hash[u] /\ hash[u] # NoToken
  BY <1>1 DEF Refused, VerifyToken
<1> QED BY <1>1, <1>2, <1>3 DEF SessionCookie

LEMMA AnsweredKeeps ==
  ASSUME BInv, NEW t \in Tabs, NEW u \in Users, Answered(t, u)
  PROVE  /\ HasCookie'
         /\ \A v \in Users, s \in Tabs :
              Cookie(tab[s], v) =>
                /\ tab[s].link = tab[s].token /\ tab[s].token = hash[v] /\ standing'[v] = "new" /\ tab[s].sets = NoToken
                     => jar'[v] = hash[v]
<1>1. /\ tab[t].at = "let in" /\ u = SplitUserPath(tab[t].page.path) /\ UNCHANGED <<hash, minted, step, tok>>
      /\ jar' = IF tab[t].sets = NoToken THEN jar ELSE [jar EXCEPT ![u] = tab[t].sets]
      /\ standing' = [standing EXCEPT ![u] =
           IF tab[t].token # hash[u] THEN "spoiled"
           ELSE IF tab[t].link = hash[u] /\ standing[u] = "new" THEN "in" ELSE standing[u]]
  BY DEF Answered, tokenVars, claimVars, handlerVars
<1>2. Cookie(tab[t], u)
  BY <1>1 DEF BInv, Admitted
<1>3. jar \in [Users -> AnyToken] /\ standing \in [Users -> {"new", "in", "spoiled"}]
  BY DEF BInv, SessionsTypeOK
<1>4. tab[t].token # NoToken
  BY <1>2, TokensAssumption DEF Cookie, BInv, UInv
<1>5. \A v \in Users : v # u => jar'[v] = jar[v] /\ standing'[v] = standing[v]
  BY <1>1, <1>3
<1>6. /\ standing'[u] = IF tab[t].token # hash[u] THEN "spoiled"
           ELSE IF tab[t].link = hash[u] /\ standing[u] = "new" THEN "in" ELSE standing[u]
      /\ jar'[u] = IF tab[t].sets = NoToken THEN jar[u] ELSE tab[t].sets
  BY <1>1, <1>3
<1>7. HasCookie'
  <2> SUFFICES ASSUME NEW v \in Users, standing'[v] = "in"
               PROVE  hash[v] # NoToken /\ jar'[v] = hash[v]
    BY <1>1 DEF HasCookie
  <2>1. CASE v # u
    BY <1>5, <2>1 DEF BInv, HasCookie
  <2>2. CASE v = u
    BY <1>2, <1>4, <1>6, <2>2 DEF BInv, HasCookie, Cookie
  <2> QED BY <2>1, <2>2
<1>8. ASSUME NEW v \in Users, NEW s \in Tabs, Cookie(tab[s], v), tab[s].link = tab[s].token,
             tab[s].token = hash[v], standing'[v] = "new", tab[s].sets = NoToken
      PROVE  jar'[v] = hash[v]
  <2>1. CASE v # u
    BY <1>5, <1>8, <2>1 DEF Cookie
  <2>2. CASE v = u
    BY <1>2, <1>6, <1>8, <2>2 DEF Cookie
  <2> QED BY <2>1, <2>2
<1> QED BY <1>7, <1>8

\* A tab that asks, or is closed, is not let in.
LEMMA NotLetIn ==
  ASSUME DOMAIN tab = Tabs, NEW t \in Tabs,
         Close(t) \/ \E path, provider, header, link : Ask(t, path, provider, header, link)
  PROVE  tab'[t].at # "let in"
<1>1. ASSUME NEW x, tab' = [tab EXCEPT ![t] = x]
      PROVE  tab'[t] = x
  BY <1>1
<1>2. CASE Close(t)
  <2>1. tab'[t] = Closed
    BY <1>1, <1>2 DEF Close
  <2> QED BY <2>1 DEF Closed
<1>3. ASSUME NEW path, NEW provider, NEW header, NEW link, Ask(t, path, provider, header, link)
      PROVE  tab'[t].at = "sent"
  BY <1>3 DEF Ask
<1> QED BY <1>2, <1>3

LEMMA BrowseKeeps ==
  ASSUME BInv, Browse
  PROVE  Unseen' /\ Admitted' /\ HasCookie'
<1>1. UNCHANGED <<hash, minted, step, tok>>
  BY DEF Browse, Open, ServeHTTP, Done, Redirect, Answered, tokenVars, claimVars, handlerVars
<1>2. Unseen'
  BY <1>1 DEF BInv, Unseen
<1>3. PICK t \in Tabs : Open(t) \/ ServeHTTP(t) \/ \E u \in Users : Done(t, u) \/ Redirect(t, u)
  BY DEF Browse
<1>4. DOMAIN tab = Tabs
  BY DEF BInv, SessionsTypeOK
<1>5. \A s \in Tabs : s # t => tab'[s] = tab[s]
  BY <1>3, <1>4, OtherTabsStay
\* It is enough that the cookie of each tab that is let in stays right.
<1>6. ASSUME NEW s \in Tabs, tab'[s].at = "let in", tab'[s] = tab[s],
             LET u == SplitUserPath(tab[s].page.path)
             IN  tab[s].link = tab[s].token /\ tab[s].token = hash[u] /\ standing'[u] = "new" /\ tab[s].sets = NoToken
                   => jar'[u] = hash[u]
      PROVE  Cookie(tab[s], SplitUserPath(tab[s].page.path))'
  <2>1. Cookie(tab[s], SplitUserPath(tab[s].page.path))
    BY <1>6 DEF BInv, Admitted
  <2> QED BY <1>1, <1>6, <2>1 DEF Cookie
<1>7. CASE Open(t) \/ ServeHTTP(t)
  <2>1. UNCHANGED <<jar, standing>>
    BY <1>7 DEF Open, ServeHTTP
  <2>2. HasCookie'
    BY <1>1, <2>1 DEF BInv, HasCookie
  <2>3. ASSUME NEW s \in Tabs, tab'[s].at = "let in", tab'[s] = tab[s]
        PROVE  Cookie(tab[s], SplitUserPath(tab[s].page.path))'
    <3>1. Cookie(tab[s], SplitUserPath(tab[s].page.path))
      BY <2>3 DEF BInv, Admitted
    <3> QED BY <1>1, <2>1, <2>3, <3>1 DEF Cookie
  <2>4. CASE tab'[t].at # "let in"
    BY <1>5, <2>2, <2>3, <2>4, <1>2 DEF Admitted
  <2>5. CASE tab'[t].at = "let in"
    <3> DEFINE u == SplitUserPath(tab[t].page.path)
               y == SessionCookie(tab[t], jar[u])
    <3>1. ~Open(t) /\ ~Close(t)
      BY <1>4, <2>5, NotLetIn DEF Open
    <3>2. /\ ~Refused(t)
          /\ tab' = [tab EXCEPT ![t].at = "let in", ![t].token = Presented(t), ![t].sets = y]
      BY <1>7, <3>1 DEF ServeHTTP
    <3>3. /\ tab'[t].page = tab[t].page /\ tab'[t].link = tab[t].link
          /\ tab'[t].token = Presented(t) /\ tab'[t].sets = y
      <4> HIDE DEF y
      <4> QED BY <3>2 DEF BInv, SessionsTypeOK
    <3>4. /\ u \in Users /\ Presented(t) = hash[u] /\ hash[u] # NoToken
          /\ y \in {NoToken, hash[u]}
          /\ y = NoToken /\ tab[t].link = hash[u] => jar[u] = hash[u]
      BY <3>2, ServedCookie
    <3> HIDE DEF u, y
    <3>5. hash[u] \in minted /\ \A h \in Handlers : step[h] \in Unwritten => tok[h] # hash[u]
      BY <3>4 DEF BInv, Unseen
    <3>6. SplitUserPath(tab'[t].page.path) = u
      BY <3>3 DEF u
    <3>7. Cookie(tab[t], SplitUserPath(tab[t].page.path))'
      <4>1. /\ tab'[t].token = hash[u] /\ tab'[t].sets \in {NoToken, hash[u]}
            /\ tab'[t].link = hash[u] /\ tab'[t].sets = NoToken => jar[u] = hash[u]
        BY <3>3, <3>4
      <4> QED BY <1>1, <2>1, <3>4, <3>5, <3>6, <4>1 DEF Cookie
    <3> QED BY <1>2, <1>5, <2>2, <2>3, <3>7 DEF Admitted
  <2> QED BY <2>4, <2>5
<1>8. ASSUME NEW u \in Users, Done(t, u) \/ Redirect(t, u)
      PROVE  Admitted' /\ HasCookie'
  <2>1. Answered(t, u) /\ tab'[t].at # "let in"
    BY <1>4, <1>8, NotLetIn DEF Done, Redirect
  <2>2. ASSUME NEW s \in Tabs, tab'[s].at = "let in"
        PROVE  Cookie(tab[s], SplitUserPath(tab[s].page.path))'
    <3>1. tab'[s] = tab[s]
      BY <1>5, <2>1, <2>2
    <3>2. Cookie(tab[s], SplitUserPath(tab[s].page.path))
      BY <2>2, <3>1 DEF BInv, Admitted
    <3>3. SplitUserPath(tab[s].page.path) \in Users
      BY <3>2 DEF Cookie
    <3> QED BY <1>6, <2>1, <2>2, <3>1, <3>2, <3>3, AnsweredKeeps
  <2> QED BY <2>1, <2>2, AnsweredKeeps DEF Admitted
<1> QED BY <1>2, <1>3, <1>7, <1>8

LEMMA BrowserInvariance ==
  ASSUME Users # {}
  PROVE  Spec => []BInv
<1>1. SessionsInit => UInv
  BY TokensInit DEF SessionsInit, Init, UInv, Fresh, Steady
<1>2. SessionsInit => BInv
  <2> SUFFICES ASSUME SessionsInit PROVE BInv
    OBVIOUS
  <2>1. SessionsTypeOK
    <3>1. Closed.page \in Pages
      BY PageTypes
    <3>2. Closed \in [at : {"closed", "sent", "let in"}, page : Pages, header : AnyToken,
                      link : AnyToken, token : AnyToken, sets : AnyToken]
      BY <3>1 DEF Closed, AnyToken
    <3> QED BY <3>2 DEF SessionsInit, Init, SessionsTypeOK, TypeOK, AnyToken
  <2>2. Unseen /\ Admitted /\ HasCookie
    BY DEF SessionsInit, Init, Unseen, Unwritten, Admitted, Closed, HasCookie
  <2> QED BY <1>1, <2>1, <2>2 DEF BInv
<1>3. BInv /\ [Next]_vars => BInv'
  <2> SUFFICES ASSUME BInv, [Next]_vars PROVE BInv'
    OBVIOUS
  <2>1. CASE Manage
    <3>1. UInv'
      BY <2>1, TokensNext, FreshKeeps, SteadyKeeps DEF Manage, UInv, BInv
    <3>2. SessionsTypeOK'
      <4>1. TypeOK' /\ UNCHANGED <<jar, tab>>
        BY <2>1, TokenStateTypes DEF Manage, BInv, SessionsTypeOK
      <4>2. crossed' \in [Handlers -> BOOLEAN] /\ standing' \in [Users -> {"new", "in", "spoiled"}]
        BY <2>1, <3>1 DEF Manage, BInv, UInv, SessionsTypeOK
      <4> QED BY <4>1, <4>2 DEF BInv, SessionsTypeOK
    <3> QED BY <2>1, <3>1, <3>2, ManageKeeps DEF BInv
  <2>2. CASE Browse \/ UNCHANGED vars
    <3>1. UNCHANGED <<tokenVars, crossed>>
      BY <2>2 DEF vars, Browse, Open, ServeHTTP, Done, Redirect, Answered
    <3>2. UInv'
      BY <3>1, TokensSame DEF BInv, UInv, Fresh, Steady, tokenVars, claimVars, handlerVars
    <3>3. CASE Browse
      BY <3>2, <3>3, TabTypes, BrowseKeeps DEF BInv
    <3>4. CASE UNCHANGED vars
      BY <3>2, <3>4 DEF BInv, vars, tokenVars, claimVars, handlerVars, SessionsTypeOK, TypeOK,
           Unseen, Admitted, Cookie, HasCookie
    <3> QED BY <2>2, <3>3, <3>4
  <2> QED BY <2>1, <2>2 DEF Next
<1> QED BY <1>2, <1>3, PTL DEF Spec

\* Tokens, handlers, tabs and the jar keep their types.
THEOREM SessionTypes ==
  ASSUME Users # {}
  PROVE  Spec => []SessionsTypeOK
<1>1. BInv => SessionsTypeOK
  BY DEF BInv
<1> QED BY <1>1, BrowserInvariance, PTL

\* A browser that a link has let in is not asked for a token again until that
\* changes, however many tabs answer in whatever order, unless an answer under
\* an older token has come late (proxy.go:86-105, auth.go:41-46).
THEOREM BrowserStaysIn == Spec => []LetInStaysIn
<1>1. BInv => LetInStaysIn
  <2> SUFFICES ASSUME BInv, NEW t \in Tabs, NEW u \in Users,
                      tab[t].at = "sent", SplitUserPath(tab[t].page.path) = u,
                      tab[t].header = NoToken, tab[t].link = NoToken, standing[u] = "in"
               PROVE  ~Refused(t)
    BY DEF LetInStaysIn
  <2>1. hash[u] # NoToken /\ jar[u] = hash[u]
    BY DEF BInv, HasCookie
  <2>2. u # NoUser
    BY TokensAssumption
  <2> QED BY <2>1, <2>2 DEF Refused, VerifyToken, Presented, TokenFromRequest
<1>2. CASE Users # {}
  BY <1>1, <1>2, BrowserInvariance, PTL
<1>3. CASE Users = {}
  <2>1. LetInStaysIn
    BY <1>3 DEF LetInStaysIn
  <2> QED BY <2>1, PTL
<1> QED BY <1>2, <1>3
=============================================================================
