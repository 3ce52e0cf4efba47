----------------------------- MODULE UserTokens -----------------------------
(***************************************************************************)
(* The bearer token of a user: CreateUser, RotateToken and DeleteUser of   *)
(* the admin API, and the hash on the claim they share without a lock.     *)
(*                                                                         *)
(* A token stands for itself and for its hash: MintToken draws 32 random   *)
(* bytes, so a minted token is a new one.  A request to the API server may *)
(* fail before or after it took effect, and a client may be gone when its  *)
(* answer is written.  A deleted claim stays until its finalizers are done *)
(* and answers reads, patches and a second POST until then.                *)
(***************************************************************************)
EXTENDS FiniteSets

CONSTANTS Users,
          Handlers,   \* goroutines of the admin API
          Tokens,     \* the tokens that can be minted, a bound
          NoToken,    \* an empty token, or no claim to hold its hash
          NoUser

ASSUME TokensAssumption == NoToken \notin Tokens /\ NoUser \notin Users

VARIABLES
    hash,    \* per user: the token whose hash its claim holds, NoToken without a claim
    dying,   \* users whose claim is being deleted
    minted,  \* the tokens drawn so far
    step,    \* per handler: where CreateUser or RotateToken is
    who,     \* per handler: the user it is asked for
    tok,     \* per handler: the token it has minted
    told,    \* per user: the tokens some client was answered with
    lost     \* per user: the tokens stored by a request that its client was told
             \* has failed, or whose answer nobody received

claimVars   == <<hash, dying>>
handlerVars == <<step, who, tok>>
tokenVars   == <<claimVars, minted, handlerVars, told, lost>>

Some(u) == hash[u] # NoToken   \* u has a claim

TypeOK ==
    /\ hash \in [Users -> Tokens \cup {NoToken}]
    /\ dying \in SUBSET Users
    /\ minted \in SUBSET Tokens
    /\ step \in [Handlers -> {"idle", "create", "readback", "patch", "answer"}]
    /\ who \in [Handlers -> Users \cup {NoUser}]
    /\ tok \in [Handlers -> Tokens \cup {NoToken}]
    /\ told \in [Users -> SUBSET Tokens]
    /\ lost \in [Users -> SUBSET Tokens]

Init ==
    /\ hash = [u \in Users |-> NoToken]
    /\ dying = {}
    /\ minted = {}
    /\ step = [h \in Handlers |-> "idle"]
    /\ who = [h \in Handlers |-> NoUser]
    /\ tok = [h \in Handlers |-> NoToken]
    /\ told = [u \in Users |-> {}]
    /\ lost = [u \in Users |-> {}]

-----------------------------------------------------------------------------
GoTo(h, at) == step' = [step EXCEPT ![h] = at]

MintToken(h, u, at) ==
    /\ step[h] = "idle"
    /\ \E t \in Tokens \ minted :
         /\ minted' = minted \cup {t}
         /\ tok' = [tok EXCEPT ![h] = t]
    /\ who' = [who EXCEPT ![h] = u]
    /\ GoTo(h, at)

Return(h) ==
    /\ GoTo(h, "idle")
    /\ who' = [who EXCEPT ![h] = NoUser]
    /\ tok' = [tok EXCEPT ![h] = NoToken]

\* The token was stored, and no client will ever know it.
LoseToken(h) ==
    /\ lost' = [lost EXCEPT ![who[h]] = @ \cup {tok[h]}]
    /\ Return(h)
    /\ UNCHANGED <<claimVars, minted, told>>

Store(h) == hash' = [hash EXCEPT ![who[h]] = tok[h]]

\* The write is made, and the handler sees it succeed or fail all the same.
Stored(h, at) ==
    /\ Store(h)
    /\ \/ GoTo(h, at) /\ UNCHANGED <<who, tok, lost>>
       \/ Return(h) /\ lost' = [lost EXCEPT ![who[h]] = @ \cup {tok[h]}]
    /\ UNCHANGED <<dying, minted, told>>

NotStored(h) ==
    /\ Return(h)
    /\ UNCHANGED <<claimVars, minted, told, lost>>

BeginCreate(h, u) == MintToken(h, u, "create") /\ UNCHANGED <<claimVars, told, lost>>

\* Mutant: a claim that exists counts as created.
AlwaysCreated(h) ==
    /\ step[h] = "create"
    /\ \/ ~Some(who[h]) /\ Stored(h, "readback")
       \/ Some(who[h]) /\ GoTo(h, "readback") /\ UNCHANGED <<claimVars, minted, who, tok, told, lost>>
       \/ NotStored(h)

\* EnsureUser: Create makes a claim where there is none.  Over a claim, also
\* one that is being deleted, it is a replay, which answers without a token.
EnsureUser(h) ==
    /\ step[h] = "create"
    /\ \/ ~Some(who[h]) /\ Stored(h, "readback")
       \/ NotStored(h)

\* Resolve after Create: the claim may have gone again, or the read may fail,
\* and then the answer is an error without the token.
ReadBack(h) ==
    /\ step[h] = "readback"
    /\ \/ /\ Some(who[h])
          /\ GoTo(h, "answer")
          /\ UNCHANGED <<claimVars, minted, who, tok, told, lost>>
       \/ LoseToken(h)

\* RotateToken reads the user, mints a token and patches the claim by its
\* name: whichever claim of the user is there by then.
BeginRotate(h, u) ==
    /\ Some(u)
    /\ MintToken(h, u, "patch")
    /\ UNCHANGED <<claimVars, told, lost>>

SetTokenHash(h) ==
    /\ step[h] = "patch"
    /\ \/ Some(who[h]) /\ Stored(h, "answer")
       \/ NotStored(h)

\* Mutant: a creation that is not Ready in time answers 201 without its token.
AnswerOrTimeout(h) ==
    /\ step[h] = "answer"
    /\ Return(h)
    /\ told' = [told EXCEPT ![who[h]] = @ \cup {tok[h]}] \/ UNCHANGED told
    /\ UNCHANGED <<claimVars, minted, lost>>

\* Whatever WaitAdopted says, a creation answers with its token, and so does a
\* rotation; the client may have gone.
Answer(h) ==
    /\ step[h] = "answer"
    /\ \/ /\ told' = [told EXCEPT ![who[h]] = @ \cup {tok[h]}]
          /\ Return(h)
          /\ UNCHANGED <<claimVars, minted, lost>>
       \/ LoseToken(h)

DeleteUser(u) ==
    /\ Some(u)
    /\ dying' = dying \cup {u}
    /\ UNCHANGED <<hash, minted, handlerVars, told, lost>>

\* External: the claim is gone once its finalizers are done.
Reap(u) ==
    /\ u \in dying
    /\ dying' = dying \ {u}
    /\ hash' = [hash EXCEPT ![u] = NoToken]
    /\ UNCHANGED <<minted, handlerVars, told, lost>>

HandlerStep(h) ==
    \/ \E u \in Users : BeginCreate(h, u) \/ BeginRotate(h, u)
    \/ EnsureUser(h) \/ ReadBack(h) \/ SetTokenHash(h) \/ Answer(h)

TokenNext ==
    \/ \E h \in Handlers : HandlerStep(h)
    \/ \E u \in Users : DeleteUser(u) \/ Reap(u)

-----------------------------------------------------------------------------
\* The token a claim holds is known to a client, or on its way to one, unless
\* the request that stored it failed visibly: a 201 and a rotation are never
\* the only ones to know of a token they keep (users.go:127-137).
NobodyLockedOut ==
    \A u \in Users : Some(u) =>
        \/ hash[u] \in told[u] \cup lost[u]
        \/ \E h \in Handlers : step[h] \in {"readback", "answer"} /\ who[h] = u /\ tok[h] = hash[u]
=============================================================================
