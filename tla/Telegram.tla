------------------------------ MODULE Telegram ------------------------------
(***************************************************************************)
(* internal/telegram/inject.go: SetToken and RemoveToken, run by handlers  *)
(* of the admin API.  A token is kept in three places that no transaction  *)
(* spans: the user's Secret, the .env file on the volume of the sandbox,   *)
(* and the suspend-exempt annotation of the claim.  A call may fail        *)
(* between any two writes, also between the commands of the script that    *)
(* rewrites .env: the stream or the pod may go, but a command that is run  *)
(* does its work.  A script that outlives its stream counts as a call that *)
(* lasts as long as the script does, and then fails.  A process that ends  *)
(* is all its calls failing.                                               *)
(*                                                                         *)
(* Of .env only the TELEGRAM_ lines are kept.  The restart of the service  *)
(* in the pod changes nothing here, and its failure is one of the failures *)
(* before the exemption.                                                   *)
(***************************************************************************)
EXTENDS AgentSandbox

CONSTANTS Calls,    \* goroutines that set or remove a token
          Tokens,   \* valid bot tokens
          NoToken

ASSUME TokensAssumption == NoToken \notin Tokens /\ "remove" \notin Tokens \cup {NoToken}

NoFile == {NoToken}   \* what temp holds when .env.tmp does not exist

VARIABLES
    secret,   \* per user: the token in its Secret
    orphan,   \* per user: the claim that owns the Secret has gone
    env,      \* per sandbox: the tokens in .env
    temp,     \* per sandbox: the tokens in .env.tmp
    exempt,   \* per user: the suspend-exempt annotation
    job,      \* per call: the token SetToken installs, "remove", or NoToken
    step,     \* per call: where SetToken or RemoveToken is
    subject,  \* per call: the user in the path
    box,      \* per call: the sandbox it works in
    alone     \* history, per call: no other job for its user, and no deletion of
              \* its user, crossed this one

stores   == <<secret, orphan, env, temp, exempt>>
jobVars  == <<job, step, subject, box>>
vars     == <<kubeVars, stores, jobVars, alone>>

Jobs == Tokens \cup {"remove"}

TypeOK ==
    /\ KubeTypeOK
    /\ secret \in [Users -> Tokens \cup {NoToken}]
    /\ orphan \in [Users -> BOOLEAN]
    /\ env \in [Sandboxes -> SUBSET Tokens]
    /\ temp \in [Sandboxes -> (SUBSET Tokens) \cup {NoFile}]
    /\ exempt \in [Users -> BOOLEAN]
    /\ job \in [Calls -> Jobs \cup {NoToken}]
    /\ step \in [Calls -> {"idle", "store", "wake", "scrub", "append", "move", "exempt"}]
    /\ subject \in [Calls -> Users \cup {NoUser}]
    /\ box \in [Calls -> Sandboxes \cup {NoSandbox}]
    /\ alone \in [Calls -> BOOLEAN]

Init ==
    /\ KubeInit
    /\ secret = [u \in Users |-> NoToken]
    /\ orphan = [u \in Users |-> FALSE]
    /\ env = [s \in Sandboxes |-> {}]
    /\ temp = [s \in Sandboxes |-> NoFile]
    /\ exempt = [u \in Users |-> FALSE]
    /\ job = [c \in Calls |-> NoToken]
    /\ step = [c \in Calls |-> "idle"]
    /\ subject = [c \in Calls |-> NoUser]
    /\ box = [c \in Calls |-> NoSandbox]
    /\ alone = [c \in Calls |-> FALSE]

Proceed(c, next) ==
    /\ step' = [step EXCEPT ![c] = next]
    /\ UNCHANGED <<job, subject, alone>>

Answered(c) ==
    /\ job' = [job EXCEPT ![c] = NoToken]
    /\ step' = [step EXCEPT ![c] = "idle"]
    /\ subject' = [subject EXCEPT ![c] = NoUser]
    /\ box' = [box EXCEPT ![c] = NoSandbox]
    /\ alone' = [alone EXCEPT ![c] = FALSE]

-----------------------------------------------------------------------------
(* What both calls do first: Resolve.  An unknown user is an error. *)
StartJob(c, u, j) ==
    /\ step[c] = "idle"
    /\ UserExists(u)
    /\ job' = [job EXCEPT ![c] = j]
    /\ step' = [step EXCEPT ![c] = "store"]
    /\ subject' = [subject EXCEPT ![c] = u]
    /\ box' = [box EXCEPT ![c] = IF ResolvedState(u) = "Ready" THEN claim[u] ELSE NoSandbox]
    /\ alone' = [d \in Calls |-> IF d = c THEN \A o \in Calls : subject[o] # u
                                ELSE alone[d] /\ subject[d] # u]
    /\ UNCHANGED <<kubeVars, stores>>

\* upsertSecret.  The read of the claim, for the owner reference, and the
\* write are one step: a Secret written for a claim that has just gone is
\* collected like one written just before it went.
Store(c) ==
    /\ step[c] = "store" /\ job[c] \in Tokens
    /\ UserExists(subject[c])
    /\ secret' = [secret EXCEPT ![subject[c]] = job[c]]
    /\ orphan' = [orphan EXCEPT ![subject[c]] = FALSE]
    /\ Proceed(c, IF box[c] = NoSandbox THEN "wake" ELSE "scrub")
    /\ UNCHANGED <<kubeVars, env, temp, exempt, box>>

\* RemoveToken deletes the Secret, a missing one included, and leaves an agent
\* that is not Ready as it is.
Unstore(c) ==
    /\ step[c] = "store" /\ job[c] = "remove"
    /\ secret' = [secret EXCEPT ![subject[c]] = NoToken]
    /\ orphan' = [orphan EXCEPT ![subject[c]] = FALSE]
    /\ Proceed(c, IF box[c] = NoSandbox THEN "exempt" ELSE "scrub")
    /\ UNCHANGED <<kubeVars, env, temp, exempt, box>>

\* Lifecycle.Resume.  All that counts here is that it comes back with an agent
\* it has resolved as Ready, or fails; the mode it writes is in Patch below.
Woken(c) ==
    /\ step[c] = "wake"
    /\ UserExists(subject[c]) /\ ResolvedState(subject[c]) = "Ready"
    /\ box' = [box EXCEPT ![c] = claim[subject[c]]]
    /\ Proceed(c, "scrub")
    /\ UNCHANGED <<kubeVars, stores>>

-----------------------------------------------------------------------------
(* The script, run by exec in the pod. *)

InPod(c) == Live(box[c]) /\ sandbox[box[c]].pod \in {"Up", "Terminating"}

AfterScrub(c) ==
    /\ step[c] = "scrub" /\ InPod(c)
    /\ Proceed(c, IF job[c] = "remove" THEN "move" ELSE "append")
    /\ UNCHANGED <<kubeVars, secret, orphan, env, exempt, box>>

\* Mutant: grep appends to what an earlier script may have left.
ScrubKeepsTemp(c) ==
    /\ AfterScrub(c)
    /\ temp' = [temp EXCEPT ![box[c]] = IF @ = NoFile THEN {} ELSE @]

\* grep -v ... > .env.tmp
Scrub(c) ==
    /\ AfterScrub(c)
    /\ temp' = [temp EXCEPT ![box[c]] = {}]

\* printf ... >> .env.tmp
AppendToken(c) ==
    /\ step[c] = "append" /\ InPod(c)
    /\ temp' = [temp EXCEPT ![box[c]] = (IF @ = NoFile THEN {} ELSE @) \cup {job[c]}]
    /\ Proceed(c, "move")
    /\ UNCHANGED <<kubeVars, secret, orphan, env, exempt, box>>

\* Mutant: nobody else is expected to have moved the file.
MoveUnchecked(c) ==
    /\ step[c] = "move" /\ InPod(c)
    /\ env' = [env EXCEPT ![box[c]] = temp[box[c]]]
    /\ temp' = [temp EXCEPT ![box[c]] = NoFile]
    /\ Proceed(c, "exempt")
    /\ UNCHANGED <<kubeVars, secret, orphan, exempt, box>>

\* mv .env.tmp .env.  When another script has moved the file, mv fails; in
\* RemoveToken that is the script's status, in SetToken it is lost, for chmod
\* comes last and finds the other's .env.
Move(c) ==
    /\ step[c] = "move" /\ InPod(c)
    /\ job[c] = "remove" => temp[box[c]] # NoFile
    /\ env' = [env EXCEPT ![box[c]] = IF temp[box[c]] = NoFile THEN @ ELSE temp[box[c]]]
    /\ temp' = [temp EXCEPT ![box[c]] = NoFile]
    /\ Proceed(c, "exempt")
    /\ UNCHANGED <<kubeVars, secret, orphan, exempt, box>>

\* RemoveToken goes on without a pod name.
NoPodName(c) ==
    /\ step[c] = "scrub" /\ job[c] = "remove"
    /\ box' = [box EXCEPT ![c] = NoSandbox]
    /\ Proceed(c, "exempt")
    /\ UNCHANGED <<kubeVars, stores>>

\* SetSuspendExempt, and the answer.
SetExempt(c) ==
    /\ step[c] = "exempt"
    /\ UserExists(subject[c])
    /\ exempt' = [exempt EXCEPT ![subject[c]] = job[c] # "remove"]
    /\ Answered(c)
    /\ UNCHANGED <<kubeVars, secret, orphan, env, temp>>

\* A call to the API, an exec or a command fails: the handler answers with an
\* error and undoes nothing.
GiveUp(c) ==
    /\ step[c] \in {"store", "wake", "scrub", "append", "move", "exempt"}
    /\ Answered(c)
    /\ UNCHANGED <<kubeVars, stores>>

JobStep(c) ==
    \/ Store(c) \/ Unstore(c) \/ Woken(c)
    \/ Scrub(c) \/ AppendToken(c) \/ Move(c) \/ NoPodName(c)
    \/ SetExempt(c) \/ GiveUp(c)

-----------------------------------------------------------------------------
(* The surroundings. *)

\* What all calls of Suspend and Resume, SetToken's own included, come down to:
\* the operating mode may be written at any time.
Patch(s) ==
    /\ Live(s)
    /\ \E mode \in Modes \ {sandbox[s].mode} : setOperatingMode(s, mode)
    /\ UNCHANGED <<stores, jobVars, alone>>

\* The volume goes with its sandbox.
Volumes ==
    /\ Cluster
    /\ env' = [s \in Sandboxes |-> IF sandbox'[s].phase = "gone" THEN {} ELSE env[s]]
    /\ temp' = [s \in Sandboxes |-> IF sandbox'[s].phase = "gone" THEN NoFile ELSE temp[s]]
    /\ UNCHANGED <<secret, orphan, exempt, jobVars, alone>>

\* A claim comes and goes with its annotations; its Secret is collected later.
Annotations(u) ==
    /\ CreateClaim(u) \/ DeleteClaim(u)
    /\ exempt' = [exempt EXCEPT ![u] = FALSE]
    /\ orphan' = [orphan EXCEPT ![u] = secret[u] # NoToken]
    /\ alone' = [c \in Calls |-> alone[c] /\ subject[c] # u]
    /\ UNCHANGED <<secret, env, temp, jobVars>>

CollectSecret(u) ==
    /\ orphan[u]
    /\ secret' = [secret EXCEPT ![u] = NoToken]
    /\ orphan' = [orphan EXCEPT ![u] = FALSE]
    /\ UNCHANGED <<kubeVars, env, temp, exempt, jobVars, alone>>

Next ==
    \/ \E c \in Calls : JobStep(c) \/ \E u \in Users, j \in Jobs : StartJob(c, u, j)
    \/ \E s \in Sandboxes : Patch(s)
    \/ Volumes
    \/ \E u \in Users : Annotations(u) \/ CollectSecret(u)

Spec == Init /\ [][Next]_vars

-----------------------------------------------------------------------------
(* Properties of calls that succeed and that no other job for their user and *)
(* no deletion of it crossed, whatever failed or crossed before.             *)

\* SetToken may be retried until it succeeds, and then the three stores agree:
\* no failed attempt leaves anything behind (inject.go:64, 76, 95).
SetTokenInstalls ==
    [][\A c \in Calls :
         SetExempt(c) /\ job[c] \in Tokens /\ alone[c] /\ Live(box[c])
         => /\ secret[subject[c]] = job[c]
            /\ env[claim[subject[c]]] = {job[c]}
            /\ exempt'[subject[c]]]_vars

\* RemoveToken leaves no token in any of the three if it worked in the pod,
\* whatever attempts to set or remove one have failed before.
RemoveTokenCleans ==
    [][\A c \in Calls :
         SetExempt(c) /\ job[c] = "remove" /\ alone[c] /\ Live(box[c])
         => /\ secret[subject[c]] = NoToken
            /\ env[claim[subject[c]]] = {}
            /\ ~exempt'[subject[c]]]_vars

\* Promised by inject.go:99 and docs/api.md:26: RemoveToken deletes the token
\* from Secret and .env.
RemoveTokenRemoves ==
    [][\A c \in Calls :
         SetExempt(c) /\ job[c] = "remove" /\ alone[c] /\ Live(claim[subject[c]])
         => secret[subject[c]] = NoToken /\ env[claim[subject[c]]] = {}]_vars
=============================================================================
