---------------------------- MODULE TelegramProofs ----------------------------
(***************************************************************************)
(* Theorems about Telegram for any number of users, sandboxes, goroutines  *)
(* and tokens.  A call that nothing crossed is the only one that writes to *)
(* its user's Secret and sandbox: sandboxes have owners, and a job works   *)
(* in the sandbox of its own user.  So each store holds what the call has  *)
(* put there, and what earlier attempts left is overwritten on the way.    *)
(***************************************************************************)
EXTENDS Telegram, TLAPS

KnowsJob ==
    \A c \in Calls :
        IF step[c] = "idle"
        THEN subject[c] = NoUser /\ box[c] = NoSandbox /\ ~alone[c]
        ELSE /\ subject[c] \in Users /\ job[c] \in Jobs
             /\ step[c] \in {"wake", "append"} => job[c] \in Tokens

ClaimOwns ==
    \A u \in Users : claim[u] \in Sandboxes =>
        sandbox[claim[u]].phase # "unborn" /\ sandbox[claim[u]].owner = u

BoxOwned ==
    \A c \in Calls : box[c] \in Sandboxes =>
        sandbox[box[c]].phase # "unborn" /\ sandbox[box[c]].owner = subject[c]

NoneCrosses ==
    \A c, d \in Calls : alone[c] /\ subject[d] = subject[c] => d = c

SameAgent ==
    \A c \in Calls : alone[c] =>
        /\ claim[subject[c]] # NoClaim
        /\ box[c] \in Sandboxes => claim[subject[c]] = box[c]

\* The Secret and the lines of .env that a job is about.
ItsSecret(c) == IF job[c] = "remove" THEN NoToken ELSE job[c]
ItsLines(c)  == IF job[c] = "remove" THEN {} ELSE {job[c]}

SecretKept ==
    \A c \in Calls : alone[c] /\ step[c] \in {"wake", "scrub", "append", "move", "exempt"} =>
        secret[subject[c]] = ItsSecret(c) /\ ~orphan[subject[c]]

FilesKept ==
    \A c \in Calls : alone[c] /\ Live(box[c]) =>
        /\ step[c] = "append" => temp[box[c]] = {}
        /\ step[c] = "move" => temp[box[c]] = ItsLines(c)
        /\ step[c] = "exempt" => env[box[c]] = ItsLines(c)

IInv == /\ TypeOK
        /\ KnowsJob
        /\ ClaimOwns
        /\ BoxOwned
        /\ NoneCrosses
        /\ SameAgent
        /\ SecretKept
        /\ FilesKept
-----------------------------------------------------------------------------
(* The surroundings. *)

LEMMA ModeObject ==
    ASSUME NEW o \in SandboxObject, NEW m \in Modes
    PROVE  /\ [o EXCEPT !.mode = m] \in SandboxObject
           /\ [o EXCEPT !.mode = m].phase = o.phase
           /\ [o EXCEPT !.mode = m].owner = o.owner
BY DEF SandboxObject, Modes

LEMMA PodObject ==
    ASSUME NEW o \in SandboxObject, NEW p \in {"Absent", "Starting", "Up", "Terminating"}
    PROVE  /\ [o EXCEPT !.pod = p] \in SandboxObject
           /\ [o EXCEPT !.pod = p].phase = o.phase
           /\ [o EXCEPT !.pod = p].owner = o.owner
BY DEF SandboxObject

LEMMA ConditionsObject ==
    ASSUME NEW o \in SandboxObject
    PROVE  /\ Conditions(o) \in SandboxObject
           /\ Conditions(o).phase = o.phase
           /\ Conditions(o).owner = o.owner
BY DEF SandboxObject, Conditions

LEMMA NewObject ==
    ASSUME NEW w \in Users \cup {NoUser}
    PROVE  /\ [Unborn EXCEPT !.phase = "gone", !.owner = w] \in SandboxObject
           /\ [Unborn EXCEPT !.phase = "gone", !.owner = w].phase = "gone"
           /\ [Unborn EXCEPT !.phase = "gone", !.owner = w].owner = w
           /\ \A warm \in BOOLEAN :
                [Unborn EXCEPT !.phase = "live", !.owner = w,
                               !.pod = IF warm THEN "Up" ELSE "Starting",
                               !.ready = warm] \in SandboxObject
BY DEF SandboxObject, Modes, Unborn

\* A sandbox that exists keeps its owner, and one that has gone stays away.
Endures(s) ==
    sandbox[s].phase # "unborn" =>
        /\ sandbox'[s].phase # "unborn"
        /\ sandbox'[s].owner = sandbox[s].owner
        /\ sandbox'[s].phase = "live" => sandbox[s].phase = "live"

\* One sandbox is rewritten in place.
LEMMA RewriteEndures ==
    ASSUME KubeTypeOK, NEW s \in Sandboxes, NEW o \in SandboxObject,
           sandbox[s].phase = "live", o.phase \in {"live", "gone"}, o.owner = sandbox[s].owner,
           sandbox' = [sandbox EXCEPT ![s] = o], UNCHANGED <<claim, nextCronWake>>
    PROVE  KubeTypeOK' /\ \A x \in Sandboxes : Endures(x)
BY DEF KubeTypeOK, Endures

LEMMA PatchEndures ==
    ASSUME KubeTypeOK, NEW s \in Sandboxes, NEW m \in Modes, Live(s), setOperatingMode(s, m)
    PROVE  KubeTypeOK' /\ \A x \in Sandboxes : Endures(x)
<1>1. sandbox[s] \in SandboxObject
  BY DEF KubeTypeOK
<1> DEFINE o == [sandbox[s] EXCEPT !.mode = m]
<1>2. o \in SandboxObject /\ o.phase = "live" /\ o.owner = sandbox[s].owner
  BY <1>1, ModeObject DEF Live
<1>3. sandbox' = [sandbox EXCEPT ![s] = o] /\ UNCHANGED <<claim, nextCronWake>>
  BY DEF setOperatingMode
<1> QED BY <1>2, <1>3, RewriteEndures DEF Live

LEMMA ClusterEndures ==
    ASSUME KubeTypeOK, ClaimOwns, Cluster
    PROVE  /\ KubeTypeOK' /\ ClaimOwns'
           /\ \A x \in Sandboxes : Endures(x)
           /\ \A u \in Users : claim[u] # NoSandbox => claim'[u] = claim[u]
           /\ \A u \in Users : claim[u] = NoSandbox => claim'[u] # NoClaim
<1>a. ASSUME NEW s \in Sandboxes PROVE sandbox[s] \in SandboxObject
  BY DEF KubeTypeOK
<1>b. ASSUME UNCHANGED claim, \A x \in Sandboxes : Endures(x) PROVE ClaimOwns'
  BY <1>b DEF ClaimOwns, Endures
<1>c. ASSUME UNCHANGED claim
      PROVE  /\ \A u \in Users : claim[u] # NoSandbox => claim'[u] = claim[u]
             /\ \A u \in Users : claim[u] = NoSandbox => claim'[u] # NoClaim
  BY <1>c, NamesAssumption
<1>d. ASSUME UNCHANGED claim, KubeTypeOK', \A x \in Sandboxes : Endures(x)
      PROVE  /\ KubeTypeOK' /\ ClaimOwns'
             /\ \A x \in Sandboxes : Endures(x)
             /\ \A u \in Users : claim[u] # NoSandbox => claim'[u] = claim[u]
             /\ \A u \in Users : claim[u] = NoSandbox => claim'[u] # NoClaim
  BY <1>b, <1>c, <1>d
<1>1. CASE \E u \in Users, s \in Sandboxes : Adopt(u, s)
  <2>1. PICK u \in Users, s \in Sandboxes : Adopt(u, s)
    BY <1>1
  <2>2. PICK w \in BOOLEAN :
          sandbox' = [sandbox EXCEPT ![s] =
             [Unborn EXCEPT !.phase = "live", !.owner = u,
                            !.pod = IF w THEN "Up" ELSE "Starting", !.ready = w]]
    BY <2>1 DEF Adopt
  <2> DEFINE o == [Unborn EXCEPT !.phase = "live", !.owner = u,
                                 !.pod = IF w THEN "Up" ELSE "Starting", !.ready = w]
  <2>3. o \in SandboxObject
    BY NewObject
  <2>4. o.phase = "live" /\ o.owner = u
    BY DEF Unborn
  <2>5. /\ sandbox[s].phase = "unborn" /\ claim[u] = NoSandbox
        /\ claim' = [claim EXCEPT ![u] = s] /\ UNCHANGED nextCronWake
        /\ sandbox' = [sandbox EXCEPT ![s] = o]
    BY <2>1, <2>2 DEF Adopt
  <2> HIDE DEF o
  <2>6. KubeTypeOK' /\ \A x \in Sandboxes : Endures(x)
    BY <2>3, <2>5 DEF KubeTypeOK, Endures
  <2>7. ClaimOwns'
    BY <2>4, <2>5, <2>6 DEF ClaimOwns, KubeTypeOK, Endures
  <2>8. s # NoClaim
    BY NamesAssumption
  <2>9. ASSUME NEW x \in Users
        PROVE  /\ claim[x] # NoSandbox => claim'[x] = claim[x]
               /\ claim[x] = NoSandbox => claim'[x] # NoClaim
    BY <2>5, <2>8, NamesAssumption DEF KubeTypeOK
  <2> QED BY <2>6, <2>7, <2>9
<1>2. ASSUME NEW s \in Sandboxes,
             StartPod(s) \/ PodUp(s) \/ StopPod(s) \/ PodGone(s) \/ LosePod(s)
      PROVE  UNCHANGED claim /\ KubeTypeOK' /\ \A x \in Sandboxes : Endures(x)
  <2>1. PICK p \in {"Absent", "Starting", "Up", "Terminating"} : Live(s) /\ SetPod(s, p)
    BY <1>2 DEF StartPod, PodUp, StopPod, PodGone, LosePod
  <2> DEFINE o == [sandbox[s] EXCEPT !.pod = p]
  <2>2. o \in SandboxObject /\ o.phase = "live" /\ o.owner = sandbox[s].owner
    BY <1>a, <2>1, PodObject DEF Live
  <2>3. sandbox' = [sandbox EXCEPT ![s] = o] /\ UNCHANGED <<claim, nextCronWake>>
    BY <2>1 DEF SetPod
  <2> QED BY <2>1, <2>2, <2>3, RewriteEndures DEF Live
<1>3. ASSUME NEW s \in Sandboxes, UpdateStatus(s)
      PROVE  UNCHANGED claim /\ KubeTypeOK' /\ \A x \in Sandboxes : Endures(x)
  <2> DEFINE o == Conditions(sandbox[s])
  <2>1. o \in SandboxObject /\ o.phase = sandbox[s].phase /\ o.owner = sandbox[s].owner
    BY <1>a, ConditionsObject
  <2>2. sandbox' = [sandbox EXCEPT ![s] = o] /\ UNCHANGED <<claim, nextCronWake>> /\ Live(s)
    BY <1>3 DEF UpdateStatus
  <2> QED BY <2>1, <2>2, RewriteEndures DEF Live
<1>4. ASSUME NEW s \in Sandboxes, RemoveSandbox(s)
      PROVE  UNCHANGED claim /\ KubeTypeOK' /\ \A x \in Sandboxes : Endures(x)
  <2> DEFINE o == [Unborn EXCEPT !.phase = "gone", !.owner = sandbox[s].owner]
  <2>1. sandbox[s].owner \in Users \cup {NoUser}
    BY <1>a DEF SandboxObject
  <2>2. o \in SandboxObject /\ o.phase = "gone" /\ o.owner = sandbox[s].owner
    BY <2>1, NewObject
  <2>3. sandbox' = [sandbox EXCEPT ![s] = o] /\ UNCHANGED <<claim, nextCronWake>> /\ Live(s)
    BY <1>4 DEF RemoveSandbox
  <2> QED BY <2>2, <2>3, RewriteEndures DEF Live
<1> QED BY <1>1, <1>2, <1>3, <1>4, <1>d DEF Cluster, Reconcile
-----------------------------------------------------------------------------
(* The steps of a job. *)

LEMMA InitIInv == Init => IInv
<1> SUFFICES ASSUME Init PROVE IInv
  OBVIOUS
<1>1. Unborn \in SandboxObject
  BY DEF Unborn, SandboxObject, Modes
<1>2. KubeTypeOK
  BY <1>1 DEF Init, KubeInit, KubeTypeOK
<1>3. TypeOK
  BY <1>2 DEF Init, TypeOK
<1>4. KnowsJob /\ ClaimOwns /\ BoxOwned
  BY NamesAssumption DEF Init, KubeInit, KnowsJob, ClaimOwns, BoxOwned
<1>5. NoneCrosses /\ SameAgent /\ SecretKept /\ FilesKept
  BY DEF Init, NoneCrosses, SameAgent, SecretKept, FilesKept
<1> QED BY <1>3, <1>4, <1>5 DEF IInv

LEMMA StartJobPreserves ==
    ASSUME IInv, NEW c \in Calls, NEW u \in Users, NEW j \in Jobs, StartJob(c, u, j)
    PROVE  IInv'
<1> USE DEF IInv
<1>1. /\ step[c] = "idle" /\ claim[u] # NoClaim
      /\ job' = [job EXCEPT ![c] = j] /\ step' = [step EXCEPT ![c] = "store"]
      /\ subject' = [subject EXCEPT ![c] = u]
      /\ \A d \in Calls : d # c => box'[d] = box[d]
      /\ box'[c] = claim[u] \/ box'[c] = NoSandbox
      /\ UNCHANGED <<claim, sandbox, nextCronWake, secret, orphan, env, temp, exempt>>
  BY DEF StartJob, UserExists, TypeOK, kubeVars, stores
<1>2. alone' = [d \in Calls |-> IF d = c THEN \A o \in Calls : subject[o] # u
                               ELSE alone[d] /\ subject[d] # u]
  BY DEF StartJob
<1>3. box' \in [Calls -> Sandboxes \cup {NoSandbox}]
  <2>1. claim[u] \in Sandboxes \cup {NoSandbox}
    BY <1>1 DEF TypeOK, KubeTypeOK
  <2> QED BY <2>1 DEF StartJob, TypeOK
<1>4. TypeOK'
  BY <1>1, <1>2, <1>3 DEF TypeOK, KubeTypeOK
<1>5. KnowsJob'
  BY <1>1, <1>2 DEF KnowsJob, TypeOK
<1>6. ClaimOwns'
  BY <1>1 DEF ClaimOwns
<1>7. BoxOwned'
  BY <1>1, NamesAssumption DEF BoxOwned, ClaimOwns, TypeOK
<1>8. NoneCrosses'
  BY <1>1, <1>2 DEF NoneCrosses, TypeOK
<1>9. SameAgent'
  BY <1>1, <1>2, NamesAssumption DEF SameAgent, TypeOK
<1>10. SecretKept'
  BY <1>1, <1>2 DEF SecretKept, TypeOK, ItsSecret
<1>11. FilesKept'
  <2>1. step'[c] = "store"
    BY <1>1 DEF TypeOK
  <2>2. \A d \in Calls \ {c} : /\ step'[d] = step[d] /\ job'[d] = job[d] /\ box'[d] = box[d]
                              /\ alone'[d] => alone[d]
    BY <1>1, <1>2 DEF TypeOK
  <2>3. \A d \in Calls \ {c} : ItsLines(d)' = ItsLines(d) /\ Live(box[d])' = Live(box[d])
    BY <2>2, <1>1 DEF ItsLines, Live
  <2> QED BY <2>1, <2>2, <2>3, <1>1 DEF FilesKept
<1> QED BY <1>4, <1>5, <1>6, <1>7, <1>8, <1>9, <1>10, <1>11

\* A step that goes on in the same sandbox, or in none, and leaves the agents
\* alone disturbs only what is known of the three stores.
LEMMA ProceedPreserves ==
    ASSUME IInv, NEW c \in Calls, NEW next, step[c] # "idle", Proceed(c, next),
           next \in {"wake", "scrub", "append", "move", "exempt"},
           next \in {"wake", "append"} => job[c] \in Tokens,
           UNCHANGED kubeVars,
           box' = box \/ box' = [box EXCEPT ![c] = NoSandbox]
                      \/ (step[c] = "wake" /\ claim[subject[c]] \in Sandboxes
                          /\ box' = [box EXCEPT ![c] = claim[subject[c]]])
    PROVE  /\ KubeTypeOK'
           /\ job' = job /\ subject' = subject /\ alone' = alone
           /\ step' = [step EXCEPT ![c] = next]
           /\ step' \in [Calls -> {"idle", "store", "wake", "scrub", "append", "move", "exempt"}]
           /\ box' \in [Calls -> Sandboxes \cup {NoSandbox}]
           /\ KnowsJob' /\ ClaimOwns' /\ BoxOwned' /\ NoneCrosses' /\ SameAgent'
<1> USE DEF IInv
<1>1. /\ job' = job /\ subject' = subject /\ alone' = alone
      /\ step' = [step EXCEPT ![c] = next]
      /\ claim' = claim /\ sandbox' = sandbox /\ nextCronWake' = nextCronWake
  BY DEF Proceed, kubeVars
<1>2. /\ KubeTypeOK'
      /\ step' \in [Calls -> {"idle", "store", "wake", "scrub", "append", "move", "exempt"}]
      /\ box' \in [Calls -> Sandboxes \cup {NoSandbox}]
  BY <1>1 DEF TypeOK, KubeTypeOK
<1>3. KnowsJob'
  BY <1>1 DEF KnowsJob, TypeOK
<1>4. ClaimOwns'
  BY <1>1 DEF ClaimOwns
<1>5. BoxOwned'
  BY <1>1, NamesAssumption DEF BoxOwned, ClaimOwns, KnowsJob, TypeOK
<1>6. NoneCrosses'
  BY <1>1 DEF NoneCrosses
<1>7. SameAgent'
  BY <1>1, NamesAssumption DEF SameAgent, TypeOK
<1> QED BY <1>1, <1>2, <1>3, <1>4, <1>5, <1>6, <1>7

\* Writing to the Secret of its own user disturbs no other call on its own.
LEMMA StorePreserves ==
    ASSUME IInv, NEW c \in Calls, Store(c) \/ Unstore(c)
    PROVE  IInv'
<1> USE DEF IInv
<1> DEFINE next == IF job[c] = "remove" THEN IF box[c] = NoSandbox THEN "exempt" ELSE "scrub"
                   ELSE IF box[c] = NoSandbox THEN "wake" ELSE "scrub"
<1>1. /\ step[c] = "store" /\ Proceed(c, next) /\ UNCHANGED <<kubeVars, env, temp, exempt, box>>
      /\ secret' = [secret EXCEPT ![subject[c]] = ItsSecret(c)]
      /\ orphan' = [orphan EXCEPT ![subject[c]] = FALSE]
  BY TokensAssumption DEF Store, Unstore, ItsSecret
<1>2. next \in {"wake", "scrub", "exempt"} /\ (next = "exempt" => box[c] = NoSandbox)
  OBVIOUS
<1>3. /\ subject[c] \in Users /\ ItsSecret(c) \in Tokens \cup {NoToken}
      /\ next = "wake" => job[c] \in Tokens
  BY <1>1 DEF KnowsJob, ItsSecret, Jobs
<1> HIDE DEF next
<1>4. /\ KubeTypeOK'
      /\ job' = job /\ subject' = subject /\ alone' = alone
      /\ step' = [step EXCEPT ![c] = next]
      /\ step' \in [Calls -> {"idle", "store", "wake", "scrub", "append", "move", "exempt"}]
      /\ box' \in [Calls -> Sandboxes \cup {NoSandbox}]
      /\ KnowsJob' /\ ClaimOwns' /\ BoxOwned' /\ NoneCrosses' /\ SameAgent'
  BY <1>1, <1>2, <1>3, ProceedPreserves
<1>5. TypeOK'
  BY <1>1, <1>3, <1>4 DEF TypeOK
<1>6. SecretKept'
  <2> SUFFICES ASSUME NEW d \in Calls, alone[d], step'[d] # "idle", step'[d] # "store"
               PROVE  secret'[subject[d]] = ItsSecret(d) /\ ~orphan'[subject[d]]
    BY <1>4 DEF SecretKept, ItsSecret
  <2>1. CASE d = c
    BY <2>1, <1>1, <1>3 DEF TypeOK
  <2>2. CASE d # c
    <3>1. subject[d] # subject[c] /\ step[d] = step'[d]
      BY <2>2, <1>4 DEF NoneCrosses, TypeOK
    <3>2. secret[subject[d]] = ItsSecret(d) /\ ~orphan[subject[d]]
      BY <3>1 DEF SecretKept, TypeOK
    <3> QED BY <3>1, <3>2, <1>1, <1>3 DEF TypeOK
  <2> QED BY <2>1, <2>2
<1>7. FilesKept'
  BY <1>1, <1>2, <1>4, NamesAssumption DEF FilesKept, ItsLines, Live, TypeOK, kubeVars
<1> QED BY <1>4, <1>5, <1>6, <1>7

\* From here on a job writes to no Secret.
LEMMA SecretKeptOn ==
    ASSUME IInv, NEW c \in Calls, NEW next, Proceed(c, next),
           step[c] \in {"wake", "scrub", "append", "move", "exempt"},
           UNCHANGED <<secret, orphan>>
    PROVE  SecretKept'
BY DEF IInv, TypeOK, SecretKept, Proceed, ItsSecret

LEMMA WokenPreserves ==
    ASSUME IInv, NEW c \in Calls, Woken(c) \/ NoPodName(c)
    PROVE  IInv'
<1> USE DEF IInv
<1> DEFINE next == IF step[c] = "wake" THEN "scrub" ELSE "exempt"
<1>1. /\ step[c] \in {"wake", "scrub"} /\ Proceed(c, next)
      /\ UNCHANGED <<kubeVars, secret, orphan, env, temp, exempt>>
      /\ next = "exempt" => box' = [box EXCEPT ![c] = NoSandbox]
      /\ next \in {"scrub", "exempt"}
  BY DEF Woken, NoPodName, stores
<1>2. step[c] = "wake" => claim[subject[c]] \in Sandboxes /\ box' = [box EXCEPT ![c] = claim[subject[c]]]
  <2>1. ASSUME step[c] = "wake"
        PROVE  /\ subject[c] \in Users /\ claim[subject[c]] # NoClaim
               /\ claim[subject[c]] # NoSandbox
               /\ box' = [box EXCEPT ![c] = claim[subject[c]]]
    BY <2>1 DEF Woken, NoPodName, UserExists, ResolvedState, KnowsJob
  <2> QED BY <2>1 DEF TypeOK, KubeTypeOK
<1>3. step[c] # "wake" => next = "exempt"
  OBVIOUS
<1> HIDE DEF next
<1>4. /\ KubeTypeOK'
      /\ job' = job /\ subject' = subject /\ alone' = alone
      /\ step' = [step EXCEPT ![c] = next]
      /\ step' \in [Calls -> {"idle", "store", "wake", "scrub", "append", "move", "exempt"}]
      /\ box' \in [Calls -> Sandboxes \cup {NoSandbox}]
      /\ KnowsJob' /\ ClaimOwns' /\ BoxOwned' /\ NoneCrosses' /\ SameAgent'
  BY <1>1, <1>2, <1>3, ProceedPreserves
<1>5. TypeOK'
  BY <1>1, <1>4 DEF TypeOK
<1>6. SecretKept'
  BY <1>1, SecretKeptOn
<1>7. FilesKept'
  BY <1>1, <1>2, <1>3, <1>4, NamesAssumption DEF FilesKept, ItsLines, Live, TypeOK, kubeVars
<1> QED BY <1>4, <1>5, <1>6, <1>7

\* The script: another call that works in the same sandbox is for the same user.
LEMMA ScriptPreserves ==
    ASSUME IInv, NEW c \in Calls, Scrub(c) \/ AppendToken(c) \/ Move(c)
    PROVE  IInv'
<1> USE DEF IInv
<1> DEFINE next == IF step[c] = "move" THEN "exempt"
                   ELSE IF step[c] = "scrub" /\ job[c] # "remove" THEN "append" ELSE "move"
<1>1. /\ step[c] \in {"scrub", "append", "move"} /\ Proceed(c, next) /\ InPod(c)
      /\ UNCHANGED <<kubeVars, secret, orphan, exempt, box>>
  BY DEF Scrub, AfterScrub, AppendToken, Move
<1>2. next \in {"append", "move", "exempt"} /\ (next = "append" => job[c] \in Tokens)
  BY <1>1 DEF KnowsJob, Jobs
<1>3. /\ KubeTypeOK'
      /\ job' = job /\ subject' = subject /\ alone' = alone
      /\ step' = [step EXCEPT ![c] = next]
      /\ step' \in [Calls -> {"idle", "store", "wake", "scrub", "append", "move", "exempt"}]
      /\ box' \in [Calls -> Sandboxes \cup {NoSandbox}]
      /\ KnowsJob' /\ ClaimOwns' /\ BoxOwned' /\ NoneCrosses' /\ SameAgent'
  <2> HIDE DEF next
  <2> QED BY <1>1, <1>2, ProceedPreserves
<1>4. box[c] \in Sandboxes /\ job[c] \in Tokens \cup {"remove"} /\ subject[c] \in Users
  BY <1>1 DEF InPod, Live, KnowsJob, Jobs
<1>5. /\ env' \in [Sandboxes -> SUBSET Tokens]
      /\ temp' \in [Sandboxes -> (SUBSET Tokens) \cup {NoFile}]
      /\ \A s \in Sandboxes : s # box[c] => env'[s] = env[s] /\ temp'[s] = temp[s]
  <2>1. CASE Scrub(c)
    BY <2>1, <1>4 DEF Scrub, AfterScrub, TypeOK
  <2>2. CASE AppendToken(c)
    <3>1. job[c] \in Tokens
      BY <2>2 DEF AppendToken, KnowsJob
    <3> QED BY <2>2, <3>1, <1>4 DEF AppendToken, TypeOK
  <2>3. CASE Move(c)
    <3>1. temp[box[c]] # NoFile => temp[box[c]] \in SUBSET Tokens
      BY <1>4 DEF TypeOK
    <3>2. /\ env' = [env EXCEPT ![box[c]] = IF temp[box[c]] = NoFile THEN @ ELSE temp[box[c]]]
          /\ temp' = [temp EXCEPT ![box[c]] = NoFile]
      BY <2>3 DEF Move
    <3>3. env' \in [Sandboxes -> SUBSET Tokens]
      BY <3>1, <3>2, <1>4 DEF TypeOK
    <3> QED BY <3>2, <3>3, <1>4 DEF TypeOK
  <2> QED BY <2>1, <2>2, <2>3
<1>6. TypeOK'
  BY <1>1, <1>3, <1>5 DEF TypeOK
<1>7. SecretKept'
  BY <1>1, SecretKeptOn
<1>8. ASSUME NEW d \in Calls, d # c, alone[d], Live(box[d])
      PROVE  box[d] # box[c]
  BY <1>4, <1>8 DEF NoneCrosses, BoxOwned, Live
<1>9. ASSUME alone[c]
      PROVE  /\ next = "append" => temp'[box[c]] = {}
             /\ next = "move" => temp'[box[c]] = ItsLines(c)
             /\ next = "exempt" => env'[box[c]] = ItsLines(c)
  <2>1. ItsLines(c) # NoFile
    BY <1>4, TokensAssumption DEF ItsLines, NoFile
  <2>2. CASE Scrub(c)
    BY <2>2, <1>4 DEF Scrub, AfterScrub, TypeOK, ItsLines
  <2>3. CASE AppendToken(c)
    <3>1. job[c] \in Tokens /\ job[c] # "remove" /\ temp[box[c]] = {}
      BY <2>3, <1>9, <1>1, TokensAssumption DEF AppendToken, KnowsJob, FilesKept, InPod
    <3>2. temp'[box[c]] = {job[c]} /\ step[c] = "append"
      BY <2>3, <3>1, <1>4 DEF AppendToken, TypeOK, NoFile
    <3> QED BY <3>1, <3>2 DEF ItsLines
  <2>4. CASE Move(c)
    <3>1. temp[box[c]] = ItsLines(c) /\ step[c] = "move"
      BY <2>4, <1>9, <1>1 DEF Move, FilesKept, InPod
    <3>2. env'[box[c]] = ItsLines(c)
      BY <2>4, <2>1, <3>1, <1>4 DEF Move, TypeOK
    <3> QED BY <3>1, <3>2
  <2> QED BY <2>2, <2>3, <2>4
<1>10. FilesKept'
  <2> HIDE DEF next
  <2> SUFFICES ASSUME NEW d \in Calls, alone[d], Live(box[d])
               PROVE  /\ step'[d] = "append" => temp'[box[d]] = {}
                      /\ step'[d] = "move" => temp'[box[d]] = ItsLines(d)
                      /\ step'[d] = "exempt" => env'[box[d]] = ItsLines(d)
    BY <1>1, <1>3 DEF FilesKept, Live, ItsLines, kubeVars
  <2>1. CASE d = c
    BY <2>1, <1>3, <1>9 DEF TypeOK
  <2>2. CASE d # c
    <3>1. box[d] # box[c] /\ box[d] \in Sandboxes /\ step'[d] = step[d]
      BY <2>2, <1>3, <1>8 DEF TypeOK, Live
    <3> QED BY <3>1, <1>5 DEF FilesKept
  <2> QED BY <2>1, <2>2
<1> QED BY <1>3, <1>6, <1>7, <1>10

\* The end of a call, with the exemption of its user written or not.
LEMMA AnsweredPreserves ==
    ASSUME IInv, NEW c \in Calls, Answered(c),
           UNCHANGED <<kubeVars, secret, orphan, env, temp>>, exempt' \in [Users -> BOOLEAN]
    PROVE  IInv'
<1> USE DEF IInv
<1>1. /\ job' = [job EXCEPT ![c] = NoToken] /\ step' = [step EXCEPT ![c] = "idle"]
      /\ subject' = [subject EXCEPT ![c] = NoUser] /\ box' = [box EXCEPT ![c] = NoSandbox]
      /\ alone' = [alone EXCEPT ![c] = FALSE]
      /\ UNCHANGED <<claim, sandbox, nextCronWake, secret, orphan, env, temp>>
  BY DEF Answered, kubeVars
<1>2. TypeOK'
  BY <1>1 DEF TypeOK, KubeTypeOK
<1>3. KnowsJob'
  BY <1>1 DEF KnowsJob, TypeOK
<1>4. ClaimOwns' /\ BoxOwned'
  BY <1>1, NamesAssumption DEF ClaimOwns, BoxOwned, TypeOK
<1>5. NoneCrosses'
  BY <1>1, NamesAssumption DEF NoneCrosses, KnowsJob, TypeOK
<1>6. SameAgent'
  BY <1>1 DEF SameAgent, TypeOK
<1>7. SecretKept'
  BY <1>1 DEF SecretKept, ItsSecret, TypeOK
<1>8. FilesKept'
  <2>1. ~alone'[c]
    BY <1>1 DEF TypeOK
  <2>2. \A d \in Calls \ {c} : /\ step'[d] = step[d] /\ job'[d] = job[d] /\ box'[d] = box[d]
                              /\ alone'[d] = alone[d]
    BY <1>1 DEF TypeOK
  <2>3. \A d \in Calls \ {c} : ItsLines(d)' = ItsLines(d) /\ Live(box[d])' = Live(box[d])
    BY <2>2, <1>1 DEF ItsLines, Live
  <2> QED BY <2>1, <2>2, <2>3, <1>1 DEF FilesKept
<1> QED BY <1>2, <1>3, <1>4, <1>5, <1>6, <1>7, <1>8

LEMMA JobPreserves ==
    ASSUME IInv, NEW c \in Calls, JobStep(c)
    PROVE  IInv'
<1>1. CASE SetExempt(c)
  <2>1. exempt' \in [Users -> BOOLEAN]
    BY <1>1 DEF SetExempt, IInv, TypeOK
  <2> QED BY <1>1, <2>1, AnsweredPreserves DEF SetExempt
<1>2. CASE GiveUp(c)
  <2>1. exempt' \in [Users -> BOOLEAN] /\ UNCHANGED <<kubeVars, secret, orphan, env, temp>>
    BY <1>2 DEF GiveUp, stores, IInv, TypeOK
  <2> QED BY <1>2, <2>1, AnsweredPreserves DEF GiveUp
<1> QED BY <1>1, <1>2, StorePreserves, WokenPreserves, ScriptPreserves DEF JobStep

-----------------------------------------------------------------------------
(* The steps of the surroundings. *)

\* No step of a job, and no claim is deleted: sandboxes may go with their files.
LEMMA SurroundingsPreserve ==
    ASSUME IInv, UNCHANGED <<secret, orphan, exempt, jobVars, alone>>,
           KubeTypeOK', ClaimOwns', \A x \in Sandboxes : Endures(x),
           \A u \in Users : claim[u] # NoSandbox => claim'[u] = claim[u],
           \A u \in Users : claim[u] = NoSandbox => claim'[u] # NoClaim,
           env' \in [Sandboxes -> SUBSET Tokens],
           temp' \in [Sandboxes -> (SUBSET Tokens) \cup {NoFile}],
           \A s \in Sandboxes : sandbox'[s].phase = "live" => env'[s] = env[s] /\ temp'[s] = temp[s]
    PROVE  IInv'
<1> USE DEF IInv
<1>1. UNCHANGED <<job, step, subject, box, alone, secret, orphan, exempt>>
  BY DEF jobVars
<1>2. TypeOK'
  BY <1>1 DEF TypeOK
<1>3. KnowsJob' /\ NoneCrosses'
  BY <1>1 DEF KnowsJob, NoneCrosses
<1>4. BoxOwned'
  BY <1>1 DEF BoxOwned, Endures
<1>5. SameAgent'
  <2> SUFFICES ASSUME NEW c \in Calls, alone[c]
               PROVE  /\ claim'[subject[c]] # NoClaim
                      /\ box[c] \in Sandboxes => claim'[subject[c]] = box[c]
    BY <1>1 DEF SameAgent
  <2>1. subject[c] \in Users
    BY DEF KnowsJob
  <2> QED BY <2>1, NamesAssumption DEF SameAgent
<1>6. SecretKept'
  BY <1>1 DEF SecretKept, ItsSecret
<1>7. FilesKept'
  <2>1. ASSUME NEW c \in Calls, alone[c], box[c] \in Sandboxes,
               sandbox'[box[c]].phase = "live"
        PROVE  /\ step[c] = "append" => temp'[box[c]] = {}
               /\ step[c] = "move" => temp'[box[c]] = ItsLines(c)
               /\ step[c] = "exempt" => env'[box[c]] = ItsLines(c)
    <3>1. Live(box[c])
      BY <2>1 DEF BoxOwned, Endures, Live
    <3>2. env'[box[c]] = env[box[c]] /\ temp'[box[c]] = temp[box[c]]
      BY <2>1
    <3> QED BY <2>1, <3>1, <3>2 DEF FilesKept
  <2>2. \A c \in Calls : ItsLines(c)' = ItsLines(c)
    BY <1>1 DEF ItsLines
  <2>3. \A c \in Calls : Live(box[c])' => box[c] \in Sandboxes /\ sandbox'[box[c]].phase = "live"
    BY <1>1 DEF Live
  <2> QED BY <2>1, <2>2, <2>3, <1>1 DEF FilesKept
<1> QED BY <1>2, <1>3, <1>4, <1>5, <1>6, <1>7

LEMMA PatchPreserves ==
    ASSUME IInv, NEW s \in Sandboxes, Patch(s)
    PROVE  IInv'
<1>1. PICK m \in Modes : Live(s) /\ setOperatingMode(s, m) /\ UNCHANGED <<stores, jobVars, alone>>
  BY DEF Patch
<1>2. KubeTypeOK' /\ \A x \in Sandboxes : Endures(x)
  BY <1>1, PatchEndures DEF IInv, TypeOK
<1>3. claim' = claim /\ UNCHANGED <<secret, orphan, exempt, env, temp>>
  BY <1>1 DEF setOperatingMode, stores
<1>4. ClaimOwns'
  BY <1>2, <1>3 DEF IInv, ClaimOwns, Endures
<1>5. /\ env' \in [Sandboxes -> SUBSET Tokens]
      /\ temp' \in [Sandboxes -> (SUBSET Tokens) \cup {NoFile}]
  BY <1>3 DEF IInv, TypeOK
<1> QED BY <1>1, <1>2, <1>3, <1>4, <1>5, NamesAssumption, SurroundingsPreserve

LEMMA VolumesPreserves ==
    ASSUME IInv, Volumes
    PROVE  IInv'
<1>1. /\ KubeTypeOK' /\ ClaimOwns' /\ \A x \in Sandboxes : Endures(x)
      /\ \A u \in Users : claim[u] # NoSandbox => claim'[u] = claim[u]
      /\ \A u \in Users : claim[u] = NoSandbox => claim'[u] # NoClaim
  BY ClusterEndures DEF IInv, TypeOK, Volumes
<1>2. /\ env' \in [Sandboxes -> SUBSET Tokens]
      /\ temp' \in [Sandboxes -> (SUBSET Tokens) \cup {NoFile}]
      /\ \A s \in Sandboxes : sandbox'[s].phase = "live" => env'[s] = env[s] /\ temp'[s] = temp[s]
  <2>1. /\ env' = [s \in Sandboxes |-> IF sandbox'[s].phase = "gone" THEN {} ELSE env[s]]
        /\ temp' = [s \in Sandboxes |-> IF sandbox'[s].phase = "gone" THEN NoFile ELSE temp[s]]
    BY DEF Volumes
  <2>2. env \in [Sandboxes -> SUBSET Tokens] /\ temp \in [Sandboxes -> (SUBSET Tokens) \cup {NoFile}]
    BY DEF IInv, TypeOK
  <2>3. /\ env' \in [Sandboxes -> SUBSET Tokens]
        /\ temp' \in [Sandboxes -> (SUBSET Tokens) \cup {NoFile}]
    BY <2>1, <2>2
  <2>4. ASSUME NEW s \in Sandboxes, sandbox'[s].phase = "live"
        PROVE  env'[s] = env[s] /\ temp'[s] = temp[s]
    BY <2>1, <2>4
  <2> QED BY <2>3, <2>4
<1>3. UNCHANGED <<secret, orphan, exempt, jobVars, alone>>
  BY DEF Volumes
<1> QED BY <1>1, <1>2, <1>3, SurroundingsPreserve

LEMMA AnnotationsPreserves ==
    ASSUME IInv, NEW u \in Users, Annotations(u)
    PROVE  IInv'
<1> USE DEF IInv
<1>1. /\ \A x \in Users : x # u => claim'[x] = claim[x]
      /\ claim' \in [Users -> Sandboxes \cup {NoClaim, NoSandbox}]
      /\ claim'[u] \notin Sandboxes
      /\ nextCronWake' \in [Users -> CronTimes \cup {NoCron}]
      /\ sandbox' = sandbox
  BY NamesAssumption DEF Annotations, CreateClaim, DeleteClaim, TypeOK, KubeTypeOK
<1>2. /\ UNCHANGED <<job, step, subject, box, secret, env, temp>>
      /\ alone' = [c \in Calls |-> alone[c] /\ subject[c] # u]
      /\ exempt' = [exempt EXCEPT ![u] = FALSE]
      /\ orphan' = [orphan EXCEPT ![u] = secret[u] # NoToken]
  BY DEF Annotations, jobVars
<1>3. TypeOK'
  BY <1>1, <1>2 DEF TypeOK, KubeTypeOK
<1>4. KnowsJob' /\ NoneCrosses'
  BY <1>2 DEF KnowsJob, NoneCrosses, TypeOK
<1>5. ClaimOwns' /\ BoxOwned'
  BY <1>1, <1>2 DEF ClaimOwns, BoxOwned
<1>6. SameAgent'
  <2> SUFFICES ASSUME NEW c \in Calls, alone[c], subject[c] # u
               PROVE  /\ claim'[subject[c]] # NoClaim
                      /\ box[c] \in Sandboxes => claim'[subject[c]] = box[c]
    BY <1>2 DEF SameAgent
  <2>1. subject[c] \in Users
    BY DEF KnowsJob
  <2> QED BY <2>1, <1>1 DEF SameAgent
<1>7. SecretKept'
  BY <1>2 DEF SecretKept, ItsSecret, TypeOK, KnowsJob
<1>8. FilesKept'
  BY <1>1, <1>2 DEF FilesKept, ItsLines, Live
<1> QED BY <1>3, <1>4, <1>5, <1>6, <1>7, <1>8

LEMMA CollectPreserves ==
    ASSUME IInv, NEW u \in Users, CollectSecret(u)
    PROVE  IInv'
<1> USE DEF IInv
<1>1. /\ UNCHANGED <<claim, sandbox, nextCronWake, job, step, subject, box, env, temp, exempt, alone>>
      /\ secret' = [secret EXCEPT ![u] = NoToken] /\ orphan' = [orphan EXCEPT ![u] = FALSE]
      /\ orphan[u]
  BY DEF CollectSecret, kubeVars, jobVars
<1>2. TypeOK'
  BY <1>1 DEF TypeOK, KubeTypeOK
<1>3. KnowsJob' /\ ClaimOwns' /\ BoxOwned' /\ NoneCrosses' /\ SameAgent'
  BY <1>1 DEF KnowsJob, ClaimOwns, BoxOwned, NoneCrosses, SameAgent
<1>4. SecretKept'
  BY <1>1 DEF SecretKept, ItsSecret, TypeOK, KnowsJob
<1>5. FilesKept'
  BY <1>1 DEF FilesKept, ItsLines, Live
<1> QED BY <1>2, <1>3, <1>4, <1>5

LEMMA StutterPreserves == IInv /\ UNCHANGED vars => IInv'
BY DEF vars, kubeVars, stores, jobVars, IInv, TypeOK, KubeTypeOK, KnowsJob, ClaimOwns, BoxOwned,
       NoneCrosses, SameAgent, SecretKept, FilesKept, ItsSecret, ItsLines, Live

LEMMA NextPreserves == IInv /\ [Next]_vars => IInv'
BY StutterPreserves, JobPreserves, StartJobPreserves, PatchPreserves, VolumesPreserves,
   AnnotationsPreserves, CollectPreserves DEF Next

-----------------------------------------------------------------------------
(* The invariant of every behaviour: jobs, sandboxes, Secrets and files stay *)
(* in step as long as nothing crosses a call (inject.go:55-131).             *)
THEOREM Inductive == Spec => []IInv
BY InitIInv, NextPreserves, PTL DEF Spec

(* Every variable of SetToken and RemoveToken keeps its type, whatever call  *)
(* fails or crosses another (inject.go:55-131).                              *)
THEOREM TypeCorrectness == Spec => []TypeOK
BY Inductive, PTL DEF IInv

(* SetToken, retried after any number of failures, ends with its token in    *)
(* the Secret and alone in .env, and with the agent exempt, for any number   *)
(* of calls for other users beside it (inject.go:55).                        *)
THEOREM TokenInstalled == Spec => SetTokenInstalls
<1>1. ASSUME IInv, NEW c \in Calls, SetExempt(c), job[c] \in Tokens, alone[c], Live(box[c])
      PROVE  /\ secret[subject[c]] = job[c]
             /\ env[claim[subject[c]]] = {job[c]}
             /\ exempt'[subject[c]]
  <2> USE <1>1 DEF IInv
  <2>1. job[c] # "remove" /\ step[c] = "exempt" /\ claim[subject[c]] = box[c] /\ subject[c] \in Users
    BY TokensAssumption DEF SetExempt, SameAgent, KnowsJob, Live
  <2>2. secret[subject[c]] = job[c] /\ env[box[c]] = {job[c]}
    BY <2>1 DEF SecretKept, FilesKept, ItsSecret, ItsLines
  <2> QED BY <2>1, <2>2 DEF SetExempt, TypeOK
<1>2. IInv /\ [Next]_vars =>
        [\A c \in Calls :
           SetExempt(c) /\ job[c] \in Tokens /\ alone[c] /\ Live(box[c])
           => /\ secret[subject[c]] = job[c]
              /\ env[claim[subject[c]]] = {job[c]}
              /\ exempt'[subject[c]]]_vars
  BY <1>1
<1> QED BY <1>2, Inductive, PTL DEF Spec, SetTokenInstalls

(* RemoveToken, when it works in the pod, leaves no token in the Secret or   *)
(* in .env, whatever attempts failed before it (inject.go:103).              *)
THEOREM TokenRemoved == Spec => RemoveTokenCleans
<1>1. ASSUME IInv, NEW c \in Calls, SetExempt(c), job[c] = "remove", alone[c], Live(box[c])
      PROVE  /\ secret[subject[c]] = NoToken
             /\ env[claim[subject[c]]] = {}
             /\ ~exempt'[subject[c]]
  <2> USE <1>1 DEF IInv
  <2>1. step[c] = "exempt" /\ claim[subject[c]] = box[c] /\ subject[c] \in Users
    BY DEF SetExempt, SameAgent, KnowsJob, Live
  <2>2. secret[subject[c]] = NoToken /\ env[box[c]] = {}
    BY <2>1 DEF SecretKept, FilesKept, ItsSecret, ItsLines
  <2> QED BY <2>1, <2>2 DEF SetExempt, TypeOK
<1>2. IInv /\ [Next]_vars =>
        [\A c \in Calls :
           SetExempt(c) /\ job[c] = "remove" /\ alone[c] /\ Live(box[c])
           => /\ secret[subject[c]] = NoToken
              /\ env[claim[subject[c]]] = {}
              /\ ~exempt'[subject[c]]]_vars
  BY <1>1
<1> QED BY <1>2, Inductive, PTL DEF Spec, RemoveTokenCleans
=============================================================================
