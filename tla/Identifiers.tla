---------------------------- MODULE Identifiers ----------------------------
(* Issue keys of projects and identifiers of tasks, such as API-12              *)
(* (resource/base.service.ts, project-flow.service.ts, task.service.ts).  A     *)
(* task takes the key of its project and the next number of its counter, and    *)
(* leaves an alias behind when it moves to another project.  The key is read,   *)
(* and the existence of tasks checked, before the writes that rely on it.       *)
EXTENDS Naturals, FiniteSets

CONSTANTS
    Projects, Keys,
    Tasks,
    Namers,     \* bound: requests at once
    MaxNumber,  \* bound: tasks a project numbers
    Unkeyed     \* no key, no project, no identifier

VARIABLES
    key,      \* issue key of each project, Unkeyed before it exists
    counter,  \* projectTaskCounters: the next number
    stage,    \* rows of tasks: absent, live or trashed
    home,     \* their project
    ident,    \* their identifier
    alias,    \* taskIdentifierAliases: pairs <<identifier, task>>
    naming,   \* progress of each request
    given,    \* pairs <<identifier, task>> that were ever committed
    changed   \* keys a project gave up although tasks were named after them

identifierVars == <<key, counter, stage, home, ident, alias, naming, given, changed>>

Identifier == Keys \X (1 .. MaxNumber)

ASSUME NumberAssumption == MaxNumber \in Nat
ASSUME UnkeyedAssumption == Unkeyed \notin Keys \cup Projects \cup Identifier

NoNaming == [pc |-> "idle"]
Naming == [pc : {"create", "move"}, task : Tasks, project : Projects, key : Keys, stale : BOOLEAN]
            \cup [pc : {"rename"}, project : Projects, to : Keys, stale : BOOLEAN]

IdentifierTypeOK ==
    /\ key \in [Projects -> Keys \cup {Unkeyed}]
    /\ counter \in [Projects -> 1 .. MaxNumber + 1]
    /\ stage \in [Tasks -> {"absent", "live", "trashed"}]
    /\ home \in [Tasks -> Projects \cup {Unkeyed}]
    /\ ident \in [Tasks -> Identifier \cup {Unkeyed}]
    /\ alias \subseteq Identifier \X Tasks
    /\ naming \in [Namers -> Naming \cup {NoNaming}]
    /\ given \subseteq Identifier \X Tasks
    /\ changed \subseteq Keys

IdentifierInit ==
    /\ key = [p \in Projects |-> Unkeyed]
    /\ counter = [p \in Projects |-> 1]
    /\ stage = [t \in Tasks |-> "absent"]
    /\ home = [t \in Tasks |-> Unkeyed]
    /\ ident = [t \in Tasks |-> Unkeyed]
    /\ alias = {} /\ given = {} /\ changed = {}
    /\ naming = [r \in Namers |-> NoNaming]

------------------------------------------------------------------------------
tasksKeep == <<counter, stage, home, ident, alias, given>>

KeyFree(k) == \A p \in Projects : key[p] # k
TasksOf(p) == {t \in Tasks : home[t] = p}
Taken(i) == \E t \in Tasks : ident[t] = i
Outrun(m, S) == [r \in Namers |-> IF r \in S THEN [m[r] EXCEPT !.stale = TRUE] ELSE m[r]]
About(t) == {r \in Namers : naming[r].pc \in {"create", "move"} /\ naming[r].task = t}
Renaming(p) == {r \in Namers : naming[r].pc = "rename" /\ naming[r].project = p}
Drop(m, r) == [m EXCEPT ![r] = NoNaming]

(* createProject: the key is unique in the workspace.                           *)
CreateProject(p, k) ==
    /\ key[p] = Unkeyed /\ KeyFree(k)
    /\ key' = [key EXCEPT ![p] = k]
    /\ UNCHANGED <<tasksKeep, naming, changed>>

(* updateProject: it may take another key as long as it has no task, one in the *)
(* trash included; the write looks at the project's version alone.  Tasks that  *)
(* moved away keep the old key in their aliases.                                *)
RenameRead(r, p, k) ==
    /\ naming[r] = NoNaming
    /\ key[p] # Unkeyed /\ TasksOf(p) = {} /\ KeyFree(k)
    /\ naming' = [naming EXCEPT ![r] = [pc |-> "rename", project |-> p, to |-> k, stale |-> FALSE]]
    /\ UNCHANGED <<tasksKeep, key, changed>>

RenameWrite(r) ==
    LET p == naming[r].project IN
    /\ naming[r].pc = "rename"
    /\ ~naming[r].stale /\ KeyFree(naming[r].to)
    /\ key' = [key EXCEPT ![p] = naming[r].to]
    /\ naming' = Outrun(Drop(naming, r), Renaming(p) \ {r})
    /\ changed' = IF \E g \in given : g[1][1] = key[p] THEN changed \cup {key[p]} ELSE changed
    /\ UNCHANGED tasksKeep

(* allocateTaskIdentifier reads the key of the project, for a task createTask   *)
(* adds or updateTask moves to another project.                                 *)
CreateRead(r, t, p) ==
    /\ naming[r] = NoNaming
    /\ stage[t] = "absent" /\ About(t) = {} /\ key[p] # Unkeyed
    /\ naming' = [naming EXCEPT ![r] =
                     [pc |-> "create", task |-> t, project |-> p, key |-> key[p], stale |-> FALSE]]
    /\ UNCHANGED <<tasksKeep, key, changed>>

MoveRead(r, t, p) ==
    /\ naming[r] = NoNaming
    /\ stage[t] = "live" /\ home[t] # p /\ key[p] # Unkeyed
    /\ naming' = [naming EXCEPT ![r] =
                     [pc |-> "move", task |-> t, project |-> p, key |-> key[p], stale |-> FALSE]]
    /\ UNCHANGED <<tasksKeep, key, changed>>

(* The counter, the row and, for a moved task, the alias, in one transaction.   *)
AliasesNone(t) == alias  \* mutant: a moved task leaves no alias
Aliases(t) == IF stage[t] = "live" THEN alias \cup {<<ident[t], t>>} ELSE alias

Name(r) ==
    LET t == naming[r].task  p == naming[r].project  i == <<naming[r].key, counter[p]>> IN
    /\ naming[r].pc \in {"create", "move"}
    /\ ~naming[r].stale
    /\ counter[p] <= MaxNumber
    /\ ~Taken(i)
    /\ naming[r].pc = "move" => \A u \in Tasks : <<ident[t], u>> \notin alias
    /\ counter' = [counter EXCEPT ![p] = @ + 1]
    /\ alias' = Aliases(t)
    /\ stage' = [stage EXCEPT ![t] = "live"]
    /\ home' = [home EXCEPT ![t] = p]
    /\ ident' = [ident EXCEPT ![t] = i]
    /\ given' = given \cup {<<i, t>>}
    /\ naming' = Outrun(Drop(naming, r), About(t) \ {r})
    /\ changed' = IF key[p] # naming[r].key THEN changed \cup {naming[r].key} ELSE changed
    /\ UNCHANGED key

(* A stale version, a key or an identifier already used, or another failure:    *)
(* the transaction is rolled back, the counter with it.                         *)
FailNaming(r) ==
    /\ naming[r] # NoNaming
    /\ naming' = Drop(naming, r)
    /\ UNCHANGED <<tasksKeep, key, changed>>

(* softDelete and restore                                                       *)
TrashOrRestore(t) ==
    /\ stage[t] # "absent"
    /\ stage' = [stage EXCEPT ![t] = IF @ = "live" THEN "trashed" ELSE "live"]
    /\ naming' = Outrun(naming, About(t))
    /\ UNCHANGED <<key, counter, home, ident, alias, given, changed>>

IdentifierNext ==
    \/ \E p \in Projects, k \in Keys :
          CreateProject(p, k) \/ \E r \in Namers : RenameRead(r, p, k)
    \/ \E r \in Namers :
          \/ \E t \in Tasks, p \in Projects : CreateRead(r, t, p) \/ MoveRead(r, t, p)
          \/ RenameWrite(r) \/ Name(r) \/ FailNaming(r)
    \/ \E t \in Tasks : TrashOrRestore(t)

IdentifierSpec == IdentifierInit /\ [][IdentifierNext]_identifierVars

------------------------------------------------------------------------------
(* task(): the live task that has the identifier, or else the one it is an      *)
(* alias of.                                                                    *)
LiveTasks == {t \in Tasks : stage[t] = "live"}
Direct(i) == {t \in LiveTasks : ident[t] = i}
Resolve(i) == IF Direct(i) # {} THEN Direct(i) ELSE {t \in LiveTasks : <<i, t>> \in alias}

(* Every identifier a task was ever given finds that task, and no other, as     *)
(* long as the task is live, through moves between projects and renamed         *)
(* projects; unless a project gave up the identifier's key after a task was     *)
(* named after it, while its first one was being created or when all of them    *)
(* had moved away, and so left the key to another project.                      *)
IdentifierResolves ==
    \A g \in given : LET i == g[1]  t == g[2] IN
        stage[t] = "live" /\ i[1] \notin changed => Resolve(i) = {t}
=============================================================================
