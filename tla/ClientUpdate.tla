----------------------------- MODULE ClientUpdate -----------------------------
(***************************************************************************)
(* How an installed client keeps up with origin/main.  A tick (one at a    *)
(* time, by the tick lock) asks the throttle in updates.json and spawns a  *)
(* self-update; this, alone by the update lock, brings its clone up to     *)
(* date and runs the installer from it; prompts count down the notice in   *)
(* the same file, under no lock.  Commits are numbered as they are pushed, *)
(* and a time stamp is its age, which no longer grows at Interval.         *)
(***************************************************************************)
EXTENDS Integers

CONSTANTS
    Updaters,       \* self-update processes at once
    Renders,        \* prompts drawn at once
    Interval,       \* updateInterval, in slots of time
    NoticeRenders,  \* updateNoticeRenders
    LastCommit,     \* bound: the last commit that is ever pushed
    MaxFaults,      \* bound: processes and installers killed
    None

ASSUME UpdateAssumption ==
    /\ Interval \in Nat \ {0} /\ NoticeRenders \in Nat
    /\ LastCommit \in Nat /\ MaxFaults \in Nat
    /\ None \notin Updaters \cup Nat /\ None \notin [age: Nat, left: Nat]

VARIABLES
    remote,     \* the tip of the branch at the origin
    binary,     \* the commit embedded in the installed binary
    clone,      \* the managed clone: "none", "partial" when its creation was killed, "ready"
    origin,     \* origin/main in the clone
    tree,       \* what the clone has checked out
    state,      \* updates.json: the age of lastCheck, rendersLeft
    tick,       \* the tick: where it is and the state it read
    render,     \* each prompt: the state it read, None when it is done with it
    lock,       \* the update lock
    pc,         \* each self-update
    build,      \* BuildCommit of the process
    job,        \* the commit its installer builds
    read,       \* the state it read after the install
    orphan,     \* its installer runs on, although the process gave up or is dead
    since,      \* the age of the stamp of the last spawn
    overwritten, \* history: since the last stamp an older one was written over a newer
    faults

repo  == <<clone, origin, tree>>
selves == <<lock, pc, build, job, read, orphan>>
vars == <<remote, binary, repo, state, tick, render, selves, since, overwritten, faults>>

State  == [age: 0..Interval, left: 0..NoticeRenders]
Older(s) == IF s.age < Interval THEN [s EXCEPT !.age = @ + 1] ELSE s
Idle   == [at |-> "idle", state |-> None]

\* A state that was read is written back, over what the file holds by now.
PutBack(s) == overwritten' = (overwritten \/ s.age > state.age)

Goto(u, label) == pc' = [pc EXCEPT ![u] = label]

(***************************************************************************)
(* The tick: maybeSpawnUpdate.                                             *)
(***************************************************************************)
Due == tick.at = "idle" /\ state.age = Interval

\* Within the interval it goes on without; else the stamp is now.
Check ==
    /\ Due
    /\ tick' = [at |-> "stamp", state |-> [state EXCEPT !.age = 0]]
    /\ UNCHANGED <<remote, binary, repo, state, render, selves, since, overwritten, faults>>

\* Mutant: the stamp is only written with a successful update.
SkipStamp ==
    /\ tick.at = "stamp"
    /\ tick' = [tick EXCEPT !.at = "spawn"]
    /\ UNCHANGED <<remote, binary, repo, state, render, selves, since, overwritten, faults>>

Stamp ==
    /\ tick.at = "stamp"
    /\ state' = tick.state
    /\ overwritten' = FALSE
    /\ tick' = [tick EXCEPT !.at = "spawn"]
    /\ UNCHANGED <<remote, binary, repo, render, selves, since, faults>>

\* The child is the binary that is installed now.  The spawn may fail.
Spawn ==
    /\ tick.at = "spawn"
    /\ tick' = Idle
    /\ since' = tick.state.age
    /\ \/ \E u \in Updaters :
            /\ pc[u] = "idle"
            /\ Goto(u, "spawned")
            /\ build' = [build EXCEPT ![u] = binary]
            /\ UNCHANGED <<lock, job, read, orphan>>
       \/ UNCHANGED selves
    /\ UNCHANGED <<remote, binary, repo, state, render, overwritten, faults>>

(***************************************************************************)
(* The prompt: cmdRender counts the notice down.                           *)
(***************************************************************************)
\* Mutant: without a look at what is left.
ReadAnyNotice(r) ==
    /\ render[r] = None
    /\ render' = [render EXCEPT ![r] = state]
    /\ UNCHANGED <<remote, binary, repo, state, tick, selves, since, overwritten, faults>>

ReadNotice(r) ==
    /\ render[r] = None
    /\ state.left > 0
    /\ render' = [render EXCEPT ![r] = state]
    /\ UNCHANGED <<remote, binary, repo, state, tick, selves, since, overwritten, faults>>

CountDown(r) ==
    /\ render[r] # None
    /\ state' = [render[r] EXCEPT !.left = @ - 1]
    /\ PutBack(render[r])
    /\ render' = [render EXCEPT ![r] = None]
    /\ UNCHANGED <<remote, binary, repo, tick, selves, since, faults>>

(***************************************************************************)
(* SelfUpdate.                                                             *)
(***************************************************************************)

\* Any step that fails ends the process, without a word.  Its lock goes with it.
Quit(u) ==
    /\ Goto(u, "idle")
    /\ lock' = IF lock = u THEN None ELSE lock
    /\ build' = [build EXCEPT ![u] = 0]
    /\ job' = [job EXCEPT ![u] = None]
    /\ read' = [read EXCEPT ![u] = None]
    /\ orphan' = [orphan EXCEPT ![u] = FALSE]

\* Mutant: nobody takes the lock.
TakeNoLock(u) ==
    /\ pc[u] = "spawned"
    /\ Goto(u, "fetch")
    /\ UNCHANGED <<remote, binary, repo, state, tick, render, lock, build, job, read, orphan,
                   since, overwritten, faults>>

TakeLock(u) ==
    /\ pc[u] = "spawned"
    /\ IF lock = None
       THEN Goto(u, "fetch") /\ lock' = u /\ UNCHANGED <<build, job, read, orphan>>
       ELSE Quit(u)
    /\ UNCHANGED <<remote, binary, repo, state, tick, render, since, overwritten, faults>>

\* A fresh clone, or a fetch: origin/main is the tip.
Fetch(u) ==
    /\ pc[u] = "fetch"
    /\ clone # "partial"
    /\ clone' = "ready"
    /\ origin' = remote
    /\ tree' = IF clone = "none" THEN remote ELSE tree
    /\ Goto(u, "compare")
    /\ UNCHANGED <<remote, binary, state, tick, render, lock, build, job, read, orphan,
                   since, overwritten, faults>>

\* The network fails, or there is no origin/main in a clone that was left half-made.
FailFetch(u) ==
    /\ pc[u] = "fetch"
    /\ Quit(u)
    /\ UNCHANGED <<remote, binary, repo, state, tick, render, since, overwritten, faults>>

\* The clone takes more than gitTimeout, and git is killed.
KillClone(u) ==
    /\ pc[u] = "fetch" /\ clone = "none"
    /\ faults < MaxFaults
    /\ faults' = faults + 1
    /\ clone' = "partial"
    /\ Quit(u)
    /\ UNCHANGED <<remote, binary, origin, tree, state, tick, render, since, overwritten>>

\* Mutant: the tip is compared with what the clone has checked out.
CompareWithClone(u) ==
    /\ pc[u] = "compare"
    /\ IF origin = tree
       THEN Quit(u) /\ UNCHANGED tree
       ELSE Goto(u, "install") /\ tree' = origin /\ UNCHANGED <<lock, build, job, read, orphan>>
    /\ UNCHANGED <<remote, binary, clone, origin, state, tick, render, since, overwritten, faults>>

\* Already current, or the clone is moved to the tip and the installer started.
Compare(u) ==
    /\ pc[u] = "compare"
    /\ IF origin = build[u]
       THEN Quit(u) /\ UNCHANGED tree
       ELSE Goto(u, "install") /\ tree' = origin /\ UNCHANGED <<lock, build, job, read, orphan>>
    /\ UNCHANGED <<remote, binary, clone, origin, state, tick, render, since, overwritten, faults>>

\* install.sh asks the clone which commit it builds,
Capture(u) ==
    /\ pc[u] = "install"
    /\ job' = [job EXCEPT ![u] = tree]
    /\ Goto(u, "build")
    /\ UNCHANGED <<remote, binary, repo, state, tick, render, lock, build, read, orphan,
                   since, overwritten, faults>>

\* and puts the binary in place.
Build(u) ==
    /\ pc[u] = "build"
    /\ binary' = job[u]
    /\ Goto(u, "installed")
    /\ UNCHANGED <<remote, repo, state, tick, render, lock, build, job, read, orphan,
                   since, overwritten, faults>>

\* The build fails, or what the installer does after it.
FailInstall(u) ==
    /\ pc[u] \in {"build", "installed"}
    /\ Quit(u)
    /\ UNCHANGED <<remote, binary, repo, state, tick, render, since, overwritten, faults>>

\* The process is killed, or gives the installer up after five minutes; what the
\* installer has started runs on.
Abandon(u) ==
    /\ pc[u] \in {"install", "build"} /\ ~orphan[u]
    /\ faults < MaxFaults
    /\ faults' = faults + 1
    /\ orphan' = [orphan EXCEPT ![u] = TRUE]
    /\ lock' = IF lock = u THEN None ELSE lock
    /\ UNCHANGED <<remote, binary, repo, state, tick, render, pc, build, job, read, since,
                   overwritten>>

\* The notice: the state is read and written whole.
ReadState(u) ==
    /\ pc[u] = "installed"
    /\ IF orphan[u]
       THEN Quit(u)
       ELSE /\ Goto(u, "record")
            /\ read' = [read EXCEPT ![u] = state]
            /\ UNCHANGED <<lock, build, job, orphan>>
    /\ UNCHANGED <<remote, binary, repo, state, tick, render, since, overwritten, faults>>

Record(u) ==
    /\ pc[u] = "record"
    /\ state' = [read[u] EXCEPT !.left = NoticeRenders]
    /\ PutBack(read[u])
    /\ Quit(u)
    /\ UNCHANGED <<remote, binary, repo, tick, render, since, faults>>

(***************************************************************************)
(* The world.                                                              *)
(***************************************************************************)
Push ==
    /\ remote < LastCommit
    /\ remote' = remote + 1
    /\ UNCHANGED <<binary, repo, state, tick, render, selves, since, overwritten, faults>>

\* Every stamp ages, those in memory included.
Elapse ==
    /\ state' = Older(state)
    /\ tick' = IF tick.state = None THEN tick ELSE [tick EXCEPT !.state = Older(@)]
    /\ render' = [r \in Renders |-> IF render[r] = None THEN None ELSE Older(render[r])]
    /\ read' = [u \in Updaters |-> IF read[u] = None THEN None ELSE Older(read[u])]
    /\ since' = IF since < Interval THEN since + 1 ELSE since
    /\ UNCHANGED <<remote, binary, repo, lock, pc, build, job, orphan, overwritten, faults>>

(***************************************************************************)
(* The specification.                                                      *)
(***************************************************************************)

\* A new install: no clone, no updates.json.
Init ==
    /\ remote = 0 /\ binary = 0
    /\ clone = "none" /\ origin = 0 /\ tree = 0
    /\ state = [age |-> Interval, left |-> 0]
    /\ tick = Idle
    /\ render = [r \in Renders |-> None]
    /\ lock = None
    /\ pc = [u \in Updaters |-> "idle"]
    /\ build = [u \in Updaters |-> 0]
    /\ job = [u \in Updaters |-> None]
    /\ read = [u \in Updaters |-> None]
    /\ orphan = [u \in Updaters |-> FALSE]
    /\ since = Interval
    /\ overwritten = FALSE
    /\ faults = 0

TickStep == Check \/ Stamp \/ Spawn

Run(u) ==
    \/ TakeLock(u) \/ FailFetch(u) \/ Compare(u) \/ Capture(u)
    \/ FailInstall(u) \/ ReadState(u) \/ Record(u)

Next ==
    \/ TickStep \/ Push \/ Elapse
    \/ \E r \in Renders : ReadNotice(r) \/ CountDown(r)
    \/ \E u \in Updaters : Run(u) \/ Fetch(u) \/ Build(u) \/ KillClone(u) \/ Abandon(u)

Spec == Init /\ [][Next]_vars

\* Prompts keep spawning ticks, time passes, a self-update and its installer run on,
\* and spawns, fetches and builds that are tried for ever succeed at times.
FairSpec ==
    /\ Spec
    /\ WF_vars(TickStep) /\ WF_vars(Elapse)
    /\ SF_vars(Spawn /\ \E u \in Updaters : pc[u] = "idle" /\ pc'[u] = "spawned")
    /\ \A u \in Updaters : WF_vars(Run(u)) /\ SF_vars(Fetch(u)) /\ SF_vars(Build(u))

(***************************************************************************)
(* Properties.                                                             *)
(***************************************************************************)

\* The types of the state.  The notice is never counted below zero
\* (main.go:136-140); what is built is never ahead of what was pushed,
\* nor the clone's tree of its origin/main.
TypeOK ==
    /\ remote \in 0..LastCommit /\ binary \in 0..remote
    /\ clone \in {"none", "partial", "ready"}
    /\ origin \in 0..remote /\ tree \in 0..origin
    /\ state \in State
    /\ tick \in [at: {"idle", "stamp", "spawn"}, state: State \cup {None}]
    /\ render \in [Renders -> State \cup {None}]
    /\ lock \in Updaters \cup {None}
    /\ pc \in [Updaters -> {"idle", "spawned", "fetch", "compare", "install", "build",
                            "installed", "record"}]
    /\ build \in [Updaters -> 0..remote]
    /\ job \in [Updaters -> 0..remote \cup {None}]
    /\ read \in [Updaters -> State \cup {None}]
    /\ orphan \in [Updaters -> BOOLEAN]
    /\ since \in 0..Interval /\ overwritten \in BOOLEAN /\ faults \in 0..MaxFaults

\* Once nothing is pushed any more, the installed binary becomes the tip and stays it,
\* although fetches and installs fail, processes are killed and their installers run
\* on (update.go:115, "keep the old (working) binary, retry next interval").  A clone
\* that was killed while it was made is never made again, and is the exception.
CatchesUp == [](clone # "partial") => <>[](binary = remote)

\* The binary never goes back to an older commit, but by an installer that runs on
\* after its self-update gave it up (update.go:60-62, "only one runs at a time").
NeverBackwards == [][binary' < binary => \E u \in Updaters : orphan[u]]_vars

\* Prompts, ticks and self-updates read, change and write updates.json under no common
\* lock; an update is found due within the interval of the last spawn only if a prompt
\* or a self-update has put an older stamp back meanwhile, and never because updates
\* fail (update.go:39-41, "so a failing update can't busy-loop").
FailingUpdateCannotSpin == [][Due /\ tick'.at = "stamp" /\ ~overwritten => since = Interval]_vars
===============================================================================
