--------------------------- MODULE ClientUpdateProofs ---------------------------
(***************************************************************************)
(* Proofs about ClientUpdate, for any number of self-updates and prompts,  *)
(* any interval, notice and bounds.                                        *)
(***************************************************************************)
EXTENDS ClientUpdate, TLAPS

(***************************************************************************)
(* The inductive invariant: a self-update that was not given up holds the  *)
(* lock and builds origin/main, behind which nothing that was built or     *)
(* will be is ahead; what a process has read is there; and a stamp is as   *)
(* young as all that others have read, so that the file has the stamp of   *)
(* the last spawn until one of these puts an older one back.               *)
(***************************************************************************)
Locked == {"fetch", "compare", "install", "build", "installed", "record"}

LockIsHeld ==
    \A u \in Updaters :
        /\ pc[u] \in Locked /\ ~orphan[u] => lock = u
        /\ orphan[u] => pc[u] \in {"install", "build", "installed"}

NothingAhead ==
    /\ binary <= origin
    /\ \A u \in Updaters : job[u] # None => job[u] <= origin

BuildsOrigin ==
    \A u \in Updaters : ~orphan[u] =>
        /\ pc[u] = "install" => tree = origin
        /\ pc[u] = "build" => job[u] = origin

HasRead ==
    /\ tick.at # "idle" => tick.state # None
    /\ \A r \in Renders : render[r] # None => render[r].left > 0
    /\ \A u \in Updaters : /\ pc[u] \in {"build", "installed"} => job[u] # None
                           /\ pc[u] = "record" => read[u] # None

\* Nobody has read a stamp that is younger.
ReadsFrom(age) ==
    /\ \A r \in Renders : render[r] # None => render[r].age >= age
    /\ \A u \in Updaters : read[u] # None => read[u].age >= age

OneStamp ==
    /\ tick.at = "stamp" => state.age >= tick.state.age /\ ReadsFrom(tick.state.age)
    /\ tick.at # "stamp" /\ ~overwritten =>
        /\ state.age = IF tick.at = "idle" THEN since ELSE tick.state.age
        /\ ReadsFrom(state.age)

Inv == TypeOK /\ LockIsHeld /\ NothingAhead /\ BuildsOrigin /\ HasRead /\ OneStamp

Labels == {"idle", "spawned", "fetch", "compare", "install", "build", "installed", "record"}

(***************************************************************************)
(* Facts about the state of updates.json.                                  *)
(***************************************************************************)
LEMMA NoStateIsNone == \A s \in State : s # None
  BY UpdateAssumption DEF State

LEMMA OlderIsState ==
    ASSUME NEW s \in State
    PROVE  /\ Older(s) \in State /\ Older(s).left = s.left
           /\ Older(s).age = IF s.age < Interval THEN s.age + 1 ELSE s.age
  BY UpdateAssumption DEF Older, State

\* Others may forget what they read, and nobody reads or writes anything else.
LEMMA SameStamp ==
    ASSUME OneStamp, UNCHANGED <<state, tick, since, overwritten>>,
           \A r \in Renders : render'[r] = None \/ render'[r] = render[r],
           \A u \in Updaters : read'[u] = None \/ read'[u] = read[u]
    PROVE  OneStamp'
<1>1. \A age : ReadsFrom(age) => ReadsFrom(age)'
  BY DEF ReadsFrom
<1>. QED BY <1>1 DEF OneStamp, ReadsFrom

\* Who puts back a stamp that is not older puts back the same.
LEMMA PutBackStamp ==
    ASSUME TypeOK, HasRead, OneStamp, NEW s \in State, PutBack(s),
           (\E r \in Renders : render[r] = s) \/ (\E u \in Updaters : read[u] = s),
           state' \in State, state'.age = s.age, UNCHANGED <<tick, since>>,
           \A r \in Renders : render'[r] = None \/ render'[r] = render[r],
           \A u \in Updaters : read'[u] = None \/ read'[u] = read[u]
    PROVE  OneStamp'
<1>1. \A age : ReadsFrom(age) => s.age >= age
  BY NoStateIsNone DEF ReadsFrom
<1>2. s.age \in Int /\ state.age \in Int /\ state'.age \in Int
  BY DEF TypeOK, State
<1>3. CASE tick.at = "stamp"
  BY <1>1, <1>2, <1>3 DEF OneStamp, ReadsFrom
<1>4. CASE tick.at # "stamp"
  <2>. SUFFICES ASSUME ~overwritten'
                PROVE  OneStamp'
    BY <1>4 DEF OneStamp
  <2>1. ~overwritten /\ ~(s.age > state.age)
    BY DEF PutBack, TypeOK
  <2>2. state.age <= s.age
    BY <1>1, <1>4, <2>1 DEF OneStamp
  <2>3. state'.age = state.age
    BY <1>2, <2>1, <2>2
  <2>. QED BY <1>4, <2>1, <2>3 DEF OneStamp, ReadsFrom
<1>. QED BY <1>3, <1>4

LEMMA InitInv == Init => Inv
<1>. SUFFICES ASSUME Init PROVE Inv
  OBVIOUS
<1>. USE UpdateAssumption DEF Init, Idle
<1>1. TypeOK
  <2>1. state \in State /\ tick \in [at: {"idle", "stamp", "spawn"}, state: State \cup {None}]
    BY DEF State
  <2>2. orphan \in [Updaters -> BOOLEAN] /\ overwritten \in BOOLEAN
    OBVIOUS
  <2>. QED BY <2>1, <2>2 DEF TypeOK
<1>2. LockIsHeld /\ NothingAhead /\ BuildsOrigin /\ HasRead
  BY DEF LockIsHeld, Locked, NothingAhead, BuildsOrigin, HasRead
<1>3. OneStamp
  BY DEF OneStamp, ReadsFrom
<1>. QED BY <1>1, <1>2, <1>3 DEF Inv

(***************************************************************************)
(* The tick and the prompt.                                                *)
(***************************************************************************)
LEMMA CheckStep == ASSUME Inv, Check PROVE Inv'
<1>. USE UpdateAssumption DEF Inv, Check, Due, repo, selves
<1>1. [state EXCEPT !.age = 0] \in State
  BY DEF TypeOK, State
<1>2. tick' = [at |-> "stamp", state |-> [state EXCEPT !.age = 0]]
  OBVIOUS
<1>3. TypeOK'
  <2>1. tick' \in [at: {"idle", "stamp", "spawn"}, state: State \cup {None}]
    BY <1>1, <1>2
  <2>. QED BY <2>1 DEF TypeOK
<1>4. LockIsHeld' /\ NothingAhead' /\ BuildsOrigin'
  BY DEF LockIsHeld, NothingAhead, BuildsOrigin
<1>5. HasRead'
  BY <1>1, <1>2, NoStateIsNone DEF HasRead
<1>6. OneStamp'
  BY <1>2 DEF OneStamp, ReadsFrom, TypeOK, State
<1>. QED BY <1>3, <1>4, <1>5, <1>6

LEMMA StampStep == ASSUME Inv, Stamp PROVE Inv'
<1>. USE UpdateAssumption DEF Inv, Stamp, repo, selves
<1>1. tick.state \in State
  BY DEF TypeOK, HasRead
<1>2. tick'.at = "spawn" /\ tick'.state = tick.state
      /\ tick' \in [at: {"idle", "stamp", "spawn"}, state: State \cup {None}]
  BY DEF TypeOK
<1>3. TypeOK'
  BY <1>1, <1>2 DEF TypeOK
<1>4. LockIsHeld' /\ NothingAhead' /\ BuildsOrigin'
  BY DEF LockIsHeld, NothingAhead, BuildsOrigin
<1>5. HasRead'
  BY <1>1, <1>2, NoStateIsNone DEF HasRead
<1>6. OneStamp'
  <2>1. state' = tick.state /\ ReadsFrom(tick.state.age)
    BY DEF OneStamp
  <2>. QED BY <1>2, <2>1 DEF OneStamp, ReadsFrom
<1>. QED BY <1>3, <1>4, <1>5, <1>6

LEMMA SpawnStep == ASSUME Inv, Spawn PROVE Inv'
<1>. USE UpdateAssumption DEF Inv, Spawn, repo
<1>1. tick.state \in State
  BY DEF TypeOK, HasRead
<1>2. /\ tick' = Idle /\ since' = tick.state.age
      /\ UNCHANGED <<remote, binary, repo, state, render, overwritten, faults, lock, job, read, orphan>>
  BY DEF selves
<1>3. \/ UNCHANGED <<pc, build>>
      \/ \E u \in Updaters : /\ pc[u] = "idle"
                             /\ pc' = [pc EXCEPT ![u] = "spawned"]
                             /\ build' = [build EXCEPT ![u] = binary]
  BY DEF Goto, selves
<1>4. /\ pc' \in [Updaters -> Labels] /\ build' \in [Updaters -> 0..remote]
      /\ \A u \in Updaters : pc'[u] = pc[u] \/ (pc[u] = "idle" /\ pc'[u] = "spawned")
  BY <1>3 DEF TypeOK, Labels
<1>5. TypeOK'
  <2>1. tick' \in [at: {"idle", "stamp", "spawn"}, state: State \cup {None}] /\ since' \in 0..Interval
    BY <1>1, <1>2 DEF Idle, State
  <2>. QED BY <1>2, <1>4, <2>1 DEF TypeOK, Labels
<1>6. LockIsHeld' /\ NothingAhead' /\ BuildsOrigin'
  BY <1>2, <1>4 DEF LockIsHeld, Locked, NothingAhead, BuildsOrigin
<1>7. HasRead'
  BY <1>2, <1>4 DEF HasRead, Idle
<1>8. OneStamp'
  BY <1>2 DEF OneStamp, ReadsFrom, Idle
<1>. QED BY <1>5, <1>6, <1>7, <1>8

LEMMA ReadNoticeStep == ASSUME Inv, NEW r \in Renders, ReadNotice(r) PROVE Inv'
<1>. USE DEF Inv, ReadNotice, repo, selves
<1>1. TypeOK'
  BY DEF TypeOK
<1>2. LockIsHeld' /\ NothingAhead' /\ BuildsOrigin'
  BY DEF LockIsHeld, NothingAhead, BuildsOrigin
<1>3. HasRead'
  BY DEF HasRead, TypeOK
<1>4. OneStamp'
  <2>1. \A age : ReadsFrom(age) /\ state.age >= age => ReadsFrom(age)'
    BY DEF ReadsFrom, TypeOK
  <2>. QED BY <2>1 DEF OneStamp, ReadsFrom, TypeOK, State
<1>. QED BY <1>1, <1>2, <1>3, <1>4

LEMMA CountDownStep == ASSUME Inv, NEW r \in Renders, CountDown(r) PROVE Inv'
<1>. USE DEF Inv, CountDown, repo, selves
<1>1. render[r] \in State /\ render[r].left > 0
  BY DEF TypeOK, HasRead
<1>2. state' \in State /\ overwritten' \in BOOLEAN
  BY <1>1, UpdateAssumption DEF State, PutBack, TypeOK
<1>3. TypeOK'
  BY <1>2 DEF TypeOK
<1>4. LockIsHeld' /\ NothingAhead' /\ BuildsOrigin'
  BY DEF LockIsHeld, NothingAhead, BuildsOrigin
<1>5. HasRead'
  BY DEF HasRead, TypeOK
<1>6. OneStamp'
  <2>1. state'.age = render[r].age
    BY <1>1 DEF State
  <2>2. \A q \in Renders : render'[q] = None \/ render'[q] = render[q]
    BY DEF TypeOK
  <2>. QED BY <1>1, <1>2, <2>1, <2>2, PutBackStamp
<1>. QED BY <1>3, <1>4, <1>5, <1>6

(***************************************************************************)
(* The self-update.  Most of its steps leave the commits, the stamps and   *)
(* everybody else alone.                                                   *)
(***************************************************************************)
LEMMA QuitShape ==
    ASSUME Inv, NEW u \in Updaters, Quit(u)
    PROVE  /\ pc' \in [Updaters -> Labels] /\ lock' \in Updaters \cup {None}
           /\ build' \in [Updaters -> 0..remote] /\ job' \in [Updaters -> 0..remote \cup {None}]
           /\ read' \in [Updaters -> State \cup {None}] /\ orphan' \in [Updaters -> BOOLEAN]
           /\ pc'[u] = "idle" /\ job'[u] = None /\ ~orphan'[u]
           /\ \A v \in Updaters \ {u} :
                 pc'[v] = pc[v] /\ job'[v] = job[v] /\ read'[v] = read[v] /\ orphan'[v] = orphan[v]
           /\ \A v \in Updaters \ {u} : lock = v => lock' = v
<1>. USE UpdateAssumption DEF Inv, Quit, Goto
<1>1. orphan' \in [Updaters -> BOOLEAN]
  BY DEF TypeOK
<1>2. 0 \in 0..remote
  BY DEF TypeOK
<1>. QED BY <1>1, <1>2 DEF TypeOK, Labels

LEMMA QuitStep ==
    ASSUME Inv, NEW u \in Updaters, Quit(u),
           UNCHANGED <<remote, binary, origin, tree, tick, render, since>>,
           clone' \in {"none", "partial", "ready"}, faults' \in 0..MaxFaults,
           state' \in State, overwritten' \in BOOLEAN,
           \/ UNCHANGED <<state, overwritten>>
           \/ read[u] \in State /\ state'.age = read[u].age /\ PutBack(read[u])
    PROVE  Inv'
<1>. USE DEF Inv
<1>1. TypeOK'
  BY QuitShape DEF TypeOK, Labels
<1>2. LockIsHeld'
  BY QuitShape DEF LockIsHeld, Locked
<1>3. NothingAhead'
  BY QuitShape DEF NothingAhead
<1>4. BuildsOrigin'
  BY QuitShape DEF BuildsOrigin
<1>5. HasRead'
  BY QuitShape DEF HasRead
<1>6. OneStamp'
  <2>1. \A v \in Updaters : read'[v] = None \/ read'[v] = read[v]
    BY DEF Quit, TypeOK
  <2>. QED BY <2>1, SameStamp, PutBackStamp
<1>. QED BY <1>1, <1>2, <1>3, <1>4, <1>5, <1>6

\* Record puts back the stamp it read.
LEMMA RecordStep == ASSUME Inv, NEW u \in Updaters, Record(u) PROVE Inv'
<1>. USE DEF Inv, Record, repo
<1>1. read[u] \in State
  BY DEF TypeOK, HasRead
<1>2. state' \in State
  BY <1>1, UpdateAssumption DEF State
<1>3. state'.age = read[u].age /\ overwritten' \in BOOLEAN
  BY <1>1 DEF State, PutBack, TypeOK
<1>. QED BY <1>1, <1>2, <1>3, QuitStep DEF TypeOK

LEMMA QuitsStep ==
    ASSUME Inv, NEW u \in Updaters, FailFetch(u) \/ KillClone(u) \/ FailInstall(u)
    PROVE  Inv'
<1>1. /\ Quit(u) /\ UNCHANGED <<remote, binary, origin, tree, tick, render, since, state, overwritten>>
      /\ clone' \in {"none", "partial", "ready"} /\ faults' \in 0..MaxFaults
  BY UpdateAssumption DEF Inv, TypeOK, FailFetch, KillClone, FailInstall, repo
<1>2. state' \in State /\ overwritten' \in BOOLEAN
  BY <1>1 DEF Inv, TypeOK
<1>. QED BY <1>1, <1>2, QuitStep

LEMMA TakeLockStep == ASSUME Inv, NEW u \in Updaters, TakeLock(u) PROVE Inv'
<1>. USE DEF Inv, TakeLock, repo
<1>1. CASE lock = None
  <2>. USE <1>1 DEF Goto
  <2>1. TypeOK'
    BY DEF TypeOK
  <2>2. LockIsHeld'
    BY UpdateAssumption DEF LockIsHeld, Locked, TypeOK
  <2>3. NothingAhead' /\ OneStamp'
    BY DEF NothingAhead, OneStamp, ReadsFrom
  <2>4. BuildsOrigin' /\ HasRead'
    BY DEF BuildsOrigin, HasRead, TypeOK
  <2>. QED BY <2>1, <2>2, <2>3, <2>4
<1>2. CASE lock # None
  BY <1>2, QuitStep DEF TypeOK
<1>. QED BY <1>1, <1>2

\* No two self-updates that were not given up are past the lock.
LEMMA OneWorks ==
    ASSUME Inv, NEW u \in Updaters, NEW v \in Updaters, pc[u] \in Locked, pc[v] \in Locked,
           ~orphan[u], ~orphan[v]
    PROVE  u = v
  BY DEF Inv, LockIsHeld

\* Only an installer is ever given up.
LEMMA FetchersLive ==
    ASSUME Inv, NEW u \in Updaters, pc[u] \in {"fetch", "compare", "record"}
    PROVE  ~orphan[u]
  BY DEF Inv, LockIsHeld

LEMMA FetchStep == ASSUME Inv, NEW u \in Updaters, Fetch(u) PROVE Inv'
<1>. USE DEF Inv, Fetch, Goto
<1>1. ~orphan[u] /\ remote \in Nat /\ origin \in Nat /\ origin <= remote /\ binary \in Nat
  BY FetchersLive DEF TypeOK
<1>2. TypeOK'
  BY <1>1 DEF TypeOK
<1>3. LockIsHeld'
  BY <1>1 DEF LockIsHeld, Locked, TypeOK
<1>4. NothingAhead'
  BY <1>1 DEF NothingAhead, TypeOK
<1>5. BuildsOrigin'
  <2>1. \A v \in Updaters : v # u /\ ~orphan[v] => pc[v] \notin {"install", "build"}
    BY <1>1, OneWorks DEF Locked
  <2>. QED BY <2>1 DEF BuildsOrigin, TypeOK
<1>6. HasRead' /\ OneStamp'
  BY DEF HasRead, OneStamp, ReadsFrom, TypeOK
<1>. QED BY <1>2, <1>3, <1>4, <1>5, <1>6

LEMMA CompareStep == ASSUME Inv, NEW u \in Updaters, Compare(u) PROVE Inv'
<1>. USE DEF Inv, Compare, Goto
<1>1. CASE origin = build[u]
  BY <1>1, QuitStep DEF TypeOK
<1>2. CASE origin # build[u]
  <2>. USE <1>2
  <2>1. ~orphan[u]
    BY FetchersLive
  <2>2. TypeOK'
    BY DEF TypeOK
  <2>3. LockIsHeld' /\ NothingAhead'
    BY <2>1 DEF LockIsHeld, Locked, NothingAhead, TypeOK
  <2>4. BuildsOrigin'
    <3>1. \A v \in Updaters : v # u /\ ~orphan[v] => pc[v] \notin {"install", "build"}
      BY <2>1, OneWorks DEF Locked
    <3>. QED BY <3>1 DEF BuildsOrigin, TypeOK
  <2>5. HasRead' /\ OneStamp'
    BY DEF HasRead, OneStamp, ReadsFrom, TypeOK
  <2>. QED BY <2>2, <2>3, <2>4, <2>5
<1>. QED BY <1>1, <1>2

LEMMA CaptureStep == ASSUME Inv, NEW u \in Updaters, Capture(u) PROVE Inv'
<1>. USE UpdateAssumption DEF Inv, Capture, Goto, repo
<1>1. tree \in 0..remote /\ tree <= origin /\ tree # None
  BY DEF TypeOK
<1>2. TypeOK'
  BY <1>1 DEF TypeOK
<1>3. LockIsHeld' /\ NothingAhead'
  BY <1>1 DEF LockIsHeld, Locked, NothingAhead, TypeOK
<1>4. BuildsOrigin' /\ HasRead'
  BY <1>1 DEF BuildsOrigin, HasRead, TypeOK
<1>5. OneStamp'
  BY DEF OneStamp, ReadsFrom
<1>. QED BY <1>2, <1>3, <1>4, <1>5

LEMMA BuildStep == ASSUME Inv, NEW u \in Updaters, Build(u) PROVE Inv'
<1>. USE UpdateAssumption DEF Inv, Build, Goto, repo
<1>1. job[u] \in 0..remote /\ job[u] <= origin /\ job[u] # None
  BY DEF TypeOK, HasRead, NothingAhead
<1>2. TypeOK'
  BY <1>1 DEF TypeOK
<1>3. LockIsHeld' /\ NothingAhead'
  BY <1>1 DEF LockIsHeld, Locked, NothingAhead, TypeOK
<1>4. BuildsOrigin' /\ HasRead'
  BY <1>1 DEF BuildsOrigin, HasRead, TypeOK
<1>5. OneStamp'
  BY DEF OneStamp, ReadsFrom
<1>. QED BY <1>2, <1>3, <1>4, <1>5

LEMMA AbandonStep == ASSUME Inv, NEW u \in Updaters, Abandon(u) PROVE Inv'
<1>. USE UpdateAssumption DEF Inv, Abandon, repo
<1>1. /\ orphan' \in [Updaters -> BOOLEAN] /\ orphan'[u]
      /\ \A v \in Updaters \ {u} : orphan'[v] = orphan[v]
  BY DEF TypeOK
<1>2. TypeOK'
  BY <1>1 DEF TypeOK
<1>3. LockIsHeld'
  BY <1>1 DEF LockIsHeld, Locked, TypeOK
<1>4. BuildsOrigin' /\ NothingAhead' /\ HasRead' /\ OneStamp'
  BY <1>1 DEF BuildsOrigin, NothingAhead, HasRead, OneStamp, ReadsFrom
<1>. QED BY <1>2, <1>3, <1>4

LEMMA ReadStateStep == ASSUME Inv, NEW u \in Updaters, ReadState(u) PROVE Inv'
<1>. USE DEF Inv, ReadState, repo
<1>1. CASE orphan[u]
  BY <1>1, QuitStep DEF TypeOK
<1>2. CASE ~orphan[u]
  <2>. USE <1>2 DEF Goto
  <2>1. TypeOK'
    BY DEF TypeOK
  <2>2. LockIsHeld' /\ NothingAhead'
    BY DEF LockIsHeld, Locked, NothingAhead, TypeOK
  <2>3. BuildsOrigin' /\ HasRead'
    BY NoStateIsNone DEF BuildsOrigin, HasRead, TypeOK
  <2>4. OneStamp'
    <3>1. \A age : ReadsFrom(age) /\ state.age >= age => ReadsFrom(age)'
      BY DEF ReadsFrom, TypeOK
    <3>. QED BY <3>1 DEF OneStamp, ReadsFrom, TypeOK, State
  <2>. QED BY <2>1, <2>2, <2>3, <2>4
<1>. QED BY <1>1, <1>2

(***************************************************************************)
(* The world.                                                              *)
(***************************************************************************)
LEMMA PushStep == ASSUME Inv, Push PROVE Inv'
<1>. USE UpdateAssumption DEF Inv, Push, repo, selves
<1>1. TypeOK'
  BY DEF TypeOK
<1>2. LockIsHeld' /\ NothingAhead' /\ BuildsOrigin' /\ HasRead' /\ OneStamp'
  BY DEF LockIsHeld, NothingAhead, BuildsOrigin, HasRead, OneStamp, ReadsFrom
<1>. QED BY <1>1, <1>2

LEMMA ElapseStep == ASSUME Inv, Elapse PROVE Inv'
<1>. USE UpdateAssumption DEF Inv, Elapse, repo
<1>1. state' \in State /\ state'.left = state.left
      /\ state'.age = IF state.age < Interval THEN state.age + 1 ELSE state.age
  BY OlderIsState DEF TypeOK
<1>2. /\ tick' \in [at: {"idle", "stamp", "spawn"}, state: State \cup {None}]
      /\ tick'.at = tick.at
      /\ tick.state # None => /\ tick'.state # None /\ tick'.state.left = tick.state.left
                             /\ tick'.state = Older(tick.state)
  <2>1. CASE tick.state = None
    BY <2>1 DEF TypeOK
  <2>2. CASE tick.state # None
    <3>1. tick.state \in State
      BY <2>2 DEF TypeOK
    <3>2. Older(tick.state) \in State /\ Older(tick.state).left = tick.state.left
      BY <3>1, OlderIsState
    <3>3. tick'.at = tick.at /\ tick'.state = Older(tick.state)
          /\ tick' \in [at: {"idle", "stamp", "spawn"}, state: State \cup {None}]
      BY <2>2, <3>2 DEF TypeOK
    <3>. QED BY <3>2, <3>3, NoStateIsNone
  <2>. QED BY <2>1, <2>2
<1>3. /\ render' \in [Renders -> State \cup {None}]
      /\ \A r \in Renders : IF render[r] = None THEN render'[r] = None
                            ELSE render'[r] = Older(render[r]) /\ render'[r] # None
  BY OlderIsState, NoStateIsNone DEF TypeOK
<1>4. /\ read' \in [Updaters -> State \cup {None}]
      /\ \A u \in Updaters : IF read[u] = None THEN read'[u] = None
                             ELSE read'[u] = Older(read[u]) /\ read'[u] # None
  BY OlderIsState, NoStateIsNone DEF TypeOK
<1>5. since' \in 0..Interval
  BY DEF TypeOK
<1>6. TypeOK'
  BY <1>1, <1>2, <1>3, <1>4, <1>5 DEF TypeOK
<1>7. LockIsHeld' /\ NothingAhead' /\ BuildsOrigin'
  BY DEF LockIsHeld, NothingAhead, BuildsOrigin
<1>8. HasRead'
  BY <1>2, <1>3, <1>4, OlderIsState DEF HasRead, TypeOK
<1>9. OneStamp'
  <2>1. \A a, b \in State : /\ a.age >= b.age => Older(a).age >= Older(b).age
                            /\ a.age = b.age => Older(a).age = Older(b).age
    BY OlderIsState DEF State
  <2>. DEFINE ReadNow(age) ==
                /\ \A r \in Renders : render'[r] # None => render'[r].age >= age
                /\ \A u \in Updaters : read'[u] # None => read'[u].age >= age
  <2>2. ASSUME NEW b \in State, ReadsFrom(b.age) PROVE ReadNow(Older(b).age)
    <3>1. \A r \in Renders : render'[r] # None => render'[r].age >= Older(b).age
      BY <1>3, <2>1, <2>2 DEF ReadsFrom, TypeOK
    <3>2. \A u \in Updaters : read'[u] # None => read'[u].age >= Older(b).age
      BY <1>4, <2>1, <2>2 DEF ReadsFrom, TypeOK
    <3>. QED BY <3>1, <3>2
  <2>. HIDE DEF ReadNow
  <2>3. state \in State /\ state' = Older(state)
    BY DEF TypeOK
  <2>4. tick.at # "idle" => tick.state \in State /\ tick'.state = Older(tick.state)
    BY <1>2 DEF HasRead, TypeOK
  <2>5. tick.at = "stamp" => state'.age >= tick'.state.age /\ ReadNow(tick'.state.age)
    <3>. SUFFICES ASSUME tick.at = "stamp"
                  PROVE  state'.age >= tick'.state.age /\ ReadNow(tick'.state.age)
      OBVIOUS
    <3>1. state.age >= tick.state.age /\ ReadsFrom(tick.state.age)
      BY DEF OneStamp
    <3>2. state'.age >= tick'.state.age
      BY <2>1, <2>3, <2>4, <3>1
    <3>3. ReadNow(Older(tick.state).age)
      BY <2>2, <2>4, <3>1
    <3>. QED BY <2>4, <3>2, <3>3
  <2>6. tick.at # "stamp" /\ ~overwritten =>
            /\ state'.age = IF tick.at = "idle" THEN since' ELSE tick'.state.age
            /\ ReadNow(state'.age)
    <3>. SUFFICES ASSUME tick.at # "stamp", ~overwritten
                  PROVE  /\ state'.age = IF tick.at = "idle" THEN since' ELSE tick'.state.age
                         /\ ReadNow(state'.age)
      OBVIOUS
    <3>1. /\ state.age = IF tick.at = "idle" THEN since ELSE tick.state.age
          /\ ReadsFrom(state.age)
      BY DEF OneStamp
    <3>2. state'.age = IF tick.at = "idle" THEN since' ELSE tick'.state.age
      BY <1>1, <2>1, <2>3, <2>4, <3>1
    <3>3. ReadNow(Older(state).age)
      BY <2>2, <2>3, <3>1
    <3>. QED BY <2>3, <3>2, <3>3
  <2>. QED BY <1>2, <2>5, <2>6 DEF OneStamp, ReadsFrom, ReadNow
<1>. QED BY <1>6, <1>7, <1>8, <1>9

LEMMA InvStep == Inv /\ [Next]_vars => Inv'
<1>. SUFFICES ASSUME Inv, [Next]_vars PROVE Inv'
  OBVIOUS
<1>1. CASE TickStep
  BY <1>1, CheckStep, StampStep, SpawnStep DEF TickStep
<1>2. ASSUME NEW r \in Renders, ReadNotice(r) \/ CountDown(r) PROVE Inv'
  BY <1>2, ReadNoticeStep, CountDownStep
<1>3. ASSUME NEW u \in Updaters, Run(u) PROVE Inv'
  BY <1>3, TakeLockStep, QuitsStep, CompareStep, CaptureStep, ReadStateStep, RecordStep DEF Run
<1>4. ASSUME NEW u \in Updaters, Fetch(u) \/ Build(u) \/ KillClone(u) \/ Abandon(u) PROVE Inv'
  BY <1>4, FetchStep, BuildStep, QuitsStep, AbandonStep
<1>5. CASE UNCHANGED vars
  BY <1>5 DEF Inv, TypeOK, LockIsHeld, NothingAhead, BuildsOrigin, HasRead, OneStamp, ReadsFrom,
              vars, repo, selves
<1>. QED BY <1>1, <1>2, <1>3, <1>4, <1>5, PushStep, ElapseStep DEF Next

LEMMA InvHolds == Spec => []Inv
  BY InitInv, InvStep, PTL DEF Spec

(***************************************************************************)
(* The theorems.                                                           *)
(***************************************************************************)

\* Every variable has its type: the notice is never counted below zero, and nothing is
\* built that was not pushed.
THEOREM UpdateTypeCorrect == Spec => []TypeOK
<1>1. Inv => TypeOK
  BY DEF Inv
<1>. QED BY <1>1, InvHolds, PTL

\* Only an installer that its self-update gave up takes the binary back to an older
\* commit (update.go:60-62).
THEOREM UpdatesGoForward == Spec => NeverBackwards
<1>1. Inv /\ [Next]_vars => [binary' < binary => \E u \in Updaters : orphan[u]]_vars
  <2>. SUFFICES ASSUME Inv, [Next]_vars, binary' < binary PROVE \E u \in Updaters : orphan[u]
    OBVIOUS
  <2>1. binary' # binary
    BY DEF Inv, TypeOK
  <2>2. PICK u \in Updaters : Build(u)
    BY <2>1 DEF Next, TickStep, Check, Stamp, Spawn, Push, Elapse, ReadNotice, CountDown, Run,
                TakeLock, FailFetch, Compare, Capture, FailInstall, ReadState, Record, Fetch,
                KillClone, Abandon, vars
  <2>3. ~orphan[u] => binary' = origin
    BY <2>2 DEF Build, Inv, BuildsOrigin
  <2>4. origin \in Nat /\ binary \in Nat /\ binary <= origin
    BY DEF Inv, TypeOK, NothingAhead
  <2>. QED BY <2>3, <2>4
<1>. QED BY <1>1, InvHolds, PTL DEF Spec, NeverBackwards

\* Whatever fails, and however prompts, ticks and self-updates interleave, an update is
\* found due within the interval of the last spawn only if a prompt or a self-update has
\* put an older stamp back (update.go:39-41).
THEOREM FailuresAreThrottled == Spec => FailingUpdateCannotSpin
<1>1. Inv => (Due /\ ~overwritten => since = Interval)
  BY DEF Inv, Due, OneStamp
<1>2. Inv /\ [Next]_vars => [Due /\ tick'.at = "stamp" /\ ~overwritten => since = Interval]_vars
  BY <1>1
<1>. QED BY <1>2, InvHolds, PTL DEF Spec, FailingUpdateCannotSpin

\* Of the self-updates that were not given up only one works on the clone, the binary
\* and updates.json at a time, however many ticks have spawned one
\* (update.go:60-62, "only one runs at a time").
OneWorksAtATime ==
    \A u, v \in Updaters :
        pc[u] \in Locked /\ pc[v] \in Locked /\ ~orphan[u] /\ ~orphan[v] => u = v

THEOREM OneSelfUpdateWorks == Spec => []OneWorksAtATime
<1>1. Inv => OneWorksAtATime
  BY OneWorks DEF OneWorksAtATime
<1>. QED BY <1>1, InvHolds, PTL
===============================================================================
