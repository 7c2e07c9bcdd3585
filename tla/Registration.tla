----------------------------- MODULE Registration -----------------------------
(***************************************************************************)
(* How an install gets its key and its identity.  Ticks, which hold the    *)
(* tick lock, and the `earnd register` command, which does not, read and   *)
(* write the key file and the identity file of one machine and post to the *)
(* registration route, which counts them against a limit and inserts a     *)
(* publisher and a device in two statements.  A registered tick signs what *)
(* it asks for, and the server looks the signature up in its devices.      *)
(***************************************************************************)
EXTENDS Integers, FiniteSets

CONSTANTS
    Ticks, Commands,    \* processes: slots for ticks, runs of `earnd register`
    Handlers,           \* requests the server works on at once
    Limit, Window,      \* REGISTER_LIMIT per REGISTER_WINDOW_MS, in slots of time
    MaxFaults,          \* bound: processes killed, timeouts before the answer
    None, Corrupt

ASSUME RegistrationAssumption ==
    /\ Ticks \cap Commands = {}
    /\ IsFiniteSet(Ticks) /\ IsFiniteSet(Commands) /\ IsFiniteSet(Handlers)
    /\ Limit \in Nat \ {0} /\ Window \in Nat \ {0} /\ MaxFaults \in Nat
    /\ None \notin Nat /\ Corrupt \notin Nat /\ None # Corrupt
    /\ None \notin Ticks \cup Commands \cup Handlers

VARIABLES
    lock,       \* the tick lock: its holder
    keyFile,    \* the key, None without a file, Corrupt while it is being written
    identity,   \* the identity file: the key and the publisher it was saved with
    tmp,        \* the file the identity is written to before it is renamed
    pc, own,    \* each process: where it is, the key and the answer it holds
    devices,    \* devices: the key and the publisher of each row
    srv,        \* each request on the server
    count, left,\* rate_limits: hits in this window, slots until resetAt
    faults,
    overlap,    \* whether a command ran together with another process, unregistered
    refused     \* whether the server refused what a registered tick signed

files   == <<keyFile, identity, tmp>>
limiter == <<count, left>>
vars == <<lock, files, pc, own, devices, srv, limiter, faults, overlap, refused>>

Processes == Ticks \cup Commands
NoRequest == [at |-> "none", key |-> None, publisher |-> None, from |-> None]
Nothing   == [key |-> None, publisher |-> None]

\* Keys and ids are random: one that is used nowhere.
Unused(used) == CHOOSE n \in 0..Cardinality(used) : n \notin used

Lesser(a, b) == IF a <= b THEN a ELSE b

Keys == {d.key : d \in devices}
FreshKey == Unused(Keys \cup {keyFile} \cup {own[p].key : p \in Processes}
                        \cup {srv[h].key : h \in Handlers})
FreshPublisher == Unused({d.publisher : d \in devices}
                            \cup {srv[h].publisher : h \in Handlers}
                            \cup {own[p].publisher : p \in Processes})

Goto(p, label) == pc' = [pc EXCEPT ![p] = label]

\* A process ends, well or not; the kernel unlocks what it held.
Exit(p) ==
    /\ Goto(p, IF p \in Ticks THEN "idle" ELSE "done")
    /\ own' = [own EXCEPT ![p] = Nothing]
    /\ lock' = IF lock = p THEN None ELSE lock

(***************************************************************************)
(* The client.                                                             *)
(***************************************************************************)

\* Tick takes the lock or gives up; the command just starts.
Start(p) ==
    /\ pc[p] = "idle"
    /\ p \in Ticks => lock = None
    /\ lock' = IF p \in Ticks THEN p ELSE lock
    /\ Goto(p, "identity")
    /\ overlap' = (overlap \/ (identity = None /\
                     \E q \in Processes : pc[q] \notin {"idle", "done"} /\ {p, q} \cap Commands # {}))
    /\ UNCHANGED <<files, own, devices, srv, limiter, faults, refused>>

\* LoadIdentity: the command is done when there is one, a tick goes on to sign.
LoadIdentity(p) ==
    /\ pc[p] = "identity"
    /\ IF identity = None
       THEN Goto(p, "key") /\ UNCHANGED <<own, lock>>
       ELSE IF p \in Ticks
            THEN /\ Goto(p, "signing key")
                 /\ own' = [own EXCEPT ![p].publisher = identity.publisher]
                 /\ UNCHANGED lock
            ELSE Exit(p)
    /\ UNCHANGED <<files, devices, srv, limiter, faults, overlap, refused>>

\* LoadOrCreateKey: a file that is missing or does not decode is made anew.
ReadKey(p) ==
    /\ pc[p] \in {"key", "signing key"}
    /\ IF keyFile \in {None, Corrupt}
       THEN /\ Goto(p, IF pc[p] = "key" THEN "write" ELSE "write and sign")
            /\ own' = [own EXCEPT ![p].key = FreshKey]
       ELSE /\ Goto(p, IF pc[p] = "key" THEN "post" ELSE "sign")
            /\ own' = [own EXCEPT ![p].key = keyFile]
    /\ UNCHANGED <<lock, files, devices, srv, limiter, faults, overlap, refused>>

\* Mutant: the new key is used before it is on disk.
CreateKeyLater(p) ==
    /\ pc[p] = "write"
    /\ Goto(p, "post")
    /\ UNCHANGED <<lock, files, own, devices, srv, limiter, faults, overlap, refused>>

\* WriteFile truncates the file, and then fills it.
TruncateKey(p) ==
    /\ pc[p] \in {"write", "write and sign"}
    /\ keyFile' = Corrupt
    /\ Goto(p, IF pc[p] = "write" THEN "fill" ELSE "fill and sign")
    /\ UNCHANGED <<lock, identity, tmp, own, devices, srv, limiter, faults, overlap, refused>>

FillKey(p) ==
    /\ pc[p] \in {"fill", "fill and sign"}
    /\ keyFile' = own[p].key
    /\ Goto(p, IF pc[p] = "fill" THEN "post" ELSE "sign")
    /\ UNCHANGED <<lock, identity, tmp, own, devices, srv, limiter, faults, overlap, refused>>

Post(p) ==
    /\ pc[p] = "post"
    /\ \E h \in Handlers :
          /\ srv[h].at = "none"
          /\ srv' = [srv EXCEPT ![h] = [at |-> "hit", key |-> own[p].key,
                                        publisher |-> None, from |-> p]]
    /\ Goto(p, "waiting")
    /\ UNCHANGED <<lock, files, own, devices, limiter, faults, overlap, refused>>

\* SaveIdentity: a temporary file, whose name all processes share, and a rename.
WriteTmp(p) ==
    /\ pc[p] = "save"
    /\ tmp' = own[p]
    /\ Goto(p, "rename")
    /\ UNCHANGED <<lock, keyFile, identity, own, devices, srv, limiter, faults, overlap, refused>>

RenameTmp(p) ==
    /\ pc[p] = "rename"
    /\ IF tmp = None \* somebody else renamed it: an error, and the process ends
       THEN Exit(p) /\ UNCHANGED files
       ELSE /\ identity' = tmp
            /\ tmp' = None
            /\ UNCHANGED keyFile
            /\ IF p \in Ticks THEN Goto(p, "signing key") /\ UNCHANGED <<own, lock>>
                              ELSE Exit(p)
    /\ UNCHANGED <<devices, srv, limiter, faults, overlap, refused>>

\* The device row that the identity names; there is one per publisher.
Claimed(p) == {d \in devices : d.publisher = own[p].publisher}

\* verifyEd25519: a signature verifies against the public half of the key that made it.
Verifies(d, key) == d.key = key

\* authenticateDevice: an unknown device and a signature by another key are turned away.
Authentic(p) == \E d \in Claimed(p) : Verifies(d, own[p].key)

\* A signed request: begin, heartbeat or redeem, whose own steps are in ClientSession.
SignedRequest(p) ==
    /\ pc[p] = "sign"
    /\ refused' = (refused \/ ~Authentic(p))
    /\ Exit(p)
    /\ UNCHANGED <<files, devices, srv, limiter, faults, overlap>>

\* The eight seconds are over before the server has answered.
TimeOut(p) ==
    /\ pc[p] = "waiting"
    /\ faults < MaxFaults
    /\ faults' = faults + 1
    /\ srv' = [h \in Handlers |->
                IF srv[h].from = p THEN [srv[h] EXCEPT !.from = None] ELSE srv[h]]
    /\ Exit(p)
    /\ UNCHANGED <<files, devices, limiter, overlap, refused>>

\* The process is killed.  The server goes on with what it was asked.
Kill(p) ==
    /\ pc[p] \notin {"idle", "done", "waiting"}
    /\ faults < MaxFaults
    /\ faults' = faults + 1
    /\ Exit(p)
    /\ UNCHANGED <<files, devices, srv, limiter, overlap, refused>>

(***************************************************************************)
(* POST /api/devices/register.                                             *)
(***************************************************************************)
Serve(h, label) == srv' = [srv EXCEPT ![h].at = label]

\* Mutant: an expired window is not told from an open one.
HitWithoutReset(h) ==
    LET now == Lesser(count + 1, Limit + 1) IN
    /\ srv[h].at = "hit"
    /\ count' = now
    /\ left' = Window
    /\ Serve(h, IF now <= Limit THEN "select" ELSE "refused")
    /\ UNCHANGED <<lock, files, pc, own, devices, faults, overlap, refused>>

\* Mutant: each hit in an open window makes it longer.
HitExtends(h) ==
    LET now == IF left = 0 THEN 1 ELSE Lesser(count + 1, Limit + 1) IN
    /\ srv[h].at = "hit"
    /\ count' = now
    /\ left' = left + Window
    /\ Serve(h, IF now <= Limit THEN "select" ELSE "refused")
    /\ UNCHANGED <<lock, files, pc, own, devices, faults, overlap, refused>>

\* The upsert of rateLimit: an expired window starts anew with this hit.
Hit(h) ==
    LET now == IF left = 0 THEN 1 ELSE Lesser(count + 1, Limit + 1) IN
    /\ srv[h].at = "hit"
    /\ count' = now
    /\ left' = IF left = 0 THEN Window ELSE left
    /\ Serve(h, IF now <= Limit THEN "select" ELSE "refused")
    /\ UNCHANGED <<lock, files, pc, own, devices, faults, overlap, refused>>

\* Mutant: the route does not look for the key first.
AlwaysInsert(h) ==
    /\ srv[h].at = "select"
    /\ Serve(h, "publisher")
    /\ UNCHANGED <<lock, files, pc, own, devices, limiter, faults, overlap, refused>>

SelectDevice(h) ==
    /\ srv[h].at = "select"
    /\ IF srv[h].key \in Keys
       THEN \E d \in devices :
              /\ d.key = srv[h].key
              /\ srv' = [srv EXCEPT ![h].at = "answer", ![h].publisher = d.publisher]
       ELSE Serve(h, "publisher")
    /\ UNCHANGED <<lock, files, pc, own, devices, limiter, faults, overlap, refused>>

InsertPublisher(h) ==
    /\ srv[h].at = "publisher"
    /\ srv' = [srv EXCEPT ![h].at = "device", ![h].publisher = FreshPublisher]
    /\ UNCHANGED <<lock, files, pc, own, devices, limiter, faults, overlap, refused>>

Row(h) == [key |-> srv[h].key, publisher |-> srv[h].publisher]

\* Mutant: no unique index on the key.
InsertDeviceAnyway(h) ==
    /\ srv[h].at = "device"
    /\ devices' = devices \cup {Row(h)}
    /\ Serve(h, "answer")
    /\ UNCHANGED <<lock, files, pc, own, limiter, faults, overlap, refused>>

\* The unique index lets one row in per key; the other insert fails, and leaves its
\* publisher behind.
InsertDevice(h) ==
    /\ srv[h].at = "device"
    /\ IF srv[h].key \in Keys
       THEN Serve(h, "refused") /\ UNCHANGED devices
       ELSE /\ Serve(h, "answer")
            /\ devices' = devices \cup {Row(h)}
    /\ UNCHANGED <<lock, files, pc, own, limiter, faults, overlap, refused>>

\* The answer arrives.
Deliver(h) ==
    LET p == srv[h].from IN
    /\ srv[h].at = "answer" /\ p # None
    /\ srv' = [srv EXCEPT ![h] = NoRequest]
    /\ own' = [own EXCEPT ![p].publisher = srv[h].publisher]
    /\ Goto(p, "save")
    /\ UNCHANGED <<lock, files, devices, limiter, faults, overlap, refused>>

\* An error status arrives, the answer is lost, or nobody waits for it.
Lose(h) ==
    /\ srv[h].at \in {"answer", "refused"}
    /\ srv' = [srv EXCEPT ![h] = NoRequest]
    /\ IF srv[h].from = None THEN UNCHANGED <<pc, own, lock>> ELSE Exit(srv[h].from)
    /\ UNCHANGED <<files, devices, limiter, faults, overlap, refused>>

Elapse ==
    /\ left > 0
    /\ left' = left - 1
    /\ UNCHANGED <<lock, files, pc, own, devices, srv, count, faults, overlap, refused>>

(***************************************************************************)
(* The specification.                                                      *)
(***************************************************************************)
Init ==
    /\ lock = None
    /\ keyFile = None /\ identity = None /\ tmp = None
    /\ pc = [p \in Processes |-> "idle"]
    /\ own = [p \in Processes |-> Nothing]
    /\ devices = {}
    /\ srv = [h \in Handlers |-> NoRequest]
    /\ count = 0 /\ left = 0
    /\ faults = 0
    /\ overlap = FALSE
    /\ refused = FALSE

Step(p) ==
    \/ LoadIdentity(p) \/ ReadKey(p) \/ TruncateKey(p) \/ FillKey(p)
    \/ Post(p) \/ WriteTmp(p) \/ RenameTmp(p) \/ SignedRequest(p)

Handle(h) == Hit(h) \/ SelectDevice(h) \/ InsertPublisher(h) \/ InsertDevice(h)

Next ==
    \/ Elapse
    \/ \E p \in Processes : Start(p) \/ Step(p) \/ TimeOut(p) \/ Kill(p)
    \/ \E h \in Handlers : Handle(h) \/ Deliver(h) \/ Lose(h)

Spec == Init /\ [][Next]_vars

\* Prompts keep spawning ticks, a tick and the server keep running, time passes, and
\* the server is reached now and then: of the answers that are on their way again and
\* again one arrives.  A command may hang for ever.
FairSpec ==
    /\ Spec
    /\ WF_vars(\E p \in Ticks : Start(p))
    /\ WF_vars(\E p \in Ticks : Step(p))
    /\ WF_vars(\E h \in Handlers : Handle(h))
    /\ SF_vars(\E h \in Handlers : Deliver(h))
    /\ WF_vars(\E h \in Handlers : Lose(h))
    /\ WF_vars(Elapse)

(***************************************************************************)
(* Properties.                                                             *)
(***************************************************************************)
Labels == {"idle", "identity", "key", "write", "fill", "post", "waiting", "save", "rename",
           "signing key", "write and sign", "fill and sign", "sign", "done"}
Key    == Nat
Answer == [key: Key \cup {None}, publisher: Nat \cup {None}]
Stages == {"none", "hit", "select", "publisher", "device", "answer", "refused"}
Request == [at: Stages, key: Key \cup {None}, publisher: Nat \cup {None},
            from: Processes \cup {None}]

\* The types of the state.  A window of the limiter is never longer than Window,
\* however many hits it counts (ratelimit.ts:40-46).
TypeOK ==
    /\ lock \in Ticks \cup {None}
    /\ keyFile \in Key \cup {None, Corrupt}
    /\ identity \in Answer \cup {None} /\ tmp \in Answer \cup {None}
    /\ pc \in [Processes -> Labels]
    /\ own \in [Processes -> Answer]
    /\ devices \subseteq [key: Key, publisher: Nat]
    /\ srv \in [Handlers -> Request]
    /\ count \in 0..(Limit + 1) /\ left \in 0..Window
    /\ faults \in 0..MaxFaults /\ overlap \in BOOLEAN /\ refused \in BOOLEAN

\* Registration is idempotent on the key: of two that race one row remains, and every
\* answer on its way and the identity on disk name the row the server has
\* (register/route.ts:23-24).
AnswersStayTrue ==
    /\ \A h \in Handlers : srv[h].at = "answer" => Row(h) \in devices
    /\ identity # None => identity \in devices
    /\ \A d, e \in devices : d.key = e.key => d = e

\* An install whose registration never overlapped with `earnd register` can sign: the
\* key on disk is the one its identity was registered with, whatever was killed,
\* lost or tried again, and the server has refused nothing it signed
\* (device.go:60-79, deviceAuth.ts:67-81).
IdentityCanSign ==
    ~overlap => /\ identity # None => keyFile = identity.key
                /\ ~refused

\* An install is registered in the end, although answers are lost, the limiter
\* refuses and another process took part.
GetsRegistered == <>(identity # None)
===============================================================================
