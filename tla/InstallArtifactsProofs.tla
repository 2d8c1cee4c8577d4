------------------------ MODULE InstallArtifactsProofs ------------------------
(* The safety of InstallArtifacts for any number of jobs, calls and files,   *)
(* on a disk that may fail at every access and a pool that may shut down.    *)
EXTENDS InstallArtifacts, FiniteSetTheorems, TLAPS

Stages(act) ==
    CASE act = "prepare" -> {"look", "hash", "create"}
      [] act = "promote" -> {"check", "hash", "replace", "rehash", "undo"}
      [] act = "remove" -> {"partstat", "unpart", "readystat", "unready"}
      [] act \in {"abandon", "drop"} -> {"close", "partstat", "unpart"}
      [] OTHER -> {FirstStep(act)}

Legs(kind) ==
    IF kind = "download"
    THEN {"prepare", "http", "write", "finish", "promote", "abandon", "drop"}
    ELSE {kind}

\* What a worker may be.
Sound(o) ==
    /\ o.step \in Stages(o.act)
    /\ o.state \in {"queued", "aborted"} => o.step = FirstStep(o.act)
    /\ o.state \in {"queued", "aborted"} \/ (o.state = "running" /\ o.act \notin {"abandon", "drop"})
           => o.result = "ok"
    /\ o.act # "reconcile" => o.job \in Jobs
    /\ o.act # "prepare" => o.result \in {"ok", "failed"}
    /\ o.act \in {"promote", "remove", "reconcile"} => o.fd = None
    /\ o.act \in {"write", "finish"} => o.fd # None
    /\ o.act = "prepare" => (o.fd # None <=> o.state = "finished" /\ o.result = "ok")
    /\ o.act = "promote" /\ o.state = "finished" /\ o.result = "ok" => o.step = "rehash"

\* What a cancellation has left in a call.
Heard(w) ==
    w.asked => \/ w.pc \in Acts /\ w.cut = "cancel"
               \/ w.pc = "abandon" /\ w.out = "cancelled"
               \/ w.pc = "drop"
               \/ w.pc = "returned"
                  /\ (w.alone => \/ w.out = "cancelled"
                                 \/ DiskFaults /\ w.kind = "download" /\ w.out = "failed")

\* What a call may be.
Proper(w) ==
    /\ w.kind = "reconcile" <=> w.job = None
    /\ w.pc \in Legs(w.kind) \cup {"returned"}
    /\ w.slot # None <=> w.pc \in Acts
    /\ w.pc \in {"http", "write", "finish"} => w.fd # None
    /\ w.pc \in {"prepare", "promote", "remove", "reconcile", "returned"} => w.fd = None
    /\ w.cut = "timeout" => w.pc = "write"
    /\ w.pc \in {"http", "returned"} => w.cut = None
    /\ Heard(w)

\* Call w awaits worker o.
Awaits(w, o) ==
    /\ o # None /\ o.act = w.pc /\ o.job = w.job
    /\ w.pc # "prepare" => o.fd = w.fd

\* The descriptor that call w answers for, if it awaits o.
HeldBy(w, o) ==
    CASE w.pc \in {"http", "write"} -> w.fd
      [] w.pc = "prepare" -> o.fd
      [] w.pc \in {"finish", "abandon", "drop"} /\ o.state # "finished" /\ o.step = "close" -> w.fd
      [] OTHER -> None
Held(c) == IF call[c] = None THEN None ELSE HeldBy(call[c], op[call[c].slot])

\* Call w, which awaits o, answers for the partial of its job.
Minds(w, o) ==
    \/ w.pc \in {"http", "write", "finish", "promote", "abandon", "drop"}
    \/ w.pc = "prepare" /\ o.fd # None
Carries(c) == call[c] # None /\ Minds(call[c], op[call[c].slot])

Owns(c, s) == call[c] # None /\ call[c].slot = s
Aborted == {s \in Slots : op[s] # None /\ op[s].state = "aborted"}

Types ==
    /\ part \in [Jobs -> Files \cup {None}]
    /\ ready \in [Jobs -> Files \cup {None}]
    /\ data \in [Files -> Contents \cup {None}]
    /\ open \in SUBSET Files
    /\ call \in [Callers -> Calls \cup {None}]
    /\ op \in [Slots -> Workers \cup {None}]
    /\ loaded \in BOOLEAN
    /\ aborts \in 0..MaxAborts
    /\ residue \in SUBSET Jobs

CallInv ==
    \A c \in Callers : call[c] # None =>
        /\ Proper(call[c])
        /\ call[c].slot # None => Awaits(call[c], op[call[c].slot])

OpInv ==
    \A s \in Slots : op[s] # None =>
        /\ Sound(op[s])
        /\ op[s].state = "aborted" \/ \E c \in Callers : Owns(c, s)

\* Two calls never share a worker, and never download for one job.
ApartInv ==
    \A c, d \in Callers : c # d /\ call[c] # None /\ call[d] # None =>
        /\ call[c].slot # None => call[c].slot # call[d].slot
        /\ call[c].kind = "download" /\ call[d].kind = "download" => call[c].job # call[d].job
        /\ call[c].alone /\ call[c].job # None => call[d].job # call[c].job

\* The reconciliation has the directory to itself.
LoadInv ==
    \A c \in Callers : At(c, "reconcile") =>
        ~loaded /\ \A d \in Callers \ {c} : call[d] = None

RoomInv == Cardinality(Aborted) <= aborts

FilesInv ==
    /\ \A f \in Files : f \in Named(part, ready) \cup open => data[f] # None
    /\ \A j \in Jobs : ready[j] # None => data[ready[j]] = "whole" /\ part[j] = None

HeldInv ==
    \A c \in Callers : Held(c) # None =>
        /\ Held(c) \in open
        /\ \A d \in Callers \ {c} : Held(d) # Held(c)
        /\ \A j \in Jobs : ready[j] # Held(c) /\ (part[j] = Held(c) => j = call[c].job)

OpenInv == aborts = 0 => \A f \in open : \E c \in Callers : Held(c) = f

PartInv ==
    \A j \in Jobs \ residue : part[j] # None =>
        \E c \in Callers : Carries(c) /\ call[c].job = j

\* What a worker relies on between two steps.
Staged(w, o) ==
    /\ o.act = "prepare" /\ o.state = "running" /\ o.step = "create" => ready[w.job] = None
    /\ o.act = "promote" /\ o.state = "running" /\ o.step = "replace"
           => part[w.job] = None \/ data[part[w.job]] = "whole"
    /\ o.act = "promote" /\ o.step \in {"rehash", "undo"} => part[w.job] = None
    /\ o.act \in {"abandon", "drop"} /\ o.state = "finished"
           => part[w.job] = None \/ w.job \in residue
    /\ o.act = "abandon" /\ w.alone =>
           /\ o.state = "running" /\ o.step = "unpart" => part[w.job] # None
           /\ o.result = "failed" => DiskFaults

StageInv ==
    \A c \in Callers : call[c] # None /\ call[c].slot # None =>
        Staged(call[c], op[call[c].slot])

ArtInv ==
    /\ Types
    /\ CallInv
    /\ OpInv
    /\ ApartInv
    /\ LoadInv
    /\ RoomInv
    /\ FilesInv
    /\ HeldInv
    /\ OpenInv
    /\ PartInv
    /\ StageInv

USE ArtifactsAssumption, NoneIsApart

----------------------------------------------------------------------------
(* Calls, workers, and room for another one. *)

LEMMA TheCall ==
    ASSUME Types, CallInv, OpInv, NEW c \in Callers, call[c] # None
    PROVE  /\ call[c] \in Calls /\ Proper(call[c])
           /\ call[c].slot # None =>
                 /\ call[c].slot \in Slots /\ op[call[c].slot] # None
                 /\ op[call[c].slot] \in Workers /\ Sound(op[call[c].slot])
                 /\ Awaits(call[c], op[call[c].slot])
<1>1. call[c] \in Calls /\ Proper(call[c])
  BY DEF Types, CallInv
<1>2. call[c].slot \in Slots \cup {None}
  BY <1>1 DEF Calls
<1>3. ASSUME call[c].slot # None
      PROVE  /\ call[c].slot \in Slots /\ op[call[c].slot] # None
             /\ op[call[c].slot] \in Workers /\ Sound(op[call[c].slot])
             /\ Awaits(call[c], op[call[c].slot])
  <2>1. call[c].slot \in Slots /\ Awaits(call[c], op[call[c].slot])
    BY <1>2, <1>3 DEF CallInv
  <2> QED BY <2>1 DEF Awaits, Types, OpInv
<1> QED BY <1>1, <1>3

LEMMA Owned ==
    ASSUME Types, CallInv, OpInv, NEW s \in Slots, op[s] # None, op[s].state # "aborted"
    PROVE  \E c \in Callers : Owns(c, s)
  BY DEF OpInv

\* A worker waits in the pool, at its first step.
LEMMA WorkIs ==
    ASSUME NEW w \in Calls, NEW act \in Acts, NEW bytes \in Contents, NEW keep \in SUBSET Jobs
    PROVE  LET o == Work(act, w, bytes, keep)
           IN /\ o \in Workers /\ o # None
              /\ o.act = act /\ o.job = w.job /\ o.fd = w.fd /\ o.keep = keep /\ o.bytes = bytes
              /\ o.state = "queued" /\ o.step = FirstStep(act) /\ o.result = "ok"
<1>1. FirstStep(act) \in Steps
  BY DEF FirstStep, Steps, Acts
<1>2. w.job \in Jobs \cup {None} /\ w.fd \in Files \cup {None}
  BY DEF Calls
<1> QED BY <1>1, <1>2 DEF Work, Workers

LEMMA AbortedFinite ==
    /\ IsFiniteSet(Aborted) /\ Cardinality(Aborted) \in Nat
    /\ IsFiniteSet(Aborted') /\ Cardinality(Aborted') \in Nat
<1>1. Aborted \subseteq Slots /\ Aborted' \subseteq Slots
  BY DEF Aborted
<1> QED BY <1>1, FS_Subset, FS_CardinalityType

\* The pool has room for the next worker of a call that awaits none.
LEMMA FreeSlot ==
    ASSUME Types, CallInv, OpInv, RoomInv, NEW c \in Callers,
           call[c] = None \/ call[c].slot = None \/ op[call[c].slot].state = "aborted"
    PROVE  \E x \in Slots : op[x] = None
<1> DEFINE D == {d \in Callers \ {c} : call[d] # None /\ call[d].slot \in Slots}
           U == {call[d].slot : d \in D}
<1>1. /\ IsFiniteSet(Callers \ {c})
      /\ Cardinality(Callers \ {c}) = Cardinality(Callers) - 1
      /\ Cardinality(Callers) \in Nat /\ Cardinality(Slots) \in Nat
  BY FS_RemoveElement, FS_CardinalityType
<1>2. IsFiniteSet(D) /\ Cardinality(D) <= Cardinality(Callers \ {c}) /\ Cardinality(D) \in Nat
  <2>1. D \subseteq Callers \ {c}
    OBVIOUS
  <2> QED BY <1>1, <2>1, FS_Subset, FS_CardinalityType
<1>3. IsFiniteSet(U) /\ Cardinality(U) <= Cardinality(D) /\ Cardinality(U) \in Nat
  <2> DEFINE F == [d \in D |-> call[d].slot]
  <2>1. F \in Surjection(D, U)
    BY DEF Surjection
  <2> HIDE DEF D, U, F
  <2> QED BY <1>2, <2>1, FS_Surjection, FS_CardinalityType
<1>4. /\ IsFiniteSet(U \cup Aborted)
      /\ Cardinality(U \cup Aborted) = Cardinality(U) + Cardinality(Aborted)
                                       - Cardinality(U \cap Aborted)
      /\ Cardinality(U \cap Aborted) \in Nat
  <2> HIDE DEF U
  <2>1. IsFiniteSet(U \cap Aborted)
    BY <1>3, FS_Subset
  <2> QED BY <1>3, <2>1, AbortedFinite, FS_Union, FS_CardinalityType
<1>5. Cardinality(U \cup Aborted) < Cardinality(Slots)
  <2> HIDE DEF U, D
  <2>1. Cardinality(Aborted) <= MaxAborts
    BY AbortedFinite DEF RoomInv, Types
  <2> QED BY <1>1, <1>2, <1>3, <1>4, <2>1, AbortedFinite
<1>6. PICK x \in Slots : x \notin U \cup Aborted
  <2> HIDE DEF U
  <2>1. \A S : Cardinality(S) < Cardinality(Slots) => S # Slots
    BY <1>1
  <2>2. U \cup Aborted \subseteq Slots
    BY DEF U, Aborted
  <2>3. U \cup Aborted # Slots
    BY <1>5, <2>1
  <2> QED BY <2>2, <2>3
<1>7. ASSUME op[x] # None PROVE FALSE
  <2>1. op[x].state # "aborted"
    BY <1>6, <1>7 DEF Aborted
  <2>2. PICK d \in Callers : Owns(d, x)
    BY <1>7, <2>1 DEF OpInv
  <2>3. d # c
    BY <2>1, <2>2 DEF Owns
  <2> QED BY <2>2, <2>3, <1>6 DEF Owns
<1> QED BY <1>7

----------------------------------------------------------------------------
(* A thread goes on with the worker in slot s. *)

Turns(s) ==
    /\ op' \in [Slots -> Workers \cup {None}]
    /\ \A x \in Slots \ {s} : op'[x] = op[x]
    /\ op'[s] # None /\ Sound(op'[s]) /\ op'[s].state \in {"running", "finished"}
    /\ op'[s].act = op[s].act /\ op'[s].job = op[s].job
    /\ op[s].act # "prepare" => op'[s].fd = op[s].fd
    /\ call' = call /\ loaded' = loaded /\ aborts' = aborts

\* Names and descriptors go, and nothing else does.
Shrinks ==
    /\ part' \in [Jobs -> Files \cup {None}]
    /\ ready' \in [Jobs -> Files \cup {None}]
    /\ data' \in [Files -> Contents \cup {None}]
    /\ residue' \in SUBSET Jobs
    /\ \A j \in Jobs : part'[j] \in {part[j], None} /\ ready'[j] \in {ready[j], None}
    /\ open' \subseteq open
    /\ \A f \in Files : f \in Named(part', ready') \cup open' => data'[f] = data[f]
    /\ \A j \in residue : part'[j] # None => j \in residue'

\* Only the worker's own job loses one, unless it reconciles.
ShrinksFor(s) ==
    /\ Shrinks
    /\ op[s].act # "reconcile" =>
          \A j \in Jobs \ {op[s].job} : part'[j] = part[j] /\ ready'[j] = ready[j]

\* The caller's view is kept.
Stays(s) == \A c \in Callers : Owns(c, s) => Staged(call[c], op[s])

LEMMA Turned ==
    ASSUME ArtInv, NEW s \in Slots, op[s] # None, op[s].state = "running", Turns(s)
    PROVE  /\ (CallInv /\ OpInv /\ ApartInv /\ LoadInv /\ RoomInv)'
           /\ call' \in [Callers -> Calls \cup {None}] /\ op' \in [Slots -> Workers \cup {None}]
           /\ loaded' \in BOOLEAN /\ aborts' \in 0..MaxAborts
<1> USE DEF ArtInv
<1>1. /\ call' \in [Callers -> Calls \cup {None}] /\ op' \in [Slots -> Workers \cup {None}]
      /\ loaded' \in BOOLEAN /\ aborts' \in 0..MaxAborts
  BY DEF Types, Turns
<1>2. CallInv'
  <2> SUFFICES ASSUME NEW c \in Callers, call[c] # None, call[c].slot # None
               PROVE  Awaits(call[c], op'[call[c].slot])
    BY DEF CallInv, Turns
  <2>1. call[c].slot \in Slots /\ Awaits(call[c], op[call[c].slot])
    BY TheCall
  <2>2. CASE call[c].slot = s
    BY <2>1, <2>2 DEF Awaits, Turns
  <2>3. CASE call[c].slot # s
    BY <2>1, <2>3 DEF Turns
  <2> QED BY <2>2, <2>3
<1>3. OpInv'
  <2> SUFFICES ASSUME NEW x \in Slots, op'[x] # None
               PROVE  Sound(op'[x]) /\ (op'[x].state = "aborted" \/ \E c \in Callers : Owns(c, x)')
    BY DEF OpInv
  <2>1. \A c \in Callers : Owns(c, x)' <=> Owns(c, x)
    BY DEF Owns, Turns
  <2>2. CASE x = s
    <3>1. \E c \in Callers : Owns(c, x)
      BY <2>2, Owned
    <3> QED BY <3>1, <2>1, <2>2 DEF Turns
  <2>3. CASE x # s
    BY <2>1, <2>3 DEF Turns, OpInv
  <2> QED BY <2>2, <2>3
<1>4. ApartInv' /\ LoadInv'
  BY DEF Turns, ApartInv, LoadInv, At
<1>5. RoomInv'
  <2>1. Aborted' \subseteq Aborted
    BY DEF Turns, Aborted
  <2>2. Cardinality(Aborted') <= Cardinality(Aborted)
    BY <2>1, AbortedFinite, FS_Subset
  <2> QED BY <2>2, AbortedFinite, <1>1 DEF RoomInv, Turns, Types
<1> QED BY <1>1, <1>2, <1>3, <1>4, <1>5

\* The calls that await another worker see no difference.
LEMMA Aside ==
    ASSUME ArtInv, NEW s \in Slots, op[s] # None, op[s].state = "running", Turns(s),
           NEW d \in Callers, ~Owns(d, s)
    PROVE  /\ Held(d)' = Held(d) /\ (Carries(d)' <=> Carries(d))
           /\ call[d] # None /\ call[d].slot # None => op'[call[d].slot] = op[call[d].slot]
<1> USE DEF ArtInv
<1>1. call' = call
  BY DEF Turns
<1>2. CASE call[d] = None
  BY <1>1, <1>2 DEF Held, Carries
<1>3. CASE call[d] # None /\ call[d].slot # None
  <2>1. call[d].slot \in Slots \ {s}
    BY <1>3, TheCall DEF Owns
  <2>2. op'[call[d].slot] = op[call[d].slot]
    BY <2>1 DEF Turns
  <2> QED BY <1>1, <1>3, <2>2 DEF Held, Carries
<1>4. CASE call[d] # None /\ call[d].slot = None
  <2>1. call[d].pc \notin Acts
    BY <1>4, TheCall DEF Proper
  <2> QED BY <1>1, <1>4, <2>1 DEF Held, Carries, HeldBy, Minds, Acts
<1> QED BY <1>2, <1>3, <1>4

\* The call that awaits the worker in slot s, and nobody else does.
Serves(s, c) ==
    /\ Owns(c, s) /\ call[c] \in Calls /\ Proper(call[c]) /\ Awaits(call[c], op[s])
    /\ op[s] \in Workers /\ Sound(op[s]) /\ Staged(call[c], op[s])
    /\ call[c].pc = op[s].act /\ call[c].job = op[s].job
    /\ \A d \in Callers \ {c} : ~Owns(d, s)

LEMMA Owner ==
    ASSUME ArtInv, NEW s \in Slots, op[s] # None, op[s].state = "running"
    PROVE  \E c \in Callers : Serves(s, c)
<1> USE DEF ArtInv
<1>1. PICK c \in Callers : Owns(c, s)
  BY Owned
<1>2. call[c] # None /\ call[c].slot = s /\ s # None
  BY <1>1 DEF Owns
<1>3. call[c] \in Calls /\ Proper(call[c]) /\ Awaits(call[c], op[s]) /\ Sound(op[s])
      /\ op[s] \in Workers
  BY <1>2, TheCall
<1>4. Staged(call[c], op[s])
  BY <1>2 DEF StageInv
<1>5. \A d \in Callers \ {c} : ~Owns(d, s)
  BY <1>2 DEF ApartInv, Owns
<1> QED BY <1>1, <1>3, <1>4, <1>5 DEF Awaits, Serves

\* What has fewer names is still in order, and so are the calls that look on.
LEMMA ShrinkKeeps ==
    ASSUME ArtInv, NEW s \in Slots, op[s] # None, op[s].state = "running", Turns(s), ShrinksFor(s)
    PROVE  /\ FilesInv'
           /\ \A d \in Callers : call[d] # None /\ call[d].slot # None /\ ~Owns(d, s) =>
                 Staged(call[d], op[call[d].slot])'
<1> USE DEF ArtInv
<1>1. FilesInv'
  <2>1. \A f \in Files : f \in Named(part', ready') \cup open' =>
            f \in Named(part, ready) \cup open /\ data'[f] = data[f]
    BY DEF ShrinksFor, Shrinks, Named
  <2>2. ASSUME NEW j \in Jobs, ready'[j] # None
        PROVE  data'[ready'[j]] = "whole" /\ part'[j] = None
    <3>1. ready'[j] = ready[j] /\ ready[j] \in Files
      BY <2>2 DEF ShrinksFor, Shrinks
    <3>2. ready'[j] \in Named(part', ready')
      BY DEF Named
    <3>3. data[ready[j]] = "whole" /\ part[j] = None
      BY <3>1, <2>2 DEF FilesInv
    <3> QED BY <3>1, <3>2, <3>3, <2>1 DEF ShrinksFor, Shrinks
  <2> QED BY <2>1, <2>2 DEF FilesInv
<1>2. ASSUME NEW d \in Callers, call[d] # None, call[d].slot # None, ~Owns(d, s)
      PROVE  Staged(call[d], op[call[d].slot])'
  <2> DEFINE w == call[d]
             o == op[call[d].slot]
             j == call[d].job
  <2>1. w \in Calls /\ Proper(w) /\ Sound(o) /\ Awaits(w, o) /\ Staged(w, o)
    BY <1>2, TheCall DEF StageInv
  <2>2. call' = call /\ op'[w.slot] = o
    BY <1>2, Aside DEF Turns
  <2>3. j \in Jobs \/ o.act = "reconcile"
    BY <2>1 DEF Awaits, Sound
  <2>4. CASE o.act = "reconcile"
    BY <2>2, <2>4 DEF Staged
  <2>5. CASE j \in Jobs
    <3>1. part'[j] \in {part[j], None} /\ ready'[j] \in {ready[j], None}
          /\ (j \in residue /\ part'[j] # None => j \in residue')
      BY <2>5 DEF ShrinksFor, Shrinks
    <3>2. part'[j] # None => data'[part'[j]] = data[part[j]]
      <4>1. part'[j] # None => part'[j] \in Files /\ part'[j] \in Named(part', ready')
        BY <2>5 DEF ShrinksFor, Shrinks, Named
      <4> QED BY <4>1, <3>1 DEF ShrinksFor, Shrinks
    <3>3. w.alone => part'[j] = part[j]
      <4> SUFFICES ASSUME w.alone PROVE part'[j] = part[j]
        OBVIOUS
      <4>1. PICK c \in Callers : Owns(c, s) /\ call[c].pc = op[s].act /\ call[c].job = op[s].job
        BY Owner DEF Serves
      <4>2. c # d /\ call[c] # None
        BY <4>1, <1>2 DEF Owns
      <4>3. call[c].job # j
        BY <4>2, <1>2, <2>5 DEF ApartInv
      <4>4. op[s].act # "reconcile"
        BY <4>1, <4>2, <1>2 DEF LoadInv, At
      <4> QED BY <4>1, <4>3, <4>4, <2>5 DEF ShrinksFor
    <3> HIDE DEF w, o, j
    <3>4. Staged(w, o)'
      <4>1. w' = w /\ o' = o /\ j' = j
        BY <2>2 DEF w, o, j
      <4>2. w.job = j
        BY DEF w, j
      <4> QED BY <2>1, <3>1, <3>2, <3>3, <4>1, <4>2 DEF Staged
    <3> QED BY <3>4 DEF w, o
  <2> QED BY <2>3, <2>4, <2>5
<1> QED BY <1>1, <1>2

\* A partial is minded by those who did so, but for the one that goes on.
LEMMA StillMinded ==
    ASSUME ArtInv, NEW s \in Slots, op[s] # None, op[s].state = "running", Turns(s), ShrinksFor(s),
           \A c \in Callers : Owns(c, s) /\ Carries(c) => Carries(c)'
    PROVE  PartInv'
<1> USE DEF ArtInv
<1> SUFFICES ASSUME NEW j \in Jobs \ residue', part'[j] # None
             PROVE  \E c \in Callers : Carries(c)' /\ call'[c].job = j
  BY DEF PartInv
<1>1. part[j] # None /\ j \notin residue
  BY DEF ShrinksFor, Shrinks
<1>2. PICK c \in Callers : Carries(c) /\ call[c].job = j
  BY <1>1 DEF PartInv
<1>3. Carries(c)'
  BY <1>2, Aside
<1> QED BY <1>2, <1>3 DEF Turns

LEMMA Shrunk ==
    ASSUME ArtInv, NEW s \in Slots, op[s] # None, op[s].state = "running", Turns(s), ShrinksFor(s),
           open' = open, op'[s].fd = op[s].fd, op[s].step # "close", op'[s].step # "close",
           Stays(s)'
    PROVE  ArtInv'
<1> USE DEF ArtInv
<1>1. /\ (CallInv /\ OpInv /\ ApartInv /\ LoadInv /\ RoomInv)'
      /\ call' \in [Callers -> Calls \cup {None}] /\ op' \in [Slots -> Workers \cup {None}]
      /\ loaded' \in BOOLEAN /\ aborts' \in 0..MaxAborts
  BY Turned
<1>2. Types'
  BY <1>1 DEF Types, ShrinksFor, Shrinks
<1>3. FilesInv' /\ StageInv'
  <2>1. ASSUME NEW d \in Callers, call'[d] # None, call'[d].slot # None
        PROVE  Staged(call[d], op[call[d].slot])'
    <3>1. call[d] # None /\ call[d].slot # None
      BY <2>1 DEF Turns
    <3>2. CASE Owns(d, s)
      <4>1. Owns(d, s)' /\ call'[d].slot = s
        BY <3>2 DEF Owns, Turns
      <4> QED BY <4>1 DEF Stays
    <3> QED BY <3>1, <3>2, ShrinkKeeps
  <2> QED BY <2>1, ShrinkKeeps DEF StageInv
<1>4. \A d \in Callers : Held(d)' = Held(d) /\ (Carries(d)' <=> Carries(d))
  <2> SUFFICES ASSUME NEW d \in Callers, Owns(d, s)
               PROVE  Held(d)' = Held(d) /\ (Carries(d)' <=> Carries(d))
    BY Aside
  <2>1. call'[d] = call[d] /\ call[d] # None /\ call[d].slot = s
    BY DEF Turns, Owns
  <2> QED BY <2>1 DEF Held, HeldBy, Carries, Minds
<1>5. HeldInv'
  BY <1>4 DEF HeldInv, ShrinksFor, Shrinks, Turns
<1>6. OpenInv'
  BY <1>4 DEF OpenInv, Turns
<1>7. PartInv'
  BY <1>4, StillMinded
<1> QED BY <1>1, <1>2, <1>3, <1>5, <1>6, <1>7

----------------------------------------------------------------------------
(* The steps that take names away, or nothing. *)

\* What a step is a step of.
LEMMA Acting ==
    ASSUME NEW o \in Workers, Sound(o)
    PROVE  /\ o.step \in {"look", "create"} => o.act = "prepare"
           /\ o.step = "hash" => o.act \in {"prepare", "promote"}
           /\ o.step = "put" => o.act = "write"
           /\ o.step = "close" => o.act \in {"finish", "abandon", "drop"}
           /\ o.step \in {"check", "replace", "rehash", "undo"} => o.act = "promote"
           /\ o.step \in {"partstat", "unpart"} => o.act \in {"remove", "abandon", "drop"}
           /\ o.step \in {"readystat", "unready"} => o.act = "remove"
           /\ o.step = "scan" => o.act = "reconcile"
<1>1. o.act \in Acts /\ o.step \in Stages(o.act)
  BY DEF Workers, Sound
<1> QED BY <1>1 DEF Stages, FirstStep, Acts

\* The worker in slot s has another step, state and result.
Noted(s, step, state, result) ==
    op' = [op EXCEPT ![s] = [@ EXCEPT !.step = step, !.state = state, !.result = result]]

LEMMA Again ==
    ASSUME ArtInv, NEW s \in Slots, op[s] # None, op[s].state = "running",
           UNCHANGED <<call, loaded, aborts>>,
           NEW step \in Stages(op[s].act), NEW state \in {"running", "finished"},
           NEW result \in {"ok", "reuse", "busy", "failed"},
           Noted(s, step, state, result),
           state = "running" /\ op[s].act \notin {"abandon", "drop"} => result = "ok",
           op[s].act # "prepare" => result \in {"ok", "failed"},
           op[s].act = "prepare" /\ state = "finished" => result # "ok",
           op[s].act = "promote" /\ state = "finished" /\ result = "ok" => step = "rehash"
    PROVE  /\ Turns(s)
           /\ op'[s].act = op[s].act /\ op'[s].job = op[s].job /\ op'[s].fd = op[s].fd
           /\ op'[s].step = step /\ op'[s].state = state /\ op'[s].result = result
<1> USE DEF ArtInv
<1>1. op[s] \in Workers /\ Sound(op[s])
  BY DEF Types, OpInv
<1>2. op' = [op EXCEPT ![s] = [op[s] EXCEPT !.step = step, !.state = state, !.result = result]]
  BY DEF Noted
<1>3. PICK o : o = [op[s] EXCEPT !.step = step, !.state = state, !.result = result]
  OBVIOUS
<1>4. step \in Steps
  <2>1. op[s].act \in Acts
    BY <1>1 DEF Workers
  <2> QED BY <2>1 DEF Steps, Stages, FirstStep, Acts
<1>5. o \in Workers
  BY <1>1, <1>3, <1>4 DEF Workers
<1>6. /\ o.act = op[s].act /\ o.job = op[s].job /\ o.fd = op[s].fd
      /\ o.step = step /\ o.state = state /\ o.result = result
  BY <1>1, <1>3 DEF Workers
<1>7. op'[s] = o /\ \A x \in Slots \ {s} : op'[x] = op[x]
  BY <1>2, <1>3 DEF Types
<1>8. op' \in [Slots -> Workers \cup {None}]
  BY <1>2, <1>3, <1>5 DEF Types
<1>9. Sound(o)
  BY <1>1, <1>6 DEF Sound
<1>10. o # None
  BY <1>5
<1> HIDE DEF ArtInv
<1> QED BY <1>6, <1>7, <1>8, <1>9, <1>10 DEF Turns

LEMMA Proceeds ==
    ASSUME ArtInv, NEW s \in Slots, op[s] # None, op[s].state = "running",
           UNCHANGED <<call, loaded, aborts>>,
           NEW step \in Stages(op[s].act), Proceed(s, step)
    PROVE  /\ Turns(s)
           /\ op'[s].act = op[s].act /\ op'[s].job = op[s].job /\ op'[s].fd = op[s].fd
           /\ op'[s].step = step /\ op'[s].state = "running" /\ op'[s].result = op[s].result
<1>1. op[s] \in Workers /\ Sound(op[s])
  BY DEF Types, OpInv, ArtInv
<1>2. op[s].result \in {"ok", "reuse", "busy", "failed"}
  BY <1>1 DEF Workers
<1>3. [op[s] EXCEPT !.step = step]
      = [op[s] EXCEPT !.step = step, !.state = "running", !.result = op[s].result]
  BY <1>1 DEF Workers
<1>4. op' = [op EXCEPT ![s] = [@ EXCEPT !.step = step, !.state = "running",
                                        !.result = op[s].result]]
  BY <1>3 DEF Proceed
<1>5. PICK r \in {"ok", "reuse", "busy", "failed"} : r = op[s].result
  BY <1>2
<1>6. Noted(s, step, "running", r)
  BY <1>4, <1>5 DEF Noted
<1>7. (op[s].act \notin {"abandon", "drop"} => r = "ok")
      /\ (op[s].act # "prepare" => r \in {"ok", "failed"})
  BY <1>1, <1>5 DEF Sound
<1> QED BY <1>5, <1>6, <1>7, Again

LEMMA Ends ==
    ASSUME ArtInv, NEW s \in Slots, op[s] # None, op[s].state = "running",
           UNCHANGED <<call, loaded, aborts>>,
           NEW result \in {"ok", "reuse", "busy", "failed"}, End(s, result),
           op[s].act # "prepare" => result \in {"ok", "failed"},
           op[s].act = "prepare" => result # "ok",
           op[s].act = "promote" /\ result = "ok" => op[s].step = "rehash"
    PROVE  /\ Turns(s)
           /\ op'[s].act = op[s].act /\ op'[s].job = op[s].job /\ op'[s].fd = op[s].fd
           /\ op'[s].step = op[s].step /\ op'[s].state = "finished"
           /\ op'[s].result = IF op[s].result = "failed" THEN "failed" ELSE result
<1>1. op[s] \in Workers /\ Sound(op[s])
  BY DEF Types, OpInv, ArtInv
<1>2. PICK r \in {"ok", "reuse", "busy", "failed"} :
          r = IF op[s].result = "failed" THEN "failed" ELSE result
  OBVIOUS
<1>3. PICK t \in Stages(op[s].act) : t = op[s].step
  BY <1>1 DEF Sound
<1>4. op' = [op EXCEPT ![s] = [op[s] EXCEPT !.state = "finished",
               !.result = IF op[s].result = "failed" THEN "failed" ELSE result]]
  BY DEF End
<1>5. (IF op[s].result = "failed" THEN "failed" ELSE result) = r
  BY <1>2
<1>6. [op[s] EXCEPT !.state = "finished", !.result = r]
      = [op[s] EXCEPT !.step = t, !.state = "finished", !.result = r]
  BY <1>1, <1>3 DEF Workers
<1>7. Noted(s, t, "finished", r)
  BY <1>4, <1>5, <1>6 DEF Noted
<1>8. /\ op[s].act # "prepare" => r \in {"ok", "failed"}
      /\ op[s].act = "prepare" => r # "ok"
      /\ op[s].act = "promote" /\ r = "ok" => t = "rehash"
  BY <1>2, <1>3
<1>9. /\ Turns(s)
      /\ op'[s].act = op[s].act /\ op'[s].job = op[s].job /\ op'[s].fd = op[s].fd
      /\ op'[s].step = t /\ op'[s].state = "finished" /\ op'[s].result = r
  BY <1>7, <1>8, Again
<1> QED BY <1>2, <1>3, <1>9

\* The owner's view decides.
LEMMA OwnerStays ==
    ASSUME ArtInv, NEW s \in Slots, Turns(s), NEW c \in Callers, Serves(s, c),
           Staged(call[c], op[s])'
    PROVE  Stays(s)'
<1>1. \A d \in Callers : Owns(d, s)' => d = c
  BY DEF Owns, Turns, Serves
<1> QED BY <1>1 DEF Stays

LEMMA NoDisk ==
    ASSUME ArtInv, NEW s \in Slots, UNCHANGED disk
    PROVE  ShrinksFor(s) /\ open' = open
  BY DEF ArtInv, ShrinksFor, Shrinks, disk, Types

\* What a worker may do to the names of its job.
LEMMA PartUnlinked ==
    ASSUME Types, NEW s \in Slots, op[s].job \in Jobs,
           Disk([part EXCEPT ![op[s].job] = None], ready, data, open, {})
    PROVE  ShrinksFor(s) /\ open' = open /\ part'[op[s].job] = None
<1>1. /\ part' = [part EXCEPT ![op[s].job] = None] /\ ready' = ready /\ open' = open
      /\ data' = [f \in Files |->
                     IF f \in Named(part', ready') \cup open' THEN data[f] ELSE None]
      /\ residue' = {j \in residue : part'[j] # None}
  BY DEF Disk
<1> QED BY <1>1 DEF Types, ShrinksFor, Shrinks

LEMMA ReadyUnlinked ==
    ASSUME Types, NEW s \in Slots, op[s].job \in Jobs,
           Disk(part, [ready EXCEPT ![op[s].job] = None], data, open, {})
    PROVE  ShrinksFor(s) /\ open' = open /\ part' = part
<1>1. /\ ready' = [ready EXCEPT ![op[s].job] = None] /\ part' = part /\ open' = open
      /\ data' = [f \in Files |->
                     IF f \in Named(part', ready') \cup open' THEN data[f] ELSE None]
      /\ residue' = {j \in residue : part'[j] # None}
  BY DEF Disk
<1> QED BY <1>1 DEF Types, ShrinksFor, Shrinks

LEMMA LeftBehind ==
    ASSUME Types, NEW s \in Slots, op[s].job \in Jobs,
           Disk(part, ready, data, open, {op[s].job})
    PROVE  /\ ShrinksFor(s) /\ open' = open /\ part' = part
           /\ part'[op[s].job] # None => op[s].job \in residue'
<1>1. /\ ready' = ready /\ part' = part /\ open' = open
      /\ data' = [f \in Files |->
                     IF f \in Named(part', ready') \cup open' THEN data[f] ELSE None]
      /\ residue' = {j \in residue \cup {op[s].job} : part'[j] # None}
  BY DEF Disk
<1> QED BY <1>1 DEF Types, ShrinksFor, Shrinks

\* A worker that goes on, perhaps with fewer names in the directory.
LEMMA GoesOn ==
    ASSUME ArtInv, NEW s \in Slots, op[s] # None, op[s].state = "running", Turns(s),
           UNCHANGED disk \/ (ShrinksFor(s) /\ open' = open), op'[s].fd = op[s].fd,
           op[s].step # "close", op'[s].step # "close",
           NEW c \in Callers, Serves(s, c), Staged(call[c], op[s])'
    PROVE  ArtInv'
<1>1. ShrinksFor(s) /\ open' = open
  BY NoDisk
<1>2. Stays(s)'
  BY OwnerStays
<1> QED BY <1>1, <1>2, Shrunk

LEMMA LookKeeps ==
    ASSUME ArtInv, NEW s \in Slots, Look(s)
    PROVE  ArtInv'
<1>1. op[s] # None /\ op[s].state = "running" /\ op[s].step = "look" /\ UNCHANGED disk
      /\ UNCHANGED <<call, loaded, aborts>>
  BY DEF Look, Running
<1>2. PICK c \in Callers : Serves(s, c)
  BY <1>1, Owner
<1>3. op[s].act = "prepare" /\ {"hash", "create"} \subseteq Stages(op[s].act)
  BY <1>1, <1>2, Acting DEF Stages, Serves
<1>4. call' = call /\ ready' = ready
  BY <1>1 DEF disk
<1>5. CASE Proceed(s, "hash")
  <2>1. Turns(s) /\ op'[s].fd = op[s].fd /\ op'[s].act = "prepare" /\ op'[s].step = "hash"
    BY <1>1, <1>3, <1>5, Proceeds
  <2>2. Staged(call[c], op[s])'
    BY <2>1 DEF Staged
  <2> QED BY <1>1, <1>2, <2>1, <2>2, GoesOn
<1>6. CASE End(s, "failed") \/ End(s, "busy")
  <2>1. /\ Turns(s) /\ op'[s].fd = op[s].fd /\ op'[s].act = "prepare"
        /\ op'[s].step = "look" /\ op'[s].state = "finished"
    BY <1>1, <1>3, <1>6, Ends
  <2>2. Staged(call[c], op[s])'
    BY <2>1 DEF Staged
  <2> QED BY <1>1, <1>2, <2>1, <2>2, GoesOn
<1>7. CASE ready[op[s].job] = None /\ Proceed(s, "create")
  <2>1. Turns(s) /\ op'[s].fd = op[s].fd /\ op'[s].act = "prepare" /\ op'[s].step = "create"
    BY <1>1, <1>3, <1>7, Proceeds
  <2>2. Staged(call[c], op[s])'
    BY <2>1, <1>2, <1>4, <1>7 DEF Staged, Serves
  <2> QED BY <1>1, <1>2, <2>1, <2>2, GoesOn
<1> QED BY <1>5, <1>6, <1>7 DEF Look, HasReady

LEMMA HashReadyKeeps ==
    ASSUME ArtInv, NEW s \in Slots, HashReady(s)
    PROVE  ArtInv'
<1>1. op[s] # None /\ op[s].state = "running" /\ op[s].step = "hash" /\ op[s].act = "prepare"
      /\ UNCHANGED disk /\ UNCHANGED <<call, loaded, aborts>>
      /\ (End(s, "reuse") \/ End(s, "failed"))
  BY DEF HashReady, Running
<1>2. PICK c \in Callers : Serves(s, c)
  BY <1>1, Owner
<1>3. Turns(s) /\ op'[s].fd = op[s].fd /\ op'[s].act = "prepare" /\ op'[s].step = "hash"
  BY <1>1, Ends
<1>4. Staged(call[c], op[s])'
  BY <1>3 DEF Staged
<1> QED BY <1>1, <1>2, <1>3, <1>4, GoesOn

\* A promotion that fails, with whatever that has left.
LEMMA PromoteFails ==
    ASSUME ArtInv, NEW s \in Slots, op[s] # None, op[s].state = "running",
           op[s].act = "promote", op[s].step # "close", UNCHANGED <<call, loaded, aborts>>,
           UNCHANGED disk \/ (ShrinksFor(s) /\ open' = open), End(s, "failed")
    PROVE  ArtInv'
<1>1. PICK c \in Callers : Serves(s, c)
  BY Owner
<1>2. /\ Turns(s) /\ op'[s].fd = op[s].fd /\ op'[s].act = "promote"
      /\ op'[s].step = op[s].step /\ op'[s].state = "finished"
  BY Ends
<1>3. op[s].job \in Jobs /\ call[c].job = op[s].job
  BY <1>1 DEF Sound, Serves
<1>4. part[op[s].job] = None => part'[op[s].job] = None
  BY <1>3 DEF ShrinksFor, Shrinks, disk
<1>5. Staged(call[c], op[s])'
  BY <1>1, <1>2, <1>3, <1>4 DEF Staged, Serves
<1> QED BY <1>1, <1>2, <1>5, GoesOn

LEMMA CheckKeeps ==
    ASSUME ArtInv, NEW s \in Slots, Check(s)
    PROVE  ArtInv'
<1>1. op[s] # None /\ op[s].state = "running" /\ op[s].step = "check" /\ UNCHANGED disk
      /\ UNCHANGED <<call, loaded, aborts>> /\ (Proceed(s, "hash") \/ End(s, "failed"))
  BY DEF Check, Running
<1>2. PICK c \in Callers : Serves(s, c)
  BY <1>1, Owner
<1>3. op[s].act = "promote" /\ "hash" \in Stages(op[s].act)
  BY <1>1, <1>2, Acting DEF Stages, Serves
<1>4. CASE Proceed(s, "hash")
  <2>1. Turns(s) /\ op'[s].fd = op[s].fd /\ op'[s].act = "promote" /\ op'[s].step = "hash"
    BY <1>1, <1>3, <1>4, Proceeds
  <2>2. Staged(call[c], op[s])'
    BY <2>1 DEF Staged
  <2> QED BY <1>1, <1>2, <2>1, <2>2, GoesOn
<1>5. CASE End(s, "failed")
  BY <1>1, <1>3, <1>5, PromoteFails
<1> QED BY <1>1, <1>4, <1>5

\* What is renamed was whole when it was hashed, and nobody writes to it.
LEMMA HashPartialKeeps ==
    ASSUME ArtInv, NEW s \in Slots, HashPartial(s)
    PROVE  ArtInv'
<1>1. op[s] # None /\ op[s].state = "running" /\ op[s].step = "hash" /\ op[s].act = "promote"
      /\ UNCHANGED disk /\ UNCHANGED <<call, loaded, aborts>>
  BY DEF HashPartial, Running
<1>2. PICK c \in Callers : Serves(s, c)
  BY <1>1, Owner
<1>3. "replace" \in Stages(op[s].act)
  BY <1>1 DEF Stages
<1>4. CASE data[part[op[s].job]] = "whole" /\ Proceed(s, "replace")
  <2>1. Turns(s) /\ op'[s].fd = op[s].fd /\ op'[s].act = "promote" /\ op'[s].step = "replace"
    BY <1>1, <1>3, <1>4, Proceeds
  <2>2. data'[part'[op[s].job]] = "whole" /\ call'[c].job = op[s].job
    BY <1>1, <1>2, <1>4 DEF disk, Serves
  <2>3. Staged(call[c], op[s])'
    BY <2>1, <2>2 DEF Staged
  <2> QED BY <1>1, <1>2, <2>1, <2>3, GoesOn
<1>5. CASE End(s, "failed")
  BY <1>1, <1>5, PromoteFails
<1> QED BY <1>4, <1>5 DEF HashPartial, Publishable, Whole

LEMMA RehashKeeps ==
    ASSUME ArtInv, NEW s \in Slots, Rehash(s)
    PROVE  ArtInv'
<1>1. op[s] # None /\ op[s].state = "running" /\ op[s].step = "rehash" /\ UNCHANGED disk
      /\ UNCHANGED <<call, loaded, aborts>> /\ (Proceed(s, "undo") \/ End(s, "ok"))
  BY DEF Rehash, Running
<1>2. PICK c \in Callers : Serves(s, c)
  BY <1>1, Owner
<1>3. op[s].act = "promote" /\ "undo" \in Stages(op[s].act)
  BY <1>1, <1>2, Acting DEF Stages, Serves
<1>4. Turns(s) /\ op'[s].fd = op[s].fd /\ op'[s].act = "promote"
      /\ op'[s].step \in {"undo", "rehash"}
  <2>1. CASE Proceed(s, "undo")
    BY <1>1, <1>3, <2>1, Proceeds
  <2>2. CASE End(s, "ok")
    BY <1>1, <1>3, <2>2, Ends
  <2> QED BY <1>1, <2>1, <2>2
<1>5. Staged(call[c], op[s])'
  <2>1. part'[call'[c].job] = None
    BY <1>1, <1>2, <1>3 DEF Staged, Serves, disk
  <2> QED BY <1>4, <2>1 DEF Staged
<1> QED BY <1>1, <1>2, <1>4, <1>5, GoesOn

LEMMA UndoKeeps ==
    ASSUME ArtInv, NEW s \in Slots, Undo(s)
    PROVE  ArtInv'
<1>1. op[s] # None /\ op[s].state = "running" /\ op[s].step = "undo" /\ End(s, "failed")
      /\ UNCHANGED <<call, loaded, aborts>>
  BY DEF Undo, Running
<1>2. PICK c \in Callers : Serves(s, c)
  BY <1>1, Owner
<1>3. op[s].act = "promote" /\ op[s].job \in Jobs
  BY <1>1, <1>2, Acting DEF Sound, Serves
<1>4. UNCHANGED disk \/ (ShrinksFor(s) /\ open' = open)
  BY <1>3, ReadyUnlinked DEF Undo, ArtInv
<1> QED BY <1>1, <1>3, <1>4, PromoteFails

\* A cleanup goes on to its last file, or ends well.
LEMMA LastOne ==
    ASSUME ArtInv, NEW s \in Slots, op[s] # None, op[s].state = "running",
           op[s].act \in {"remove", "abandon", "drop"}, op[s].step # "close",
           UNCHANGED <<call, loaded, aborts>>, Last(s),
           UNCHANGED disk \/ (ShrinksFor(s) /\ open' = open), part'[op[s].job] = None
    PROVE  ArtInv'
<1>1. PICK c \in Callers : Serves(s, c)
  BY Owner
<1>2. CASE op[s].act = "remove"
  <2>1. Proceed(s, "readystat") /\ "readystat" \in Stages(op[s].act)
    BY <1>2 DEF Last, Stages
  <2>2. Turns(s) /\ op'[s].fd = op[s].fd /\ op'[s].act = "remove" /\ op'[s].step = "readystat"
    BY <1>2, <2>1, Proceeds
  <2>3. Staged(call[c], op[s])'
    BY <2>2 DEF Staged
  <2> QED BY <1>1, <2>2, <2>3, GoesOn
<1>3. CASE op[s].act \in {"abandon", "drop"}
  <2>1. End(s, "ok")
    BY <1>3 DEF Last
  <2>2. /\ Turns(s) /\ op'[s].fd = op[s].fd /\ op'[s].act = op[s].act
        /\ op'[s].step = op[s].step /\ op'[s].state = "finished"
        /\ op'[s].result = "failed" => op[s].result = "failed"
    BY <1>3, <2>1, Ends
  <2>3. Staged(call[c], op[s])'
    BY <1>1, <1>3, <2>2 DEF Staged, Serves
  <2> QED BY <1>1, <2>2, <2>3, GoesOn
<1> QED BY <1>2, <1>3

\* A cleanup fails; what is left of the partial is accounted for.
LEMMA CleanupFails ==
    ASSUME ArtInv, NEW s \in Slots, op[s] # None, op[s].state = "running",
           op[s].act \in {"remove", "abandon", "drop"}, op[s].step # "close",
           UNCHANGED <<call, loaded, aborts>>, End(s, "failed"),
           UNCHANGED disk \/ (ShrinksFor(s) /\ open' = open),
           \/ op[s].act = "remove"
           \/ /\ part'[op[s].job] = None \/ op[s].job \in residue'
              /\ DiskFaults \/ (op[s].step = "unpart" /\ part[op[s].job] = None)
    PROVE  ArtInv'
<1>1. PICK c \in Callers : Serves(s, c)
  BY Owner
<1>2. /\ Turns(s) /\ op'[s].fd = op[s].fd /\ op'[s].act = op[s].act
      /\ op'[s].step = op[s].step /\ op'[s].state = "finished"
  BY Ends
<1>3. Staged(call[c], op[s])'
  BY <1>1, <1>2 DEF Staged, Serves
<1> QED BY <1>1, <1>2, <1>3, GoesOn

LEMMA PartStatKeeps ==
    ASSUME ArtInv, NEW s \in Slots, PartStat(s)
    PROVE  ArtInv'
<1>1. op[s] # None /\ op[s].state = "running" /\ op[s].step = "partstat"
      /\ UNCHANGED <<call, loaded, aborts>>
  BY DEF PartStat, Running
<1>2. PICK c \in Callers : Serves(s, c)
  BY <1>1, Owner
<1>3. /\ op[s].act \in {"remove", "abandon", "drop"} /\ op[s].job \in Jobs
      /\ "unpart" \in Stages(op[s].act)
  BY <1>1, <1>2, Acting DEF Sound, Serves, Stages
<1>4. CASE part[op[s].job] = None /\ Last(s) /\ UNCHANGED disk
  <2>1. part'[op[s].job] = None
    BY <1>4 DEF disk
  <2> QED BY <1>1, <1>3, <1>4, <2>1, LastOne
<1>5. CASE part[op[s].job] # None /\ Proceed(s, "unpart") /\ UNCHANGED disk
  <2>1. /\ Turns(s) /\ op'[s].fd = op[s].fd /\ op'[s].act = op[s].act
        /\ op'[s].step = "unpart" /\ op'[s].state = "running" /\ op'[s].result = op[s].result
    BY <1>1, <1>3, <1>5, Proceeds
  <2>2. part'[op[s].job] # None /\ call'[c] = call[c] /\ call[c].job = op[s].job
    BY <1>1, <1>2, <1>5 DEF disk, Serves
  <2>3. Staged(call[c], op[s])'
    BY <1>2, <1>3, <2>1, <2>2 DEF Staged, Serves
  <2> QED BY <1>1, <1>2, <1>5, <2>1, <2>3, GoesOn
<1>6. CASE DiskFaults /\ End(s, "failed") /\ Disk(part, ready, data, open, {op[s].job})
  <2>1. /\ ShrinksFor(s) /\ open' = open
        /\ part'[op[s].job] = None \/ op[s].job \in residue'
    BY <1>3, <1>6, LeftBehind DEF ArtInv
  <2> QED BY <1>1, <1>3, <1>6, <2>1, CleanupFails
<1> QED BY <1>4, <1>5, <1>6 DEF PartStat

LEMMA UnpartKeeps ==
    ASSUME ArtInv, NEW s \in Slots, Unpart(s)
    PROVE  ArtInv'
<1>1. op[s] # None /\ op[s].state = "running" /\ op[s].step = "unpart"
      /\ UNCHANGED <<call, loaded, aborts>>
  BY DEF Unpart, Running
<1>2. PICK c \in Callers : Serves(s, c)
  BY <1>1, Owner
<1>3. op[s].act \in {"remove", "abandon", "drop"} /\ op[s].job \in Jobs
  BY <1>1, <1>2, Acting DEF Sound, Serves
<1>4. ASSUME Disk([part EXCEPT ![op[s].job] = None], ready, data, open, {})
      PROVE  ShrinksFor(s) /\ open' = open /\ part'[op[s].job] = None
  BY <1>3, <1>4, PartUnlinked DEF ArtInv
<1>5. CASE Last(s) /\ Disk([part EXCEPT ![op[s].job] = None], ready, data, open, {})
  BY <1>1, <1>3, <1>4, <1>5, LastOne
<1>6. CASE DiskFaults /\ End(s, "failed")
           /\ Disk([part EXCEPT ![op[s].job] = None], ready, data, open, {})
  BY <1>1, <1>3, <1>4, <1>6, CleanupFails
<1>7. CASE part[op[s].job] = None /\ End(s, "failed") /\ UNCHANGED disk
  <2>1. part'[op[s].job] = None
    BY <1>7 DEF disk
  <2> QED BY <1>1, <1>3, <1>7, <2>1, CleanupFails
<1>8. CASE DiskFaults /\ End(s, "failed") /\ Disk(part, ready, data, open, {op[s].job})
  <2>1. /\ ShrinksFor(s) /\ open' = open
        /\ part'[op[s].job] = None \/ op[s].job \in residue'
    BY <1>3, <1>8, LeftBehind DEF ArtInv
  <2> QED BY <1>1, <1>3, <1>8, <2>1, CleanupFails
<1> QED BY <1>5, <1>6, <1>7, <1>8 DEF Unpart

LEMMA ReadyStatKeeps ==
    ASSUME ArtInv, NEW s \in Slots, ReadyStat(s) \/ Unready(s)
    PROVE  ArtInv'
<1>1. op[s] # None /\ op[s].state = "running" /\ op[s].step \in {"readystat", "unready"}
      /\ UNCHANGED <<call, loaded, aborts>>
  BY DEF ReadyStat, Unready, Running
<1>2. PICK c \in Callers : Serves(s, c)
  BY <1>1, Owner
<1>3. /\ op[s].act = "remove" /\ op[s].job \in Jobs
      /\ "unready" \in Stages(op[s].act)
  BY <1>1, <1>2, Acting DEF Sound, Serves, Stages
<1>4. UNCHANGED disk \/ (ShrinksFor(s) /\ open' = open)
  BY <1>3, ReadyUnlinked DEF ArtInv, ReadyStat, Unready
<1>5. Turns(s) /\ op'[s].fd = op[s].fd /\ op'[s].act = "remove" /\ op'[s].step # "close"
  <2>1. CASE Proceed(s, "unready")
    BY <1>1, <1>3, <2>1, Proceeds
  <2>2. CASE End(s, "ok") \/ End(s, "failed")
    BY <1>1, <1>3, <2>2, Ends
  <2> QED BY <2>1, <2>2 DEF ReadyStat, Unready
<1>6. Staged(call[c], op[s])'
  BY <1>5 DEF Staged
<1> QED BY <1>1, <1>2, <1>4, <1>5, <1>6, GoesOn

LEMMA ReconcileKeeps ==
    ASSUME ArtInv, NEW s \in Slots, Reconcile(s)
    PROVE  ArtInv'
<1>1. op[s] # None /\ op[s].state = "running" /\ op[s].step = "scan"
      /\ UNCHANGED <<call, loaded, aborts>>
  BY DEF Reconcile, Running
<1>2. PICK c \in Callers : Serves(s, c)
  BY <1>1, Owner
<1>3. op[s].act = "reconcile" /\ Sound(op[s]) /\ op[s] \in Workers
  BY <1>1, <1>2, Acting DEF Serves
<1>4. CASE UNCHANGED disk /\ (End(s, "ok") \/ End(s, "failed"))
  <2>1. Turns(s) /\ op'[s].fd = op[s].fd /\ op'[s].act = "reconcile" /\ op'[s].step = "scan"
    BY <1>1, <1>3, <1>4, Ends
  <2>2. Staged(call[c], op[s])'
    BY <2>1 DEF Staged
  <2> QED BY <1>1, <1>2, <1>4, <2>1, <2>2, GoesOn
<1>5. ASSUME NEW j \in Jobs, op' = op,
             \/ Disk([part EXCEPT ![j] = None], ready, data, open, {})
             \/ Disk(part, [ready EXCEPT ![j] = None], data, open, {})
      PROVE  ArtInv'
  <2>1. /\ part' = part \/ part' = [part EXCEPT ![j] = None]
        /\ ready' = ready \/ ready' = [ready EXCEPT ![j] = None]
        /\ open' = open
        /\ data' = [f \in Files |->
                     IF f \in Named(part', ready') \cup open' THEN data[f] ELSE None]
        /\ residue' = {i \in residue : part'[i] # None}
    BY <1>5 DEF Disk
  <2>2. ShrinksFor(s)
    BY <2>1, <1>3 DEF ShrinksFor, Shrinks, ArtInv, Types
  <2>3. Turns(s)
    BY <1>1, <1>3, <1>5 DEF Turns, ArtInv, Types
  <2>4. Staged(call[c], op[s])'
    BY <1>3, <1>5 DEF Staged
  <2> QED BY <1>1, <1>2, <1>5, <2>1, <2>2, <2>3, <2>4, GoesOn
<1> QED BY <1>4, <1>5 DEF Reconcile, Stale

----------------------------------------------------------------------------
(* The steps that make, write, close or rename a file. *)

\* Only a download holds a descriptor, minds a partial, or awaits such a worker.
LEMMA Downloads ==
    ASSUME ArtInv, NEW d \in Callers, call[d] # None,
           Held(d) # None \/ call[d].pc \in {"prepare", "promote", "abandon", "drop", "finish", "write"}
    PROVE  call[d].kind = "download" /\ call[d].job \in Jobs
<1>1. call[d] \in Calls /\ Proper(call[d])
  BY TheCall DEF ArtInv
<1>2. call[d].pc \in {"prepare", "http", "promote", "abandon", "drop", "finish", "write"}
  BY DEF Held, HeldBy
<1> QED BY <1>1, <1>2 DEF Proper, Legs, Calls

\* A download's worker only disturbs the names of its job, which no other
\* download has.
LEMMA OthersStay ==
    ASSUME ArtInv, NEW s \in Slots, op[s] # None, op[s].state = "running", Turns(s),
           NEW c \in Callers, Serves(s, c), call[c].kind = "download",
           \A k \in Jobs \ {op[s].job} :
              /\ part'[k] = part[k] /\ ready'[k] = ready[k]
              /\ part[k] # None => /\ data[part[k]] = "whole" => data'[part[k]] = "whole"
                                   /\ k \in residue => k \in residue',
           Staged(call[c], op[s])'
    PROVE  StageInv'
<1> USE DEF ArtInv
<1> SUFFICES ASSUME NEW d \in Callers, call'[d] # None, call'[d].slot # None
             PROVE  Staged(call[d], op[call[d].slot])'
  BY DEF StageInv
<1>1. call' = call
  BY DEF Turns
<1>2. CASE d = c
  BY <1>1, <1>2 DEF Serves, Owns
<1>3. CASE d # c
  <2> DEFINE w == call[d]
             o == op[call[d].slot]
             k == call[d].job
  <2>1. w \in Calls /\ Proper(w) /\ Awaits(w, o) /\ Staged(w, o)
    BY <1>1, TheCall DEF StageInv
  <2>2. op'[w.slot] = o
    BY <1>1, <1>3, Aside DEF Serves
  <2>3. CASE o.act \in {"prepare", "promote", "abandon", "drop"}
    <3>1. w.kind = "download" /\ k \in Jobs
      BY <1>1, <2>1, <2>3, Downloads DEF Awaits
    <3>2. k # op[s].job
      BY <1>1, <1>3, <3>1 DEF ApartInv, Serves, Owns
    <3>3. /\ part'[k] = part[k] /\ ready'[k] = ready[k]
          /\ part[k] # None => /\ data[part[k]] = "whole" => data'[part[k]] = "whole"
                               /\ k \in residue => k \in residue'
      BY <3>1, <3>2
    <3> HIDE DEF w, o, k
    <3>4. w' = w /\ o' = o
      BY <1>1, <2>2 DEF w, o
    <3>5. w.job = k
      BY DEF w, k
    <3>6. Staged(w, o)'
      BY <2>1, <3>3, <3>4, <3>5 DEF Staged
    <3> QED BY <3>6 DEF w, o
  <2>4. CASE o.act \notin {"prepare", "promote", "abandon", "drop"}
    BY <1>1, <2>2, <2>4 DEF Staged
  <2> QED BY <2>3, <2>4
<1> QED BY <1>2, <1>3

\* _write_all writes to the file that its download holds, and to no other.
LEMMA PutKeeps ==
    ASSUME ArtInv, NEW s \in Slots, Put(s)
    PROVE  ArtInv'
<1> DEFINE f == op[s].fd
<1>1. op[s] # None /\ op[s].state = "running" /\ op[s].step = "put"
      /\ UNCHANGED <<call, loaded, aborts>> /\ (End(s, "ok") \/ End(s, "failed"))
  BY DEF Put, Running
<1>2. PICK c \in Callers : Serves(s, c)
  BY <1>1, Owner
<1>3. op[s].act = "write"
  BY <1>1, <1>2, Acting DEF Serves
<1>4. /\ Turns(s) /\ op'[s].fd = op[s].fd /\ op'[s].act = "write"
      /\ op'[s].step = "put" /\ op'[s].state = "finished"
  BY <1>1, <1>3, Ends
<1>5. Staged(call[c], op[s])'
  BY <1>4 DEF Staged
<1>6. CASE UNCHANGED disk
  BY <1>1, <1>2, <1>4, <1>5, <1>6, GoesOn
<1>7. ASSUME NEW b \in Contents, Disk(part, ready, [data EXCEPT ![op[s].fd] = b], open, {})
      PROVE  ArtInv'
  <2>1. /\ call[c] # None /\ call[c].slot = s /\ call[c].pc = "write" /\ call[c].fd = f
        /\ Held(c) = f /\ f # None /\ f \in Files
    BY <1>2, <1>3 DEF Serves, Owns, Awaits, Sound, Held, HeldBy, Calls
  <2>2. call[c].kind = "download" /\ call[c].job = op[s].job
    BY <1>2, <2>1, Downloads DEF Serves
  <2>3. /\ part' = part /\ ready' = ready /\ open' = open
        /\ data' = [g \in Files |-> IF g \in Named(part, ready) \cup open
                                    THEN [data EXCEPT ![f] = b][g] ELSE None]
        /\ residue' = {j \in residue : part'[j] # None}
    BY <1>7 DEF Disk
  <2>4. data' \in [Files -> Contents \cup {None}]
        /\ \A g \in Files : g \in Named(part, ready) \cup open =>
               data'[g] = IF g = f THEN b ELSE data[g]
    BY <2>1, <2>3 DEF ArtInv, Types
  <2>5. (CallInv /\ OpInv /\ ApartInv /\ LoadInv /\ RoomInv /\ Types)'
    BY <1>1, <1>4, <2>3, <2>4, Turned DEF Types, ArtInv
  <2>6. \A j \in Jobs : ready[j] # f /\ (part[j] = f => j = op[s].job)
    BY <2>1, <2>2 DEF ArtInv, HeldInv
  <2>7. FilesInv'
    <3>1. \A g \in Files : g \in Named(part, ready) \cup open => data'[g] # None
      BY <2>4 DEF ArtInv, FilesInv
    <3>2. ASSUME NEW j \in Jobs, ready[j] # None
          PROVE  data'[ready[j]] = "whole" /\ part[j] = None
      <4>1. ready[j] \in Files /\ ready[j] \in Named(part, ready)
        BY <3>2 DEF ArtInv, Types, Named
      <4> QED BY <4>1, <3>2, <2>4, <2>6 DEF ArtInv, FilesInv
    <3> QED BY <2>3, <3>1, <3>2 DEF FilesInv
  <2>8. StageInv'
    <3>1. ASSUME NEW k \in Jobs \ {op[s].job}
          PROVE  part[k] # None => /\ data[part[k]] = "whole" => data'[part[k]] = "whole"
                                   /\ k \in residue => k \in residue'
      <4>1. part[k] # None => part[k] \in Files /\ part[k] \in Named(part, ready) /\ part[k] # f
        BY <2>6 DEF ArtInv, Types, Named
      <4> QED BY <4>1, <2>3, <2>4
    <3> QED BY <1>1, <1>2, <1>4, <1>5, <2>2, <2>3, <3>1, OthersStay
  <2>9. \A d \in Callers : Held(d)' = Held(d) /\ (Carries(d)' <=> Carries(d))
    <3>1. Held(c)' = Held(c) /\ (Carries(c)' <=> Carries(c))
      BY <1>4, <2>1 DEF Turns, Held, HeldBy, Carries, Minds
    <3> QED BY <1>1, <1>2, <1>4, <3>1, Aside DEF Serves
  <2>10. HeldInv' /\ OpenInv' /\ PartInv'
    <3>1. call' = call /\ aborts' = aborts
      BY <1>1
    <3>2. HeldInv'
      BY <2>3, <2>9, <3>1 DEF HeldInv, ArtInv
    <3>3. OpenInv'
      BY <2>3, <2>9, <3>1 DEF OpenInv, ArtInv
    <3>4. PartInv'
      BY <2>3, <2>9, <3>1 DEF PartInv, ArtInv
    <3> QED BY <3>2, <3>3, <3>4
  <2> QED BY <2>5, <2>7, <2>8, <2>10 DEF ArtInv
<1>8. op[s].bytes \in Contents /\ "wrong" \in Contents
  BY <1>2 DEF Serves, Workers, Contents
<1> QED BY <1>6, <1>7, <1>8 DEF Put

\* A descriptor is closed by the download that holds it.
LEMMA Closed ==
    ASSUME ArtInv, NEW s \in Slots, op[s] # None, op[s].state = "running", op[s].step = "close",
           Disk(part, ready, data, open \ {op[s].fd}, {}),
           Turns(s), op'[s].step # "close" \/ op'[s].state = "finished",
           NEW c \in Callers, Serves(s, c), Staged(call[c], op[s])'
    PROVE  ArtInv'
<1> DEFINE f == op[s].fd
<1>1. /\ part' = part /\ ready' = ready /\ open' = open \ {f}
      /\ data' = [g \in Files |-> IF g \in Named(part', ready') \cup open'
                                  THEN data[g] ELSE None]
      /\ residue' = {j \in residue : part'[j] # None}
  BY DEF Disk
<1>2. ShrinksFor(s)
  BY <1>1 DEF ShrinksFor, Shrinks, ArtInv, Types
<1>3. op[s].act \in {"finish", "abandon", "drop"} /\ call[c].pc = op[s].act /\ call[c].fd = f
      /\ call[c] # None /\ call[c].slot = s
  BY Acting DEF Serves, Awaits, Owns
<1>4. Held(c) = f /\ Held(c)' = None
  <2>1. Held(c) = f
    BY <1>3 DEF Held, HeldBy
  <2>2. Held(c)' = None
    BY <1>3 DEF Held, HeldBy, Turns
  <2> QED BY <2>1, <2>2
<1>5. \A d \in Callers \ {c} : Held(d)' = Held(d) /\ (Held(d) # None => Held(d) # f)
  <2>1. \A d \in Callers \ {c} : Held(d)' = Held(d)
    BY Aside DEF Serves
  <2> QED BY <2>1, <1>4 DEF ArtInv, HeldInv
<1>6. /\ (CallInv /\ OpInv /\ ApartInv /\ LoadInv /\ RoomInv)'
      /\ call' \in [Callers -> Calls \cup {None}] /\ op' \in [Slots -> Workers \cup {None}]
      /\ loaded' \in BOOLEAN /\ aborts' \in 0..MaxAborts
  BY Turned
<1>7. Types'
  BY <1>1, <1>2, <1>6 DEF Types, ShrinksFor, Shrinks, ArtInv
<1>8. FilesInv' /\ StageInv'
  <2>1. Stays(s)'
    BY OwnerStays
  <2>2. ASSUME NEW d \in Callers, call'[d] # None, call'[d].slot # None
        PROVE  Staged(call[d], op[call[d].slot])'
    <3>1. call' = call
      BY DEF Turns
    <3>2. CASE d = c
      BY <1>3, <3>1, <3>2
    <3>3. CASE d # c
      BY <1>2, <2>2, <3>1, <3>3, ShrinkKeeps DEF Serves
    <3> QED BY <3>2, <3>3
  <2> QED BY <1>2, <2>2, ShrinkKeeps DEF StageInv
<1>9. HeldInv'
  <2> SUFFICES ASSUME NEW d \in Callers, Held(d)' # None
               PROVE  /\ Held(d)' \in open'
                      /\ \A e \in Callers \ {d} : Held(e)' # Held(d)'
                      /\ \A j \in Jobs : ready'[j] # Held(d)'
                                         /\ (part'[j] = Held(d)' => j = call'[d].job)
    BY DEF HeldInv
  <2>1. d # c /\ Held(d)' = Held(d)
    BY <1>4, <1>5
  <2>2. call' = call
    BY DEF Turns
  <2>3. \A e \in Callers \ {d} : Held(e)' # Held(d)'
    BY <1>4, <1>5, <2>1 DEF ArtInv, HeldInv
  <2> QED BY <1>1, <1>5, <2>1, <2>2, <2>3 DEF ArtInv, HeldInv
<1>10. OpenInv'
  <2> SUFFICES ASSUME aborts = 0, NEW g \in open, g # f PROVE \E d \in Callers : Held(d)' = g
    BY <1>1 DEF OpenInv, Turns
  <2>1. PICK d \in Callers : Held(d) = g
    BY DEF ArtInv, OpenInv
  <2> QED BY <1>4, <1>5, <2>1
<1>11. PartInv'
  <2>1. Carries(c)'
    BY <1>3 DEF Carries, Minds, Turns
  <2> QED BY <1>2, <2>1, StillMinded DEF Serves
<1> QED BY <1>6, <1>7, <1>8, <1>9, <1>10, <1>11 DEF ArtInv

LEMMA CloseKeeps ==
    ASSUME ArtInv, NEW s \in Slots, Close(s)
    PROVE  ArtInv'
<1>1. op[s] # None /\ op[s].state = "running" /\ op[s].step = "close"
      /\ UNCHANGED <<call, loaded, aborts>> /\ Disk(part, ready, data, open \ {op[s].fd}, {})
  BY DEF Close, Running
<1>2. PICK c \in Callers : Serves(s, c)
  BY <1>1, Owner
<1>3. op[s].act \in {"finish", "abandon", "drop"} /\ op[s] \in Workers /\ Sound(op[s])
  BY <1>1, <1>2, Acting DEF Serves
<1>4. CASE op[s].act = "finish"
  <2>1. End(s, "ok") \/ End(s, "failed")
    BY <1>4 DEF Close
  <2>2. Turns(s) /\ op'[s].act = "finish" /\ op'[s].state = "finished"
    BY <1>1, <1>4, <2>1, Ends
  <2>3. Staged(call[c], op[s])'
    BY <2>2 DEF Staged
  <2> QED BY <1>1, <1>2, <2>2, <2>3, Closed
<1>5. CASE op[s].act \in {"abandon", "drop"}
  <2>1. "partstat" \in Stages(op[s].act)
    BY <1>5 DEF Stages
  <2>2. CASE Proceed(s, "partstat")
    <3>1. /\ Turns(s) /\ op'[s].act = op[s].act /\ op'[s].state = "running"
          /\ op'[s].step = "partstat" /\ op'[s].result = op[s].result
      BY <1>1, <2>1, <2>2, Proceeds
    <3>2. Staged(call[c], op[s])'
      BY <1>1, <1>2, <1>5, <3>1 DEF Staged, Serves
    <3> QED BY <1>1, <1>2, <3>1, <3>2, Closed
  <2>3. CASE /\ op[s].fd # None /\ (op[s].fd \notin open \/ DiskFaults)
             /\ op' = [op EXCEPT ![s] =
                          [@ EXCEPT !.step = "partstat", !.result = "failed"]]
    <3>1. Noted(s, "partstat", "running", "failed")
      <4>1. [op[s] EXCEPT !.step = "partstat", !.result = "failed"]
            = [op[s] EXCEPT !.step = "partstat", !.state = "running", !.result = "failed"]
        BY <1>1, <1>3 DEF Workers
      <4> QED BY <2>3, <4>1 DEF Noted
    <3>2. /\ Turns(s) /\ op'[s].act = op[s].act /\ op'[s].state = "running"
          /\ op'[s].step = "partstat" /\ op'[s].result = "failed"
      BY <1>1, <1>5, <2>1, <3>1, Again
    <3>3. Held(c) = op[s].fd
      BY <1>1, <1>2, <1>5 DEF Serves, Owns, Awaits, Held, HeldBy
    <3>4. DiskFaults
      BY <2>3, <3>3 DEF ArtInv, HeldInv
    <3>5. Staged(call[c], op[s])'
      BY <1>5, <3>2, <3>4 DEF Staged
    <3> QED BY <1>1, <1>2, <3>2, <3>5, Closed
  <2> QED BY <1>5, <2>2, <2>3 DEF Close
<1> QED BY <1>3, <1>4, <1>5

\* _promote_partial renames what nobody holds any more.
LEMMA Renamed ==
    ASSUME ArtInv, NEW s \in Slots, op[s] # None, op[s].state = "running", op[s].step = "replace",
           part[op[s].job] # None,
           Disk([part EXCEPT ![op[s].job] = None],
                [ready EXCEPT ![op[s].job] = part[op[s].job]], data, open, {}),
           Turns(s), op'[s].step \in {"rehash", "undo"}, op'[s].act = "promote",
           NEW c \in Callers, Serves(s, c)
    PROVE  ArtInv'
<1>1. op[s].act = "promote" /\ call[c].pc = "promote" /\ call[c].job = op[s].job
      /\ call[c] # None /\ call[c].slot = s
  BY Acting DEF Serves, Owns
<1>2. call[c].kind = "download" /\ op[s].job \in Jobs
  BY <1>1, Downloads
<1>3. PICK j \in Jobs : j = op[s].job
  BY <1>2
<1>4. /\ part' = [part EXCEPT ![j] = None] /\ ready' = [ready EXCEPT ![j] = part[j]]
      /\ open' = open
      /\ data' = [g \in Files |-> IF g \in Named(part', ready') \cup open'
                                  THEN data[g] ELSE None]
      /\ residue' = {k \in residue : part'[k] # None}
  BY <1>3 DEF Disk
<1>5. part[j] \in Files /\ data[part[j]] = "whole"
  BY <1>1, <1>3 DEF ArtInv, Types, Serves, Staged
<1>6. /\ part'[j] = None /\ ready'[j] = part[j]
      /\ \A k \in Jobs \ {j} : part'[k] = part[k] /\ ready'[k] = ready[k]
  BY <1>4 DEF ArtInv, Types
<1>7. /\ part' \in [Jobs -> Files \cup {None}] /\ ready' \in [Jobs -> Files \cup {None}]
      /\ data' \in [Files -> Contents \cup {None}] /\ residue' \in SUBSET Jobs
  BY <1>4, <1>5 DEF ArtInv, Types
<1>8. \A g \in Files : g \in Named(part', ready') \cup open' =>
          g \in Named(part, ready) \cup open /\ data'[g] = data[g]
  BY <1>4, <1>6 DEF Named
<1>9. (CallInv /\ OpInv /\ ApartInv /\ LoadInv /\ RoomInv /\ Types)'
  BY <1>4, <1>7, Turned DEF Types, ArtInv
<1>10. FilesInv'
  <2>1. ASSUME NEW k \in Jobs, ready'[k] # None
        PROVE  data'[ready'[k]] = "whole" /\ part'[k] = None
    <3>1. ready'[k] \in Files /\ ready'[k] \in Named(part', ready')
      BY <1>7, <2>1 DEF Named
    <3>2. data[ready'[k]] = "whole" /\ part'[k] = None
      BY <1>5, <1>6, <2>1 DEF ArtInv, FilesInv
    <3> QED BY <1>8, <3>1, <3>2
  <2> QED BY <1>8, <2>1 DEF FilesInv, ArtInv
<1>11. Staged(call[c], op[s])'
  BY <1>1, <1>3, <1>6 DEF Staged, Turns
<1>12. StageInv'
  <2>1. ASSUME NEW k \in Jobs \ {op[s].job}
        PROVE  part[k] # None => /\ data[part[k]] = "whole" => data'[part[k]] = "whole"
                                 /\ k \in residue => k \in residue'
    <3>1. part[k] # None => part[k] \in Files /\ part[k] \in Named(part', ready')
      BY <1>3, <1>6 DEF ArtInv, Types, Named
    <3> QED BY <1>3, <1>4, <1>6, <1>8, <3>1
  <2> QED BY <1>2, <1>3, <1>6, <1>11, <2>1, OthersStay
<1>13. \A d \in Callers : Held(d)' = Held(d) /\ (Carries(d)' <=> Carries(d))
  <2>1. Held(c)' = Held(c) /\ (Carries(c)' <=> Carries(c))
    BY <1>1 DEF Turns, Held, HeldBy, Carries, Minds
  <2> QED BY <2>1, Aside DEF Serves
<1>14. \A d \in Callers : Held(d) # None => Held(d) # part[j]
  <2> SUFFICES ASSUME NEW d \in Callers, Held(d) # None, Held(d) = part[j] PROVE FALSE
    OBVIOUS
  <2>1. call[d] # None /\ call[d].kind = "download" /\ call[d].job = j
    BY Downloads DEF Held, ArtInv, HeldInv
  <2>2. d = c
    BY <1>1, <1>2, <1>3, <2>1 DEF ArtInv, ApartInv
  <2> QED BY <1>1, <2>2 DEF Held, HeldBy
<1>15. call' = call /\ aborts' = aborts
  BY DEF Turns
<1>16. HeldInv'
  BY <1>4, <1>6, <1>13, <1>14, <1>15 DEF HeldInv, ArtInv
<1>17. OpenInv'
  BY <1>4, <1>13, <1>15 DEF OpenInv, ArtInv
<1>18. PartInv'
  <2> SUFFICES ASSUME NEW k \in Jobs \ residue', part'[k] # None
               PROVE  \E d \in Callers : Carries(d)' /\ call'[d].job = k
    BY DEF PartInv
  <2>1. part[k] # None /\ k \notin residue
    BY <1>4, <1>6
  <2> QED BY <1>13, <1>15, <2>1 DEF PartInv, ArtInv
<1> QED BY <1>9, <1>10, <1>12, <1>16, <1>17, <1>18 DEF ArtInv

LEMMA ReplaceKeeps ==
    ASSUME ArtInv, NEW s \in Slots, Replace(s)
    PROVE  ArtInv'
<1>1. op[s] # None /\ op[s].state = "running" /\ op[s].step = "replace"
      /\ UNCHANGED <<call, loaded, aborts>>
  BY DEF Replace, Running
<1>2. PICK c \in Callers : Serves(s, c)
  BY <1>1, Owner
<1>3. op[s].act = "promote" /\ {"rehash", "undo"} \subseteq Stages(op[s].act)
  BY <1>1, <1>2, Acting DEF Serves, Stages
<1>4. CASE End(s, "failed") /\ UNCHANGED disk
  BY <1>1, <1>3, <1>4, PromoteFails
<1>5. CASE /\ part[op[s].job] # None
           /\ Disk([part EXCEPT ![op[s].job] = None],
                   [ready EXCEPT ![op[s].job] = part[op[s].job]], data, open, {})
           /\ Proceed(s, "rehash") \/ Proceed(s, "undo")
  <2>1. Turns(s) /\ op'[s].act = "promote" /\ op'[s].step \in {"rehash", "undo"}
    BY <1>1, <1>3, <1>5, Proceeds
  <2> QED BY <1>1, <1>2, <1>5, <2>1, Renamed
<1> QED BY <1>4, <1>5 DEF Replace

\* A new partial is a file that nothing names and nobody holds.
LEMMA Made ==
    ASSUME ArtInv, NEW s \in Slots, op[s] # None, op[s].state = "running", op[s].step = "create",
           NEW f \in Spare, part[op[s].job] = None,
           \/ Disk([part EXCEPT ![op[s].job] = f], ready, [data EXCEPT ![f] = "short"],
                   open \cup {f}, {}) /\ op'[s].fd = f
           \/ Disk([part EXCEPT ![op[s].job] = f], ready, [data EXCEPT ![f] = "short"],
                   open, {op[s].job}) /\ op'[s].fd = None,
           Turns(s), op'[s].act = "prepare", op'[s].state = "finished",
           NEW c \in Callers, Serves(s, c)
    PROVE  ArtInv'
<1>1. op[s].act = "prepare" /\ call[c].pc = "prepare" /\ call[c].job = op[s].job
      /\ call[c] # None /\ call[c].slot = s /\ op[s].fd = None
  BY Acting DEF Serves, Owns, Sound
<1>2. call[c].kind = "download" /\ op[s].job \in Jobs
  BY <1>1, Downloads
<1>3. PICK j \in Jobs : j = op[s].job
  BY <1>2
<1>4. f \in Files /\ f \notin Named(part, ready) \cup open /\ f # None
  BY DEF Spare, ArtInv, FilesInv
<1>5. /\ part' = [part EXCEPT ![j] = f] /\ ready' = ready
      /\ data' = [g \in Files |-> IF g \in Named(part', ready') \cup open'
                                  THEN [data EXCEPT ![f] = "short"][g] ELSE None]
      /\ residue \cap {k \in Jobs : part'[k] # None} \subseteq residue' /\ residue' \subseteq Jobs
      /\ \/ open' = open \cup {f} /\ op'[s].fd = f
         \/ open' = open /\ op'[s].fd = None /\ j \in residue'
  <2>1. CASE Disk([part EXCEPT ![op[s].job] = f], ready, [data EXCEPT ![f] = "short"],
                  open \cup {f}, {}) /\ op'[s].fd = f
    BY <1>3, <2>1 DEF Disk, ArtInv, Types
  <2>2. CASE Disk([part EXCEPT ![op[s].job] = f], ready, [data EXCEPT ![f] = "short"],
                  open, {op[s].job}) /\ op'[s].fd = None
    BY <1>3, <1>4, <2>2 DEF Disk, ArtInv, Types
  <2> QED BY <2>1, <2>2
<1>6. part'[j] = f /\ \A k \in Jobs \ {j} : part'[k] = part[k]
  BY <1>5 DEF ArtInv, Types
<1>7. /\ part' \in [Jobs -> Files \cup {None}] /\ ready' \in [Jobs -> Files \cup {None}]
      /\ data' \in [Files -> Contents \cup {None}] /\ residue' \in SUBSET Jobs
      /\ open' \in SUBSET Files
  BY <1>4, <1>5 DEF ArtInv, Types, Contents
<1>8. \A g \in Files : g \in Named(part', ready') \cup open' =>
          data'[g] # None /\ (g # f => data'[g] = data[g])
  <2>1. \A g \in Files \ {f} : g \in Named(part', ready') \cup open' =>
            g \in Named(part, ready) \cup open
    BY <1>5, <1>6 DEF Named
  <2>2. \A g \in Files : g \in Named(part', ready') \cup open' =>
            data'[g] = IF g = f THEN "short" ELSE data[g]
    BY <1>4, <1>5 DEF ArtInv, Types
  <2> QED BY <2>1, <2>2 DEF ArtInv, FilesInv, Contents
<1>9. (CallInv /\ OpInv /\ ApartInv /\ LoadInv /\ RoomInv /\ Types)'
  BY <1>7, Turned DEF Types
<1>10. FilesInv'
  <2>1. ready[j] = None
    BY <1>1, <1>3 DEF Serves, Staged
  <2>2. ASSUME NEW k \in Jobs, ready'[k] # None
        PROVE  data'[ready'[k]] = "whole" /\ part'[k] = None
    <3>1. k # j /\ ready'[k] = ready[k]
      BY <1>5, <2>1, <2>2
    <3>2. ready[k] \in Files /\ ready[k] \in Named(part', ready') /\ ready[k] # f
      BY <1>4, <1>5, <2>2 DEF Named, ArtInv, Types
    <3> QED BY <1>6, <1>8, <2>2, <3>1, <3>2 DEF ArtInv, FilesInv
  <2> QED BY <1>8, <2>2 DEF FilesInv
<1>11. StageInv'
  <2>1. Staged(call[c], op[s])'
    BY DEF Staged
  <2>2. ASSUME NEW k \in Jobs \ {op[s].job}
        PROVE  part[k] # None => /\ data[part[k]] = "whole" => data'[part[k]] = "whole"
                                 /\ k \in residue => k \in residue'
    <3>1. part'[k] = part[k]
      BY <1>3, <1>6
    <3>2. part[k] # None => part[k] \in Files /\ part[k] \in Named(part', ready') /\ part[k] # f
      BY <1>4, <3>1 DEF ArtInv, Types, Named
    <3> QED BY <1>5, <1>8, <3>1, <3>2
  <2> QED BY <1>2, <1>3, <1>5, <1>6, <2>1, <2>2, OthersStay
<1>12. call' = call /\ aborts' = aborts
  BY DEF Turns
<1>13. Held(c) = None /\ Held(c)' = op'[s].fd
  BY <1>1, <1>12 DEF Held, HeldBy
<1>14. \A d \in Callers \ {c} : /\ Held(d)' = Held(d) /\ (Carries(d)' <=> Carries(d))
                                /\ Held(d) # f
  BY <1>4, Aside DEF Serves, ArtInv, HeldInv
<1>15. HeldInv'
  <2>1. \A k \in Jobs : part[k] # f /\ ready[k] # f
    BY <1>4 DEF Named
  <2> SUFFICES ASSUME NEW d \in Callers, Held(d)' # None
               PROVE  /\ Held(d)' \in open'
                      /\ \A e \in Callers \ {d} : Held(e)' # Held(d)'
                      /\ \A k \in Jobs : ready'[k] # Held(d)'
                                         /\ (part'[k] = Held(d)' => k = call'[d].job)
    BY DEF HeldInv
  <2>2. CASE d = c
    <3>1. Held(d)' = f /\ open' = open \cup {f}
      BY <1>5, <1>13, <2>2
    <3> QED BY <1>1, <1>3, <1>5, <1>6, <1>12, <1>14, <2>1, <2>2, <3>1
  <2>3. CASE d # c
    <3>1. Held(d)' = Held(d) /\ Held(d) # f /\ Held(d) # None
      BY <1>14, <2>3
    <3>2. \A e \in Callers \ {d} : Held(e)' # Held(d)'
      BY <1>5, <1>13, <1>14, <3>1 DEF ArtInv, HeldInv
    <3> QED BY <1>5, <1>6, <1>12, <3>1, <3>2 DEF ArtInv, HeldInv
  <2> QED BY <2>2, <2>3
<1>16. OpenInv'
  <2> SUFFICES ASSUME aborts = 0, NEW g \in open' PROVE \E d \in Callers : Held(d)' = g
    BY <1>12 DEF OpenInv
  <2>1. CASE g \in open
    <3>1. PICK d \in Callers : Held(d) = g
      BY <2>1 DEF ArtInv, OpenInv
    <3>2. d # c
      BY <1>13, <2>1, <3>1 DEF ArtInv, Types
    <3> QED BY <1>14, <3>1, <3>2
  <2>2. CASE g \notin open
    BY <1>5, <1>13, <2>2
  <2> QED BY <2>1, <2>2
<1>17. PartInv'
  <2> SUFFICES ASSUME NEW k \in Jobs \ residue', part'[k] # None
               PROVE  \E d \in Callers : Carries(d)' /\ call'[d].job = k
    BY DEF PartInv
  <2>1. CASE k = j
    <3>1. op'[s].fd # None
      BY <1>4, <1>5, <2>1
    <3>2. Carries(c)'
      BY <1>1, <1>12, <3>1 DEF Carries, Minds
    <3> QED BY <1>1, <1>3, <1>12, <2>1, <3>2
  <2>2. CASE k # j
    <3>1. part[k] # None /\ k \notin residue
      BY <1>5, <1>6, <2>2
    <3>2. PICK d \in Callers : Carries(d) /\ call[d].job = k
      BY <3>1 DEF ArtInv, PartInv
    <3>3. d # c
      BY <1>1, <1>3, <2>2, <3>2
    <3> QED BY <1>12, <1>14, <3>2, <3>3
  <2> QED BY <2>1, <2>2
<1> QED BY <1>9, <1>10, <1>11, <1>15, <1>16, <1>17 DEF ArtInv

LEMMA CreateKeeps ==
    ASSUME ArtInv, NEW s \in Slots, Create(s)
    PROVE  ArtInv'
<1>1. op[s] # None /\ op[s].state = "running" /\ op[s].step = "create"
      /\ UNCHANGED <<call, loaded, aborts>>
  BY DEF Create, Running
<1>2. PICK c \in Callers : Serves(s, c)
  BY <1>1, Owner
<1>3. op[s].act = "prepare" /\ op[s] \in Workers /\ Sound(op[s])
      /\ op[s].result = "ok" /\ op[s].fd = None
  BY <1>1, <1>2, Acting DEF Serves, Sound
<1>4. ASSUME End(s, "failed") \/ End(s, "busy")
      PROVE  /\ Turns(s) /\ op'[s].fd = None /\ op'[s].act = "prepare"
             /\ op'[s].step = "create" /\ op'[s].state = "finished" /\ Staged(call[c], op[s])'
  <2>1. /\ Turns(s) /\ op'[s].fd = None /\ op'[s].act = "prepare"
        /\ op'[s].step = "create" /\ op'[s].state = "finished"
    BY <1>1, <1>3, <1>4, Ends
  <2> QED BY <2>1 DEF Staged
<1>5. CASE UNCHANGED disk /\ (End(s, "failed") \/ End(s, "busy"))
  BY <1>1, <1>2, <1>3, <1>4, <1>5, GoesOn
<1> DEFINE f == CHOOSE x \in Spare : TRUE
<1>6. ASSUME Spare # {} PROVE f \in Spare
  BY <1>6
<1> HIDE DEF f
<1>7. CASE /\ part[op[s].job] = None /\ Spare # {} /\ End(s, "failed")
           /\ Disk([part EXCEPT ![op[s].job] = f], ready, [data EXCEPT ![f] = "short"],
                   open, {op[s].job})
  <2>1. PICK g \in Spare : g = f
    BY <1>6, <1>7
  <2>2. Disk([part EXCEPT ![op[s].job] = g], ready, [data EXCEPT ![g] = "short"],
             open, {op[s].job})
    BY <1>7, <2>1
  <2> QED BY <1>1, <1>2, <1>4, <1>7, <2>2, Made
<1>8. CASE /\ part[op[s].job] = None /\ Spare # {}
           /\ op' = [op EXCEPT ![s] = [@ EXCEPT !.state = "finished", !.fd = f]]
           /\ Disk([part EXCEPT ![op[s].job] = f], ready, [data EXCEPT ![f] = "short"],
                   open \cup {f}, {})
  <2>1. PICK g \in Spare : g = f
    BY <1>6, <1>8
  <2>2. Disk([part EXCEPT ![op[s].job] = g], ready, [data EXCEPT ![g] = "short"],
             open \cup {g}, {})
    BY <1>8, <2>1
  <2>3. PICK o : o = [op[s] EXCEPT !.state = "finished", !.fd = f]
    OBVIOUS
  <2>4. g \in Files /\ g # None
    BY DEF Spare
  <2>5. /\ o \in Workers /\ o.act = "prepare" /\ o.job = op[s].job /\ o.fd = g
        /\ o.state = "finished" /\ o.result = "ok" /\ o.step = "create"
    BY <1>1, <1>3, <2>1, <2>3, <2>4 DEF Workers
  <2>6. Sound(o) /\ o # None
    BY <1>1, <1>3, <2>4, <2>5 DEF Sound
  <2>7. op' = [op EXCEPT ![s] = o]
    BY <1>8, <2>3
  <2>8. Turns(s) /\ op'[s] = o
    BY <1>1, <1>3, <2>5, <2>6, <2>7 DEF Turns, ArtInv, Types
  <2> QED BY <1>1, <1>2, <1>8, <2>2, <2>5, <2>8, Made
<1> QED BY <1>5, <1>7, <1>8 DEF Create, f

----------------------------------------------------------------------------
(* The pool starts a queued worker, or cancels it. *)

LEMMA Claimed ==
    ASSUME ArtInv, NEW s \in Slots, op[s] # None, op[s].state = "queued",
           NEW state \in {"running", "aborted"}, op' = [op EXCEPT ![s].state = state],
           UNCHANGED <<disk, call, loaded>>
    PROVE  /\ op' \in [Slots -> Workers \cup {None}]
           /\ (CallInv /\ OpInv /\ ApartInv /\ LoadInv /\ FilesInv /\ StageInv)'
           /\ (HeldInv /\ PartInv)' /\ \A c \in Callers : Held(c)' = Held(c)
           /\ Aborted' = IF state = "aborted" THEN Aborted \cup {s} ELSE Aborted
<1> USE DEF ArtInv
<1>1. op[s] \in Workers /\ Sound(op[s])
  BY DEF Types, OpInv
<1>2. PICK o : o = [op[s] EXCEPT !.state = state]
  OBVIOUS
<1>3. /\ o \in Workers /\ o.act = op[s].act /\ o.job = op[s].job /\ o.fd = op[s].fd
      /\ o.step = op[s].step /\ o.result = op[s].result /\ o.state = state
  BY <1>1, <1>2 DEF Workers
<1>4. op' = [op EXCEPT ![s] = o]
  BY <1>2 DEF Types
<1>5. op' \in [Slots -> Workers \cup {None}] /\ op'[s] = o /\ \A x \in Slots \ {s} : op'[x] = op[x]
  BY <1>3, <1>4 DEF Types
<1>6. Sound(o) /\ o # None
  <2>1. o # None
    BY <1>3
  <2> QED BY <1>1, <1>3, <2>1 DEF Sound
<1>7. /\ part' = part /\ ready' = ready /\ data' = data /\ open' = open /\ residue' = residue
      /\ call' = call /\ loaded' = loaded
  BY DEF disk
<1>8. ASSUME NEW c \in Callers, call[c] # None, call[c].slot # None
      PROVE  /\ Awaits(call[c], op'[call[c].slot])
             /\ HeldBy(call[c], op'[call[c].slot]) = HeldBy(call[c], op[call[c].slot])
             /\ Minds(call[c], op'[call[c].slot]) <=> Minds(call[c], op[call[c].slot])
             /\ Staged(call[c], op[call[c].slot])'
  <2>1. call[c].slot \in Slots /\ Awaits(call[c], op[call[c].slot])
        /\ Staged(call[c], op[call[c].slot])
    BY <1>8, TheCall DEF StageInv
  <2>2. CASE call[c].slot # s
    BY <1>5, <1>7, <2>1, <2>2 DEF Staged
  <2>3. CASE call[c].slot = s
    <3>1. Awaits(call[c], o)
      BY <1>3, <1>6, <2>1, <2>3 DEF Awaits
    <3>2. HeldBy(call[c], o) = HeldBy(call[c], op[s])
      BY <1>3 DEF HeldBy
    <3>3. Minds(call[c], o) <=> Minds(call[c], op[s])
      BY <1>3 DEF Minds
    <3>4. o.step \notin {"create", "replace", "unpart"} /\ o.state # "finished"
      <4>1. o.step = FirstStep(o.act) /\ o.act \in Acts
        BY <1>1, <1>3 DEF Sound, Workers
      <4> QED BY <1>3, <4>1 DEF FirstStep, Acts
    <3>5. Staged(call[c], op[call[c].slot])'
      BY <1>3, <1>5, <1>7, <2>1, <2>3, <3>4 DEF Staged
    <3> QED BY <1>5, <2>3, <3>1, <3>2, <3>3, <3>5
  <2> QED BY <2>2, <2>3
<1>9. CallInv'
  BY <1>7, <1>8 DEF CallInv
<1>10. StageInv'
  BY <1>7, <1>8 DEF StageInv
<1>11. OpInv'
  <2> SUFFICES ASSUME NEW x \in Slots, op'[x] # None
               PROVE  Sound(op'[x]) /\ (op'[x].state = "aborted" \/ \E c \in Callers : Owns(c, x)')
    BY DEF OpInv
  <2>1. \A c \in Callers : Owns(c, x)' <=> Owns(c, x)
    BY <1>7 DEF Owns
  <2>2. CASE x = s
    <3>1. \E c \in Callers : Owns(c, x)
      BY <2>2, Owned
    <3> QED BY <3>1, <2>1, <2>2, <1>5, <1>6
  <2>3. CASE x # s
    BY <2>1, <2>3, <1>5 DEF OpInv
  <2> QED BY <2>2, <2>3
<1>12. ApartInv' /\ LoadInv' /\ FilesInv'
  BY <1>7 DEF ApartInv, LoadInv, At, FilesInv, Named
<1>13. \A c \in Callers : Held(c)' = Held(c) /\ (Carries(c)' <=> Carries(c))
  <2> SUFFICES ASSUME NEW c \in Callers, call[c] # None
               PROVE  /\ HeldBy(call[c], op'[call[c].slot]) = HeldBy(call[c], op[call[c].slot])
                      /\ Minds(call[c], op'[call[c].slot]) <=> Minds(call[c], op[call[c].slot])
    BY <1>7 DEF Held, Carries
  <2>1. CASE call[c].slot = None
    <3>1. call[c].pc \notin Acts
      BY <2>1, TheCall DEF Proper
    <3> QED BY <3>1 DEF HeldBy, Minds, Acts
  <2> QED BY <1>8, <2>1
<1>14. HeldInv' /\ PartInv'
  <2>1. HeldInv'
    BY <1>7, <1>13 DEF HeldInv
  <2>2. PartInv'
    BY <1>7, <1>13 DEF PartInv
  <2> QED BY <2>1, <2>2
<1>15. Aborted' = IF state = "aborted" THEN Aborted \cup {s} ELSE Aborted
  BY <1>3, <1>5, <1>6 DEF Aborted
<1> QED BY <1>5, <1>9, <1>10, <1>11, <1>12, <1>13, <1>14, <1>15

LEMMA AbortKeeps ==
    ASSUME ArtInv, NEW s \in Slots, Abort(s)
    PROVE  ArtInv'
<1>1. /\ op[s] # None /\ op[s].state = "queued" /\ op' = [op EXCEPT ![s].state = "aborted"]
      /\ UNCHANGED <<disk, call, loaded>> /\ aborts' = aborts + 1 /\ aborts < MaxAborts
  BY DEF Abort
<1>2. /\ op' \in [Slots -> Workers \cup {None}]
      /\ (CallInv /\ OpInv /\ ApartInv /\ LoadInv /\ FilesInv /\ StageInv)'
      /\ (HeldInv /\ PartInv)' /\ Aborted' = Aborted \cup {s}
  BY <1>1, Claimed
<1>3. aborts \in Nat /\ aborts' \in 0..MaxAborts
  BY <1>1 DEF ArtInv, Types
<1>4. Types'
  BY <1>1, <1>2, <1>3 DEF ArtInv, Types, disk
<1>5. RoomInv'
  <2>1. s \notin Aborted
    BY <1>1 DEF Aborted
  <2>2. Cardinality(Aborted') = Cardinality(Aborted) + 1
    <3>1. Cardinality(Aborted \cup {s}) = IF s \in Aborted THEN Cardinality(Aborted)
                                          ELSE Cardinality(Aborted) + 1
      BY AbortedFinite, FS_AddElement
    <3> QED BY <1>2, <2>1, <3>1
  <2> QED BY <1>1, <1>3, <2>2, AbortedFinite DEF ArtInv, RoomInv
<1>6. OpenInv'
  BY <1>1, <1>3 DEF OpenInv
<1> QED BY <1>2, <1>4, <1>5, <1>6 DEF ArtInv

\* A thread claims a worker, or finds one that was cancelled and forgets it.
LEMMA StartKeeps ==
    ASSUME ArtInv, NEW s \in Slots, Start(s)
    PROVE  ArtInv'
<1>1. op[s] # None /\ UNCHANGED <<disk, call, loaded, aborts>>
  BY DEF Start
<1>2. CASE op[s].state = "queued" /\ op' = [op EXCEPT ![s].state = "running"]
  <2>1. /\ op' \in [Slots -> Workers \cup {None}]
        /\ (CallInv /\ OpInv /\ ApartInv /\ LoadInv /\ FilesInv /\ StageInv)'
        /\ (HeldInv /\ PartInv)' /\ (\A c \in Callers : Held(c)' = Held(c)) /\ Aborted' = Aborted
    BY <1>1, <1>2, Claimed
  <2>2. Types'
    BY <1>1, <2>1 DEF ArtInv, Types, disk
  <2>3. RoomInv'
    BY <1>1, <2>1 DEF ArtInv, RoomInv
  <2>4. OpenInv'
    BY <1>1, <2>1 DEF ArtInv, OpenInv, disk
  <2> QED BY <2>1, <2>2, <2>3, <2>4 DEF ArtInv
<1>3. CASE /\ \A c \in Callers : call[c] # None => call[c].slot # s
           /\ op' = [op EXCEPT ![s] = None]
  <2> USE DEF ArtInv
  <2>1. /\ op' \in [Slots -> Workers \cup {None}] /\ op'[s] = None
        /\ \A x \in Slots \ {s} : op'[x] = op[x]
    BY <1>3 DEF Types
  <2>2. /\ part' = part /\ ready' = ready /\ data' = data /\ open' = open /\ residue' = residue
        /\ call' = call /\ loaded' = loaded /\ aborts' = aborts
    BY <1>1 DEF disk
  <2>3. \A c \in Callers : call[c] # None /\ call[c].slot # None =>
            op'[call[c].slot] = op[call[c].slot]
    BY <1>3, <2>1, TheCall
  <2>4. CallInv' /\ StageInv'
    BY <2>2, <2>3 DEF CallInv, StageInv, Staged
  <2>5. OpInv'
    BY <2>1, <2>2 DEF OpInv, Owns
  <2>6. \A c \in Callers : Held(c)' = Held(c) /\ (Carries(c)' <=> Carries(c))
    <3> SUFFICES ASSUME NEW c \in Callers, call[c] # None
                 PROVE  Held(c)' = Held(c) /\ (Carries(c)' <=> Carries(c))
      BY <2>2 DEF Held, Carries
    <3>1. CASE call[c].slot = None
      <4>1. call[c].pc \notin Acts
        BY <3>1, TheCall DEF Proper
      <4> QED BY <2>2, <4>1 DEF Held, Carries, HeldBy, Minds, Acts
    <3>2. CASE call[c].slot # None
      BY <2>2, <2>3, <3>2 DEF Held, Carries
    <3> QED BY <3>1, <3>2
  <2>7. ApartInv' /\ LoadInv' /\ FilesInv'
    BY <2>2 DEF ApartInv, LoadInv, At, FilesInv, Named
  <2>8. HeldInv'
    BY <2>2, <2>6 DEF HeldInv
  <2>9. PartInv'
    BY <2>2, <2>6 DEF PartInv
  <2>10. OpenInv'
    BY <2>2, <2>6 DEF OpenInv
  <2>11. RoomInv'
    <3>1. Aborted' \subseteq Aborted
      BY <2>1 DEF Aborted
    <3>2. Cardinality(Aborted') <= Cardinality(Aborted)
      BY <3>1, AbortedFinite, FS_Subset
    <3> QED BY <2>2, <3>2, AbortedFinite DEF RoomInv, Types
  <2>12. Types'
    BY <2>1, <2>2 DEF Types
  <2> QED BY <2>4, <2>5, <2>7, <2>8, <2>9, <2>10, <2>11, <2>12
<1> QED BY <1>2, <1>3 DEF Start, Started

----------------------------------------------------------------------------
(* A coroutine goes on. *)

\* Call c moves and changes nothing but its own worker.
Handles(c) ==
    /\ call' \in [Callers -> Calls \cup {None}] /\ op' \in [Slots -> Workers \cup {None}]
    /\ UNCHANGED disk /\ aborts' = aborts
    /\ \A d \in Callers \ {c} : call'[d] = call[d]
    /\ \A s \in Slots :
          /\ op[s] # None /\ ~Owns(c, s) => op'[s] = op[s]
          /\ op'[s] # None => Sound(op'[s])
          /\ op'[s] # None /\ op'[s].state = "aborted" => op'[s] = op[s]
          /\ op'[s] # None /\ op'[s].state # "aborted" =>
                Owns(c, s)' \/ (op'[s] = op[s] /\ ~Owns(c, s))
    /\ call'[c] # None =>
          /\ Proper(call'[c]) /\ call'[c].kind = call[c].kind
          /\ call'[c].job = call[c].job /\ call'[c].alone = call[c].alone
          /\ call'[c].slot # None =>
                /\ Awaits(call'[c], op'[call'[c].slot])
                /\ op[call'[c].slot] = None \/ Owns(c, call'[c].slot)

LEMMA OthersHeld ==
    ASSUME ArtInv, NEW c \in Callers, Handles(c), NEW d \in Callers \ {c}
    PROVE  /\ call'[d] = call[d] /\ Held(d)' = Held(d) /\ (Carries(d)' <=> Carries(d))
           /\ call[d] # None /\ call[d].slot # None => op'[call[d].slot] = op[call[d].slot]
<1> USE DEF ArtInv
<1>1. call'[d] = call[d]
  BY DEF Handles
<1>2. CASE call[d] = None
  BY <1>1, <1>2 DEF Held, Carries
<1>3. CASE call[d] # None /\ call[d].slot # None
  <2>1. call[d].slot \in Slots /\ op[call[d].slot] # None /\ ~Owns(c, call[d].slot)
    BY <1>3, TheCall DEF ApartInv, Owns
  <2>2. op'[call[d].slot] = op[call[d].slot]
    BY <2>1 DEF Handles
  <2> QED BY <1>1, <1>3, <2>2 DEF Held, Carries
<1>4. CASE call[d] # None /\ call[d].slot = None
  <2>1. call[d].pc \notin Acts
    BY <1>4, TheCall DEF Proper
  <2> QED BY <1>1, <1>4, <2>1 DEF Held, Carries, HeldBy, Minds, Acts
<1> QED BY <1>2, <1>3, <1>4

LEMMA Handled ==
    ASSUME ArtInv, NEW c \in Callers, call[c] # None, Handles(c),
           Held(c)' = Held(c) \/ (Held(c)' = None /\ aborts # 0),
           Carries(c) => \/ Carries(c)' /\ call'[c].job = call[c].job
                         \/ part[call[c].job] = None \/ call[c].job \in residue,
           call'[c] # None /\ call'[c].slot # None => Staged(call[c], op[call[c].slot])',
           loaded' \in BOOLEAN, loaded' = loaded \/ At(c, "reconcile"),
           At(c, "reconcile")' => At(c, "reconcile") /\ loaded' = loaded
    PROVE  ArtInv'
<1> USE DEF ArtInv
<1>1. /\ part' = part /\ ready' = ready /\ data' = data /\ open' = open /\ residue' = residue
      /\ aborts' = aborts
  BY DEF Handles, disk
<1>2. Types' /\ FilesInv'
  BY <1>1 DEF Types, Handles, FilesInv, Named
<1>3. CallInv'
  <2> SUFFICES ASSUME NEW d \in Callers, call'[d] # None
               PROVE  /\ Proper(call'[d])
                      /\ call'[d].slot # None => Awaits(call'[d], op'[call'[d].slot])
    BY DEF CallInv
  <2>1. CASE d = c
    BY <2>1 DEF Handles
  <2>2. CASE d # c
    <3>1. call'[d] = call[d] /\ (call[d].slot # None => op'[call[d].slot] = op[call[d].slot])
      BY <2>2, OthersHeld
    <3> QED BY <3>1 DEF CallInv
  <2> QED BY <2>1, <2>2
<1>4. OpInv'
  <2> SUFFICES ASSUME NEW s \in Slots, op'[s] # None
               PROVE  Sound(op'[s]) /\ (op'[s].state = "aborted" \/ \E d \in Callers : Owns(d, s)')
    BY DEF OpInv
  <2>1. Sound(op'[s])
    BY DEF Handles
  <2>2. ASSUME op'[s].state # "aborted", ~Owns(c, s)' PROVE \E d \in Callers : Owns(d, s)'
    <3>1. op'[s] = op[s] /\ ~Owns(c, s)
      BY <2>2 DEF Handles
    <3>2. PICK d \in Callers : Owns(d, s)
      BY <2>2, <3>1, Owned
    <3>3. d # c /\ call'[d] = call[d]
      BY <3>1, <3>2 DEF Handles
    <3> QED BY <3>2, <3>3 DEF Owns
  <2> QED BY <2>1, <2>2
<1>5. ApartInv'
  <2> SUFFICES ASSUME NEW d \in Callers, NEW e \in Callers, d # e, call'[d] # None, call'[e] # None
               PROVE  /\ call'[d].slot # None => call'[d].slot # call'[e].slot
                      /\ call'[d].kind = "download" /\ call'[e].kind = "download"
                             => call'[d].job # call'[e].job
                      /\ call'[d].alone /\ call'[d].job # None => call'[e].job # call'[d].job
    BY DEF ApartInv
  <2>1. CASE d # c /\ e # c
    BY <2>1 DEF ApartInv, Handles
  <2>2. ASSUME NEW f \in Callers, f # c, call[f] # None
        PROVE  call'[c] # None /\ call'[c].slot # None => call'[c].slot # call[f].slot
    <3> SUFFICES ASSUME call'[c] # None, call'[c].slot # None, call'[c].slot = call[f].slot
                 PROVE  FALSE
      OBVIOUS
    <3>1. op[call[f].slot] # None /\ ~Owns(c, call[f].slot)
      BY <2>2, TheCall DEF ApartInv, Owns
    <3> QED BY <3>1 DEF Handles
  <2>3. CASE d = c
    <3>1. call'[e] = call[e]
      BY <2>3 DEF Handles
    <3> QED BY <2>2, <2>3, <3>1 DEF ApartInv, Handles
  <2>4. CASE e = c
    <3>1. call'[d] = call[d]
      BY <2>4 DEF Handles
    <3> QED BY <2>2, <2>4, <3>1 DEF ApartInv, Handles
  <2> QED BY <2>1, <2>3, <2>4
<1>6. LoadInv'
  <2> SUFFICES ASSUME NEW d \in Callers, At(d, "reconcile")'
               PROVE  ~loaded' /\ \A e \in Callers \ {d} : call'[e] = None
    BY DEF LoadInv
  <2>1. CASE d = c
    BY <2>1 DEF LoadInv, Handles
  <2>2. CASE d # c
    <3>1. At(d, "reconcile")
      BY <2>2 DEF At, Handles
    <3> QED BY <2>2, <3>1 DEF LoadInv
  <2> QED BY <2>1, <2>2
<1>7. RoomInv'
  <2>1. Aborted' \subseteq Aborted
    BY DEF Aborted, Handles
  <2>2. Cardinality(Aborted') <= Cardinality(Aborted)
    BY <2>1, AbortedFinite, FS_Subset
  <2> QED BY <1>1, <2>2, AbortedFinite DEF RoomInv, Types
<1>8. StageInv'
  <2> SUFFICES ASSUME NEW d \in Callers, d # c, call'[d] # None, call'[d].slot # None
               PROVE  Staged(call[d], op[call[d].slot])'
    BY DEF StageInv
  <2>1. call'[d] = call[d] /\ op'[call[d].slot] = op[call[d].slot]
    BY OthersHeld
  <2> QED BY <1>1, <2>1 DEF StageInv, Staged
<1>9. HeldInv'
  <2> SUFFICES ASSUME NEW d \in Callers, Held(d)' # None
               PROVE  /\ Held(d)' \in open
                      /\ \A e \in Callers \ {d} : Held(e)' # Held(d)'
                      /\ \A k \in Jobs : ready[k] # Held(d)'
                                         /\ (part[k] = Held(d)' => k = call'[d].job)
    BY <1>1 DEF HeldInv
  <2>1. \A e \in Callers : Held(e)' = Held(e) \/ Held(e)' = None
    BY OthersHeld
  <2>2. Held(d)' = Held(d) /\ call'[d].job = call[d].job
    <3>1. call'[d] # None
      BY DEF Held
    <3> QED BY <2>1, <3>1 DEF Handles
  <2> QED BY <2>1, <2>2 DEF HeldInv
<1>10. OpenInv'
  <2> SUFFICES ASSUME aborts = 0, NEW f \in open PROVE \E d \in Callers : Held(d)' = f
    BY <1>1 DEF OpenInv
  <2>1. PICK d \in Callers : Held(d) = f
    BY DEF OpenInv
  <2> QED BY <2>1, OthersHeld
<1>11. PartInv'
  <2> SUFFICES ASSUME NEW k \in Jobs \ residue, part[k] # None
               PROVE  \E d \in Callers : Carries(d)' /\ call'[d].job = k
    BY <1>1 DEF PartInv
  <2>1. PICK d \in Callers : Carries(d) /\ call[d].job = k
    BY DEF PartInv
  <2>2. CASE d = c
    BY <2>1, <2>2
  <2>3. CASE d # c
    BY <2>1, <2>3, OthersHeld
  <2> QED BY <2>2, <2>3
<1> QED BY <1>2, <1>3, <1>4, <1>5, <1>6, <1>7, <1>8, <1>9, <1>10, <1>11

\* The pool once c has its answer.
LEMMA PoolIs ==
    ASSUME ArtInv, NEW c \in Callers, call[c] # None, call[c].slot # None,
           Answer(c).state \in {"finished", "aborted"}
    PROVE  /\ Pool(c) \in [Slots -> Workers \cup {None}] /\ call[c].slot \in Slots
           /\ \A s \in Slots : s # call[c].slot => Pool(c)[s] = op[s]
           /\ Pool(c)[call[c].slot] # None =>
                 Pool(c)[call[c].slot] = op[call[c].slot] /\ Answer(c).state = "aborted"
           /\ Answer(c).state = "finished" => Pool(c)[call[c].slot] = None
<1>1. call[c].slot \in Slots
  BY TheCall DEF ArtInv
<1> QED BY <1>1 DEF Pool, ArtInv, Types, Answer

\* A call returns.
LEMMA Returns ==
    ASSUME ArtInv, NEW c \in Callers, call[c] # None, call[c].slot # None,
           Answer(c).state \in {"finished", "aborted"}, NEW out \in Outcomes,
           Return(Pool(c), c, out), UNCHANGED <<disk, aborts>>,
           loaded' \in BOOLEAN, loaded' = loaded \/ At(c, "reconcile"),
           call[c].asked /\ call[c].alone =>
              out = "cancelled" \/ (DiskFaults /\ call[c].kind = "download" /\ out = "failed"),
           Held(c) = None \/ aborts # 0,
           Carries(c) => part[call[c].job] = None \/ call[c].job \in residue
    PROVE  ArtInv'
<1>1. call[c] \in Calls /\ Proper(call[c])
  BY TheCall DEF ArtInv
<1>2. PICK w : w = [call[c] EXCEPT !.pc = "returned", !.slot = None, !.fd = None, !.out = out,
                                   !.cut = None]
  OBVIOUS
<1>3. /\ w \in Calls /\ w.kind = call[c].kind /\ w.job = call[c].job /\ w.alone = call[c].alone
      /\ w.asked = call[c].asked /\ w.pc = "returned" /\ w.slot = None /\ w.fd = None
      /\ w.out = out /\ w.cut = None
  BY <1>1, <1>2 DEF Calls
<1>4. Proper(w) /\ w # None
  <2>1. Heard(w)
    BY <1>3 DEF Heard
  <2>2. "returned" \notin Acts
    BY DEF Acts
  <2> QED BY <1>1, <1>3, <2>1, <2>2 DEF Proper
<1>5. op' = Pool(c) /\ call' = [call EXCEPT ![c] = w]
  BY <1>2 DEF Return, ArtInv, Types
<1>6. call'[c] = w /\ call' \in [Callers -> Calls \cup {None}]
      /\ \A d \in Callers \ {c} : call'[d] = call[d]
  BY <1>3, <1>5 DEF ArtInv, Types
<1>7. Handles(c)
  <2>1. \A s \in Slots : Owns(c, s) <=> s = call[c].slot
    BY DEF Owns
  <2>2. \A s \in Slots : op[s] # None => Sound(op[s])
    BY DEF ArtInv, OpInv
  <2>3. \A s \in Slots :
          /\ op[s] # None /\ ~Owns(c, s) => op'[s] = op[s]
          /\ op'[s] # None => Sound(op'[s])
          /\ op'[s] # None /\ op'[s].state = "aborted" => op'[s] = op[s]
          /\ op'[s] # None /\ op'[s].state # "aborted" => op'[s] = op[s] /\ ~Owns(c, s)
    BY <1>5, <2>1, <2>2, PoolIs DEF Answer
  <2> QED BY <1>3, <1>4, <1>5, <1>6, <2>3, PoolIs DEF Handles
<1>8. Held(c)' = None /\ ~At(c, "reconcile")'
  BY <1>3, <1>4, <1>6 DEF Held, HeldBy, At
<1>9. Held(c)' = Held(c) \/ (Held(c)' = None /\ aborts # 0)
  BY <1>8
<1>10. call'[c].slot = None
  BY <1>3, <1>6
<1> QED BY <1>7, <1>8, <1>9, <1>10, Handled

\* A download goes back to the exchange with the server.
LEMMA Resumes ==
    ASSUME ArtInv, NEW c \in Callers, call[c] # None, call[c].slot # None,
           call[c].kind = "download",
           Answer(c).state = "finished", op' = Pool(c), UNCHANGED <<disk, aborts, loaded>>,
           NEW w \in Calls, call' = [call EXCEPT ![c] = w],
           w.kind = call[c].kind, w.job = call[c].job, w.alone = call[c].alone,
           w.pc = "http", w.slot = None, w.cut = None, ~w.asked,
           w.fd # None, w.fd = Held(c)
    PROVE  ArtInv'
<1>1. call[c] \in Calls /\ Proper(call[c])
  BY TheCall DEF ArtInv
<1>2. Proper(w) /\ w # None
  <2>1. "http" \notin Acts
    BY DEF Acts
  <2> QED BY <1>1, <2>1 DEF Proper, Heard, Legs
<1>3. call'[c] = w /\ call' \in [Callers -> Calls \cup {None}]
      /\ \A d \in Callers \ {c} : call'[d] = call[d]
  BY DEF ArtInv, Types
<1>4. Handles(c)
  <2>1. \A s \in Slots : Owns(c, s) <=> s = call[c].slot
    BY DEF Owns
  <2>2. \A s \in Slots : op[s] # None => Sound(op[s])
    BY DEF ArtInv, OpInv
  <2>3. \A s \in Slots :
          /\ op[s] # None /\ ~Owns(c, s) => op'[s] = op[s]
          /\ op'[s] # None => Sound(op'[s]) /\ op'[s] = op[s] /\ ~Owns(c, s)
    BY <2>1, <2>2, PoolIs
  <2>4. op' \in [Slots -> Workers \cup {None}]
    BY PoolIs
  <2> QED BY <1>2, <1>3, <2>3, <2>4 DEF Handles
<1>5. Held(c)' = Held(c) /\ Carries(c)' /\ ~At(c, "reconcile")'
  BY <1>2, <1>3 DEF Held, HeldBy, Carries, Minds, At
<1> QED BY <1>2, <1>3, <1>4, <1>5, Handled DEF ArtInv, Types

\* A call is interrupted, and goes on waiting.
LEMMA Interrupts ==
    ASSUME ArtInv, NEW c \in Callers, call[c] # None, call[c].slot # None,
           op' = op, UNCHANGED <<disk, aborts, loaded>>,
           NEW cut \in {"timeout", "cancel"}, NEW asked \in BOOLEAN,
           call' = [call EXCEPT ![c] = [@ EXCEPT !.cut = cut, !.asked = asked]],
           cut = "timeout" => call[c].pc = "write" /\ asked = call[c].asked /\ call[c].cut = None
    PROVE  ArtInv'
<1>1. call[c] \in Calls /\ Proper(call[c]) /\ call[c].slot \in Slots /\ op[call[c].slot] # None
      /\ Awaits(call[c], op[call[c].slot])
  BY TheCall DEF ArtInv
<1>2. PICK w : w = [call[c] EXCEPT !.cut = cut, !.asked = asked]
  OBVIOUS
<1>3. /\ w \in Calls /\ w.kind = call[c].kind /\ w.job = call[c].job /\ w.alone = call[c].alone
      /\ w.asked = asked /\ w.pc = call[c].pc /\ w.slot = call[c].slot /\ w.fd = call[c].fd
      /\ w.out = call[c].out /\ w.cut = cut
  BY <1>1, <1>2 DEF Calls
<1>4. call[c].pc \in Acts /\ call[c].pc \notin {"http", "returned"}
  BY <1>1 DEF Proper, Acts
<1>5. Heard(w)
  <2>1. CASE cut = "cancel"
    BY <1>3, <1>4, <2>1 DEF Heard
  <2>2. CASE cut = "timeout"
    BY <1>1, <1>3, <2>2 DEF Heard, Proper
  <2> QED BY <2>1, <2>2
<1>6. Proper(w) /\ w # None /\ Awaits(w, op[w.slot])
  <2>1. Proper(w)
    BY <1>1, <1>3, <1>4, <1>5 DEF Proper
  <2> QED BY <1>1, <1>3, <2>1 DEF Awaits
<1>7. call'[c] = w /\ call' \in [Callers -> Calls \cup {None}]
      /\ \A d \in Callers \ {c} : call'[d] = call[d]
  BY <1>2, <1>3 DEF ArtInv, Types
<1>8. Handles(c)
  <2>1. \A s \in Slots : Owns(c, s)' <=> Owns(c, s)
    BY <1>3, <1>6, <1>7 DEF Owns
  <2>2. \A s \in Slots : op[s] # None => Sound(op[s])
    BY DEF ArtInv, OpInv
  <2>3. op' \in [Slots -> Workers \cup {None}]
    BY DEF ArtInv, Types
  <2>4. Owns(c, w.slot)
    BY <1>3 DEF Owns
  <2> QED BY <1>3, <1>6, <1>7, <2>1, <2>2, <2>3, <2>4 DEF Handles
<1>9. Held(c)' = Held(c) /\ (Carries(c)' <=> Carries(c))
      /\ (At(c, "reconcile")' <=> At(c, "reconcile"))
  BY <1>3, <1>6, <1>7 DEF Held, HeldBy, Carries, Minds, At
<1>10. Staged(call[c], op[call[c].slot])'
  <2>1. Staged(call[c], op[call[c].slot])
    BY DEF ArtInv, StageInv
  <2>2. part' = part /\ ready' = ready /\ data' = data /\ residue' = residue
    BY DEF disk
  <2> QED BY <1>3, <1>7, <2>1, <2>2 DEF Staged
<1> QED BY <1>3, <1>7, <1>8, <1>9, <1>10, Handled DEF ArtInv, Types

LEMMA OverKeeps ==
    ASSUME ArtInv, NEW c \in Callers, Over(c)
    PROVE  ArtInv'
<1>1. call[c] # None /\ call[c].pc = "returned" /\ call' = [call EXCEPT ![c] = None]
      /\ UNCHANGED <<disk, op, loaded, aborts>>
  BY DEF Over, At
<1>2. call[c] \in Calls /\ Proper(call[c]) /\ call[c].slot = None
  BY <1>1, TheCall DEF ArtInv, Proper, Acts
<1>3. call'[c] = None /\ call' \in [Callers -> Calls \cup {None}]
      /\ \A d \in Callers \ {c} : call'[d] = call[d]
  BY <1>1 DEF ArtInv, Types
<1>4. \A s \in Slots : ~Owns(c, s)
  BY <1>2 DEF Owns
<1>5. \A s \in Slots : op[s] # None => Sound(op[s])
  BY DEF ArtInv, OpInv
<1>6. Handles(c)
  BY <1>1, <1>3, <1>4, <1>5 DEF Handles, ArtInv, Types
<1>7. Held(c) = None /\ Held(c)' = None /\ ~Carries(c) /\ ~At(c, "reconcile")'
  BY <1>1, <1>3 DEF Held, HeldBy, Carries, Minds, At
<1> QED BY <1>1, <1>3, <1>6, <1>7, Handled DEF ArtInv, Types

\* A download submits its next worker, from the exchange or from an answer.
LEMMA Submits ==
    ASSUME ArtInv, NEW c \in Callers, call[c] # None, call[c].kind = "download",
           NEW ops,
           \/ ops = op /\ call[c].slot = None
           \/ ops = Pool(c) /\ call[c].slot # None /\ Answer(c).state \in {"finished", "aborted"},
           NEW w \in Calls, w.kind = call[c].kind, w.job = call[c].job, w.alone = call[c].alone,
           NEW act \in {"write", "finish", "promote", "abandon", "drop"}, NEW bytes \in Contents,
           Submit(ops, c, w, act, bytes, {}), UNCHANGED <<disk, aborts, loaded>>,
           act \in {"write", "finish"} => w.fd # None,
           act = "promote" => w.fd = None,
           w.cut # "timeout",
           w.asked => w.cut = "cancel" \/ act = "drop" \/ (act = "abandon" /\ w.out = "cancelled"),
           w.fd = Held(c) \/ (w.fd = None /\ aborts # 0)
    PROVE  ArtInv'
<1>1. call[c] \in Calls /\ Proper(call[c])
  BY TheCall DEF ArtInv
<1>2. act \in Acts /\ w.job \in Jobs
  <2>1. act \in Acts
    BY DEF Acts
  <2>2. call[c].job \in Jobs
    BY <1>1 DEF Proper, Calls
  <2> QED BY <2>1, <2>2
<1>3. /\ ops \in [Slots -> Workers \cup {None}]
      /\ \A s \in Slots : ~Owns(c, s) => ops[s] = op[s]
      /\ \A s \in Slots : Owns(c, s) /\ ops[s] # None => ops[s] = op[s] /\ ops[s].state = "aborted"
      /\ \E x \in Slots : ops[x] = None
  <2>1. CASE ops = op /\ call[c].slot = None
    <3>1. \E x \in Slots : op[x] = None
      BY <2>1, FreeSlot DEF ArtInv
    <3>2. \A s \in Slots : ~Owns(c, s)
      BY <2>1 DEF Owns
    <3> QED BY <2>1, <3>1, <3>2 DEF ArtInv, Types
  <2>2. CASE ops = Pool(c) /\ call[c].slot # None /\ Answer(c).state \in {"finished", "aborted"}
    <3>1. \E x \in Slots : Pool(c)[x] = None
      <4>1. CASE Answer(c).state = "finished"
        BY <2>2, <4>1, PoolIs
      <4>2. CASE Answer(c).state = "aborted"
        <5>1. \E x \in Slots : op[x] = None
          BY <4>2, FreeSlot DEF ArtInv, Answer
        <5>2. Pool(c) = op
          BY <4>2 DEF Pool
        <5> QED BY <5>1, <5>2
      <4> QED BY <2>2, <4>1, <4>2
    <3>2. \A s \in Slots : Owns(c, s) <=> s = call[c].slot
      BY DEF Owns
    <3> QED BY <2>2, <3>1, <3>2, PoolIs DEF Answer
  <2> QED BY <2>1, <2>2
<1> DEFINE free == CHOOSE x \in Slots : ops[x] = None
<1>4. PICK s \in Slots : s = free /\ ops[s] = None
  BY <1>3
<1>5. PICK o : o = Work(act, w, bytes, {})
  OBVIOUS
<1>6. /\ o \in Workers /\ o # None /\ o.act = act /\ o.job = w.job /\ o.fd = w.fd
      /\ o.state = "queued" /\ o.step = FirstStep(act) /\ o.result = "ok"
  BY <1>2, <1>5, WorkIs
<1>7. PICK v : v = [w EXCEPT !.pc = act, !.slot = s]
  OBVIOUS
<1>8. /\ v \in Calls /\ v # None /\ v.kind = call[c].kind /\ v.job = call[c].job
      /\ v.alone = call[c].alone /\ v.pc = act /\ v.slot = s /\ v.fd = w.fd /\ v.cut = w.cut
      /\ v.asked = w.asked /\ v.out = w.out
  <2>1. v \in Calls /\ v.kind = w.kind /\ v.job = w.job /\ v.alone = w.alone /\ v.pc = act
        /\ v.slot = s /\ v.fd = w.fd /\ v.cut = w.cut /\ v.asked = w.asked /\ v.out = w.out
    BY <1>2, <1>7 DEF Calls
  <2> QED BY <2>1
<1>9. op' = [ops EXCEPT ![s] = o] /\ call' = [call EXCEPT ![c] = v]
  BY <1>4, <1>5, <1>7 DEF Submit
<1> HIDE DEF free
<1>10. call'[c] = v /\ call' \in [Callers -> Calls \cup {None}]
       /\ \A d \in Callers \ {c} : call'[d] = call[d]
  BY <1>8, <1>9 DEF ArtInv, Types
<1>11. op'[s] = o /\ op' \in [Slots -> Workers \cup {None}]
       /\ \A x \in Slots : x # s => op'[x] = ops[x]
  BY <1>3, <1>6, <1>9
<1>12. Sound(o)
  <2>1. o.step \in Stages(o.act)
    BY <1>6 DEF Stages, FirstStep
  <2> QED BY <1>2, <1>6, <2>1 DEF Sound
<1>13. Proper(v) /\ Awaits(v, o)
  <2>1. Heard(v)
    BY <1>2, <1>8 DEF Heard
  <2> QED BY <1>1, <1>2, <1>6, <1>8, <2>1 DEF Proper, Legs, Awaits
<1>14. Handles(c)
  <2>1. Owns(c, s)'
    BY <1>8, <1>10 DEF Owns
  <2>2. op[s] = None \/ Owns(c, s)
    BY <1>3, <1>4
  <2>3. \A x \in Slots : op[x] # None => Sound(op[x])
    BY DEF ArtInv, OpInv
  <2>4. ASSUME NEW x \in Slots
        PROVE  /\ op[x] # None /\ ~Owns(c, x) => op'[x] = op[x]
               /\ op'[x] # None => Sound(op'[x])
               /\ op'[x] # None /\ op'[x].state = "aborted" => op'[x] = op[x]
               /\ op'[x] # None /\ op'[x].state # "aborted" =>
                     Owns(c, x)' \/ (op'[x] = op[x] /\ ~Owns(c, x))
    <3>1. CASE x = s
      BY <1>6, <1>11, <1>12, <2>1, <2>2, <3>1
    <3>2. CASE x # s
      BY <1>3, <1>11, <2>3, <3>2
    <3> QED BY <3>1, <3>2
  <2>5. Awaits(call'[c], op'[call'[c].slot])
        /\ (op[call'[c].slot] = None \/ Owns(c, call'[c].slot))
    BY <1>8, <1>10, <1>11, <1>13, <2>2
  <2> QED BY <1>8, <1>10, <1>11, <1>13, <2>4, <2>5 DEF Handles
<1>15. Held(c)' = w.fd /\ Carries(c)' /\ ~At(c, "reconcile")'
  <2>1. HeldBy(v, o) = w.fd
    BY <1>6, <1>8 DEF HeldBy, FirstStep
  <2>2. Minds(v, o)
    BY <1>8 DEF Minds
  <2> QED BY <1>8, <1>10, <1>11, <2>1, <2>2 DEF Held, Carries, At
<1>16. Staged(call[c], op[call[c].slot])'
  <2>1. o.step \notin {"create", "replace", "rehash", "undo", "unpart"}
    BY <1>6 DEF FirstStep
  <2> QED BY <1>6, <1>8, <1>10, <1>11, <2>1 DEF Staged
<1> QED BY <1>8, <1>10, <1>14, <1>15, <1>16, Handled DEF ArtInv, Types

LEMMA Abandons ==
    ASSUME ArtInv, NEW c \in Callers, call[c] # None, call[c].kind = "download",
           NEW ops,
           \/ ops = op /\ call[c].slot = None
           \/ ops = Pool(c) /\ call[c].slot # None /\ Answer(c).state \in {"finished", "aborted"},
           NEW w \in Calls, w.kind = call[c].kind, w.job = call[c].job, w.alone = call[c].alone,
           NEW out \in Outcomes, Abandon(ops, c, w, out), UNCHANGED <<disk, aborts, loaded>>,
           w.asked => out = "cancelled",
           w.fd = Held(c) \/ (w.fd = None /\ aborts # 0)
    PROVE  ArtInv'
<1>1. PICK v : v = [w EXCEPT !.cut = None, !.out = out]
  OBVIOUS
<1>2. /\ v \in Calls /\ v.kind = w.kind /\ v.job = w.job /\ v.alone = w.alone
      /\ v.cut = None /\ v.out = out /\ v.asked = w.asked /\ v.fd = w.fd
  BY <1>1 DEF Calls
<1>3. Submit(ops, c, v, "abandon", "short", {})
  BY <1>1 DEF Abandon
<1>4. v.cut # "timeout" /\ "short" \in Contents
  BY <1>2 DEF Contents
<1> QED BY <1>2, <1>3, <1>4, Submits

\* What a call that has its answer knows.
LEMMA Answered ==
    ASSUME ArtInv, NEW c \in Callers, NEW act \in Acts, Awaited(c, act)
    PROVE  /\ call[c] # None /\ call[c].pc = act /\ call[c].slot # None
           /\ call[c] \in Calls /\ Proper(call[c]) /\ Awaits(call[c], Answer(c))
           /\ Answer(c) \in Workers /\ Sound(Answer(c)) /\ Answer(c).act = act
           /\ Staged(call[c], Answer(c))
           /\ Answer(c).state \in {"finished", "aborted"}
           /\ act # "prepare" => Verdict(c) \in Outcomes
           /\ Answer(c).state = "aborted" => aborts # 0
           /\ Held(c) = HeldBy(call[c], Answer(c))
           /\ Carries(c) <=> Minds(call[c], Answer(c))
           /\ call[c].asked => \/ call[c].cut = "cancel"
                               \/ act = "abandon" /\ call[c].out = "cancelled"
                               \/ act = "drop"
           /\ call[c].cut \in {None, "timeout", "cancel"}
           /\ call[c].cut = "timeout" => act = "write"
<1>1. call[c] # None /\ call[c].pc = act /\ Answer(c).state \in {"finished", "aborted"}
  BY DEF Awaited, At
<1>2. call[c] \in Calls /\ Proper(call[c]) /\ call[c].slot # None
  <2>1. call[c] \in Calls /\ Proper(call[c])
    BY <1>1, TheCall DEF ArtInv
  <2> QED BY <1>1, <2>1 DEF Proper
<1>3. /\ call[c].slot \in Slots /\ Answer(c) \in Workers /\ Answer(c) # None /\ Sound(Answer(c))
      /\ Awaits(call[c], Answer(c))
  BY <1>1, <1>2, TheCall DEF ArtInv, Answer
<1>4. Answer(c).act = act /\ Staged(call[c], Answer(c))
  BY <1>1, <1>2, <1>3 DEF Awaits, ArtInv, StageInv, Answer
<1>5. act # "prepare" => Verdict(c) \in Outcomes
  BY <1>3, <1>4 DEF Verdict, Sound, Outcomes
<1>6. Answer(c).state = "aborted" => aborts # 0
  <2> SUFFICES ASSUME Answer(c).state = "aborted", aborts = 0 PROVE FALSE
    OBVIOUS
  <2>1. call[c].slot \in Aborted
    BY <1>3 DEF Aborted, Answer
  <2>2. Cardinality(Aborted) = 0
    BY AbortedFinite DEF ArtInv, RoomInv
  <2> QED BY <2>1, <2>2, AbortedFinite, FS_EmptySet
<1>7. Held(c) = HeldBy(call[c], Answer(c)) /\ (Carries(c) <=> Minds(call[c], Answer(c)))
  BY <1>1 DEF Held, Carries, Answer
<1>8. /\ call[c].asked => \/ call[c].cut = "cancel"
                          \/ act = "abandon" /\ call[c].out = "cancelled"
                          \/ act = "drop"
      /\ call[c].cut \in {None, "timeout", "cancel"}
      /\ call[c].cut = "timeout" => act = "write"
  BY <1>1, <1>2 DEF Proper, Heard, Calls, Acts
<1> QED BY <1>1, <1>2, <1>3, <1>4, <1>5, <1>6, <1>7, <1>8

\* A download that talks to the server.
LEMMA Talking ==
    ASSUME ArtInv, NEW c \in Callers, At(c, "http")
    PROVE  /\ call[c] # None /\ call[c] \in Calls /\ call[c].slot = None /\ ~call[c].asked
           /\ call[c].kind = "download" /\ call[c].fd # None /\ call[c].fd = Held(c)
           /\ call[c].cut = None
<1>1. call[c] # None /\ call[c].pc = "http"
  BY DEF At
<1>2. call[c] \in Calls /\ Proper(call[c])
  BY <1>1, TheCall DEF ArtInv
<1>3. call[c].kind = "download"
  BY <1>1, <1>2 DEF Proper, Legs, Calls
<1>4. call[c].slot = None /\ ~call[c].asked /\ call[c].fd # None /\ call[c].cut = None
  BY <1>1, <1>2 DEF Proper, Heard, Acts, Calls
<1> QED BY <1>1, <1>2, <1>3, <1>4 DEF Held, HeldBy

LEMMA PreparedKeeps ==
    ASSUME ArtInv, NEW c \in Callers, Prepared(c)
    PROVE  ArtInv'
<1> DEFINE w == call[c]
           o == Answer(c)
<1>1. Awaited(c, "prepare") /\ UNCHANGED <<disk, loaded, aborts>>
  BY DEF Prepared
<1>2. "prepare" \in Acts
  BY DEF Acts
<1>3. /\ w # None /\ w.pc = "prepare" /\ w.slot # None /\ w \in Calls /\ Proper(w)
      /\ o \in Workers /\ Sound(o) /\ o.act = "prepare" /\ o.state \in {"finished", "aborted"}
      /\ Held(c) = o.fd /\ (Carries(c) <=> o.fd # None)
      /\ w.asked => w.cut = "cancel"
  BY <1>1, <1>2, Answered DEF HeldBy, Minds
<1>4. w.kind = "download"
  BY <1>3, Downloads
<1>5. CASE o.state = "aborted" /\ Return(Pool(c), c, "cancelled")
  <2>1. o.fd = None /\ "cancelled" \in Outcomes
    BY <1>3, <1>5 DEF Sound, Outcomes
  <2> QED BY <1>1, <1>3, <1>5, <2>1, Returns DEF ArtInv, Types
<1>6. CASE /\ o.state = "finished" /\ w.cut # None
           /\ Submit(Pool(c), c, [w EXCEPT !.fd = DroppedFd(c), !.cut = None],
                     "drop", "short", {})
  <2>1. PICK v : v = [w EXCEPT !.fd = DroppedFd(c), !.cut = None]
    OBVIOUS
  <2>2. /\ v \in Calls /\ v.kind = w.kind /\ v.job = w.job /\ v.alone = w.alone
        /\ v.cut = None /\ v.asked = w.asked /\ v.fd = o.fd
    <3>1. o.fd \in Files \cup {None}
      BY <1>3 DEF Workers
    <3> QED BY <1>3, <2>1, <3>1 DEF Calls, DroppedFd
  <2>3. Submit(Pool(c), c, v, "drop", "short", {})
    BY <1>6, <2>1
  <2>4. v.cut # "timeout" /\ "short" \in Contents
    BY <2>2 DEF Contents
  <2> QED BY <1>1, <1>3, <1>4, <2>2, <2>3, <2>4, Submits
<1>7. CASE /\ o.state = "finished" /\ w.cut = None /\ o.result = "ok" /\ op' = Pool(c)
           /\ call' = [call EXCEPT ![c] = [w EXCEPT !.pc = "http", !.slot = None, !.fd = o.fd]]
  <2>1. PICK v : v = [w EXCEPT !.pc = "http", !.slot = None, !.fd = o.fd]
    OBVIOUS
  <2>2. /\ v \in Calls /\ v.kind = w.kind /\ v.job = w.job /\ v.alone = w.alone
        /\ v.cut = w.cut /\ v.asked = w.asked /\ v.fd = o.fd /\ v.pc = "http" /\ v.slot = None
    <3>1. o.fd \in Files \cup {None}
      BY <1>3 DEF Workers
    <3> QED BY <1>3, <2>1, <3>1 DEF Calls
  <2>3. call' = [call EXCEPT ![c] = v]
    BY <1>7, <2>1
  <2>4. o.fd # None
    BY <1>3, <1>7 DEF Sound
  <2>5. ~v.asked /\ v.cut = None
    BY <1>3, <1>7, <2>2
  <2> QED BY <1>1, <1>3, <1>4, <1>7, <2>2, <2>3, <2>4, <2>5, Resumes
<1>8. CASE /\ o.state = "finished" /\ w.cut = None /\ o.result # "ok"
           /\ Return(Pool(c), c, PreparedOutcome(o.result))
  <2>1. o.fd = None
    BY <1>3, <1>8 DEF Sound
  <2>2. PICK out \in Outcomes : out = PreparedOutcome(o.result)
    <3>1. PreparedOutcome(o.result) \in Outcomes
      BY <1>3 DEF Workers, PreparedOutcome, Outcomes
    <3> QED BY <3>1
  <2>3. ~w.asked
    BY <1>3, <1>8
  <2> QED BY <1>1, <1>3, <1>8, <2>1, <2>2, <2>3, Returns DEF ArtInv, Types
<1> QED BY <1>5, <1>6, <1>7, <1>8 DEF Prepared

LEMMA ExchangeKeeps ==
    ASSUME ArtInv, NEW c \in Callers, Chunk(c) \/ BodyEnds(c) \/ HttpFails(c)
    PROVE  ArtInv'
<1>1. At(c, "http") /\ UNCHANGED <<disk, loaded, aborts>>
  BY DEF Chunk, BodyEnds, HttpFails
<1>2. /\ call[c] # None /\ call[c] \in Calls /\ call[c].slot = None /\ ~call[c].asked
      /\ call[c].kind = "download" /\ call[c].fd # None /\ call[c].fd = Held(c)
      /\ call[c].cut = None /\ call[c].cut # "timeout"
  BY <1>1, Talking
<1>3. PICK w \in Calls : w = call[c]
  BY <1>2
<1>4. PICK ops : ops = op
  OBVIOUS
<1>5. ASSUME NEW bytes \in Contents, Submit(op, c, call[c], "write", bytes, {}) PROVE ArtInv'
  BY <1>1, <1>2, <1>3, <1>4, <1>5, Submits
<1>6. CASE Submit(op, c, call[c], "finish", "short", {})
  <2>1. "short" \in Contents
    BY DEF Contents
  <2> QED BY <1>1, <1>2, <1>3, <1>4, <1>6, <2>1, Submits
<1>7. CASE Abandon(op, c, call[c], "failed")
  <2>1. "failed" \in Outcomes
    BY DEF Outcomes
  <2> QED BY <1>1, <1>2, <1>3, <1>4, <1>7, <2>1, Abandons
<1> QED BY <1>5, <1>6, <1>7 DEF Chunk, BodyEnds, HttpFails

LEMMA WrittenKeeps ==
    ASSUME ArtInv, NEW c \in Callers, Written(c)
    PROVE  ArtInv'
<1> DEFINE w == call[c]
           o == Answer(c)
<1>1. Awaited(c, "write") /\ UNCHANGED <<disk, loaded, aborts>>
  BY DEF Written
<1>2. "write" \in Acts
  BY DEF Acts
<1>3. /\ w # None /\ w.pc = "write" /\ w.slot # None /\ w \in Calls /\ Proper(w)
      /\ o \in Workers /\ o.act = "write" /\ o.state \in {"finished", "aborted"}
      /\ Held(c) = w.fd /\ Verdict(c) \in Outcomes
      /\ w.asked => w.cut = "cancel"
      /\ w.cut \in {None, "timeout", "cancel"}
  BY <1>1, <1>2, Answered DEF HeldBy
<1>4. w.kind = "download" /\ w.fd # None
  BY <1>3, Downloads DEF Proper
<1>5. CASE Verdict(c) = "ok"
  <2>1. w.cut = None /\ o.state = "finished"
    BY <1>3, <1>5 DEF Verdict
  <2>2. PICK v : v = [w EXCEPT !.pc = "http", !.slot = None, !.got = o.bytes]
    OBVIOUS
  <2>3. /\ v \in Calls /\ v.kind = w.kind /\ v.job = w.job /\ v.alone = w.alone
        /\ v.cut = w.cut /\ v.asked = w.asked /\ v.fd = w.fd /\ v.pc = "http" /\ v.slot = None
    <3>1. o.bytes \in Contents
      BY <1>3 DEF Workers
    <3> QED BY <1>3, <2>2, <3>1 DEF Calls
  <2>4. op' = Pool(c) /\ call' = [call EXCEPT ![c] = v]
    BY <1>3, <1>5, <2>2 DEF Written, ArtInv, Types
  <2>5. ~v.asked
    BY <1>3, <2>1, <2>3
  <2> QED BY <1>1, <1>3, <1>4, <2>1, <2>3, <2>4, <2>5, Resumes
<1>6. CASE Verdict(c) # "ok"
  <2>1. PICK out \in Outcomes : out = Verdict(c)
    BY <1>3
  <2>2. PICK v \in Calls : v = call[c]
    BY <1>3
  <2>3. Abandon(Pool(c), c, v, out)
    BY <1>6, <2>1, <2>2 DEF Written
  <2>4. v.asked => out = "cancelled"
    BY <1>3, <2>1, <2>2 DEF Verdict
  <2> QED BY <1>1, <1>3, <1>4, <2>2, <2>3, <2>4, Abandons
<1> QED BY <1>5, <1>6

LEMMA FinishedKeeps ==
    ASSUME ArtInv, NEW c \in Callers, Finished(c)
    PROVE  ArtInv'
<1> DEFINE o == Answer(c)
<1>1. Awaited(c, "finish") /\ UNCHANGED <<disk, loaded, aborts>>
  BY DEF Finished
<1>2. "finish" \in Acts
  BY DEF Acts
<1>3. /\ call[c] # None /\ call[c].pc = "finish" /\ call[c].slot # None /\ call[c] \in Calls
      /\ o.state \in {"finished", "aborted"} /\ Verdict(c) \in Outcomes
      /\ Held(c) = HeldBy(call[c], o) /\ (o.state = "aborted" => aborts # 0)
      /\ call[c].asked => call[c].cut = "cancel"
      /\ call[c].cut \in {None, "cancel"}
  BY <1>1, <1>2, Answered
<1>4. call[c].kind = "download"
  BY <1>3, Downloads
<1>5. Held(c) = None \/ aborts # 0
  BY <1>3 DEF HeldBy
<1>6. PICK w : w = [call[c] EXCEPT !.fd = None]
  OBVIOUS
<1>7. /\ w \in Calls /\ w.kind = call[c].kind /\ w.job = call[c].job /\ w.alone = call[c].alone
      /\ w.cut = call[c].cut /\ w.asked = call[c].asked /\ w.fd = None
  BY <1>3, <1>6 DEF Calls
<1>8. w.fd = Held(c) \/ (w.fd = None /\ aborts # 0)
  BY <1>5, <1>7
<1>9. CASE Verdict(c) = "ok"
  <2>1. Submit(Pool(c), c, w, "promote", "short", {})
    BY <1>6, <1>9 DEF Finished
  <2>2. w.cut # "timeout" /\ ~w.asked /\ "short" \in Contents
    BY <1>3, <1>7, <1>9 DEF Verdict, Contents
  <2> QED BY <1>1, <1>3, <1>4, <1>7, <1>8, <2>1, <2>2, Submits
<1>10. CASE Verdict(c) # "ok"
  <2>1. PICK out \in Outcomes : out = Verdict(c)
    BY <1>3
  <2>2. Abandon(Pool(c), c, w, out)
    BY <1>6, <1>10, <2>1 DEF Finished
  <2>3. w.asked => out = "cancelled"
    BY <1>3, <1>7, <2>1 DEF Verdict
  <2> QED BY <1>1, <1>3, <1>4, <1>7, <1>8, <2>2, <2>3, Abandons
<1> QED BY <1>9, <1>10

LEMMA PromotedKeeps ==
    ASSUME ArtInv, NEW c \in Callers, Promoted(c)
    PROVE  ArtInv'
<1> DEFINE o == Answer(c)
<1>1. Awaited(c, "promote") /\ UNCHANGED <<disk, loaded, aborts>>
  BY DEF Promoted
<1>2. "promote" \in Acts
  BY DEF Acts
<1>3. /\ call[c] # None /\ call[c].pc = "promote" /\ call[c].slot # None /\ call[c] \in Calls
      /\ Proper(call[c]) /\ o.act = "promote" /\ Sound(o) /\ Staged(call[c], o)
      /\ o.state \in {"finished", "aborted"} /\ Verdict(c) \in Outcomes
      /\ Held(c) = HeldBy(call[c], o)
      /\ call[c].asked => call[c].cut = "cancel"
      /\ call[c].cut \in {None, "cancel"}
  BY <1>1, <1>2, Answered
<1>4. call[c].kind = "download"
  BY <1>3, Downloads
<1>5. Held(c) = None /\ call[c].fd = None
  BY <1>3 DEF HeldBy, Proper
<1>6. CASE Verdict(c) = "ok"
  <2>1. o.state = "finished" /\ o.result = "ok" /\ ~call[c].asked
    BY <1>3, <1>6 DEF Verdict
  <2>2. part[call[c].job] = None
    BY <1>3, <2>1 DEF Sound, Staged
  <2>3. Return(Pool(c), c, "ok") /\ "ok" \in Outcomes
    BY <1>6 DEF Promoted, Outcomes
  <2> QED BY <1>1, <1>3, <1>5, <2>1, <2>2, <2>3, Returns DEF ArtInv, Types
<1>7. CASE Verdict(c) # "ok"
  <2>1. PICK out \in Outcomes : out = Verdict(c)
    BY <1>3
  <2>2. PICK v \in Calls : v = call[c]
    BY <1>3
  <2>3. Abandon(Pool(c), c, v, out)
    BY <1>7, <2>1, <2>2 DEF Promoted
  <2>4. v.asked => out = "cancelled"
    BY <1>3, <2>1, <2>2 DEF Verdict
  <2> QED BY <1>1, <1>3, <1>4, <1>5, <2>2, <2>3, <2>4, Abandons
<1> QED BY <1>6, <1>7

\* A cleanup that was cancelled in the queue is submitted again.
LEMMA AbandonedKeeps ==
    ASSUME ArtInv, NEW c \in Callers, Abandoned(c)
    PROVE  ArtInv'
<1> DEFINE o == Answer(c)
<1>1. Awaited(c, "abandon") /\ UNCHANGED <<disk, loaded, aborts>>
  BY DEF Abandoned
<1>2. "abandon" \in Acts
  BY DEF Acts
<1>3. /\ call[c] # None /\ call[c].pc = "abandon" /\ call[c].slot # None /\ call[c] \in Calls
      /\ o.act = "abandon" /\ Sound(o) /\ Staged(call[c], o)
      /\ o.state \in {"finished", "aborted"} /\ Verdict(c) \in Outcomes
      /\ Held(c) = HeldBy(call[c], o)
      /\ call[c].asked => call[c].cut = "cancel" \/ call[c].out = "cancelled"
      /\ call[c].cut \in {None, "cancel"}
  BY <1>1, <1>2, Answered
<1>4. call[c].kind = "download"
  BY <1>3, Downloads
<1>5. CASE o.state = "aborted"
  <2>1. PICK v \in Calls : v = call[c]
    BY <1>3
  <2>2. Submit(Pool(c), c, v, "abandon", "short", {})
    BY <1>5, <2>1 DEF Abandoned, Lost
  <2>3. v.fd = Held(c)
    BY <1>3, <1>5, <2>1 DEF HeldBy, Sound, FirstStep
  <2>4. v.cut # "timeout" /\ "short" \in Contents
    BY <1>3, <2>1 DEF Contents
  <2> QED BY <1>1, <1>3, <1>4, <2>1, <2>2, <2>3, <2>4, Submits
<1>6. CASE o.state = "finished"
  <2>1. PICK out : out = IF call[c].cut = None /\ o.result = "ok" THEN call[c].out ELSE Verdict(c)
    OBVIOUS
  <2>2. out \in Outcomes
    BY <1>3, <2>1 DEF Calls
  <2>3. Return(Pool(c), c, out)
    BY <1>6, <2>1 DEF Abandoned, Lost
  <2>4. call[c].asked /\ call[c].alone =>
            out = "cancelled" \/ (DiskFaults /\ call[c].kind = "download" /\ out = "failed")
    <3> SUFFICES ASSUME call[c].asked, call[c].alone, out # "cancelled"
                 PROVE  DiskFaults /\ out = "failed"
      BY <1>4
    <3>1. call[c].cut = None /\ call[c].out = "cancelled"
      BY <1>3, <2>1 DEF Verdict
    <3>2. o.result = "failed" /\ out = "failed"
      BY <1>3, <1>6, <2>1, <3>1 DEF Verdict, Sound
    <3> QED BY <1>3, <3>2 DEF Staged
  <2>5. Held(c) = None
    BY <1>3, <1>6 DEF HeldBy
  <2>6. part[call[c].job] = None \/ call[c].job \in residue
    BY <1>3, <1>6 DEF Staged
  <2> QED BY <1>1, <1>3, <2>2, <2>3, <2>4, <2>5, <2>6, Returns DEF ArtInv, Types
<1> QED BY <1>3, <1>5, <1>6

LEMMA DroppedKeeps ==
    ASSUME ArtInv, NEW c \in Callers, Dropped(c)
    PROVE  ArtInv'
<1> DEFINE o == Answer(c)
<1>1. Awaited(c, "drop") /\ UNCHANGED <<disk, loaded, aborts>>
  BY DEF Dropped
<1>2. "drop" \in Acts
  BY DEF Acts
<1>3. /\ call[c] # None /\ call[c].pc = "drop" /\ call[c].slot # None /\ call[c] \in Calls
      /\ o.act = "drop" /\ Sound(o) /\ Staged(call[c], o)
      /\ o.state \in {"finished", "aborted"} /\ Held(c) = HeldBy(call[c], o)
      /\ call[c].cut \in {None, "cancel"}
  BY <1>1, <1>2, Answered
<1>4. call[c].kind = "download"
  BY <1>3, Downloads
<1>5. CASE o.state = "aborted"
  <2>1. PICK v \in Calls : v = call[c]
    BY <1>3
  <2>2. Submit(Pool(c), c, v, "drop", "short", {})
    BY <1>5, <2>1 DEF Dropped, Lost
  <2>3. v.fd = Held(c)
    BY <1>3, <1>5, <2>1 DEF HeldBy, Sound, FirstStep
  <2>4. v.cut # "timeout" /\ "short" \in Contents
    BY <1>3, <2>1 DEF Contents
  <2> QED BY <1>1, <1>3, <1>4, <2>1, <2>2, <2>3, <2>4, Submits
<1>6. CASE o.state = "finished"
  <2>1. Return(Pool(c), c, "cancelled") /\ "cancelled" \in Outcomes
    BY <1>6 DEF Dropped, Lost, Outcomes
  <2>2. Held(c) = None
    BY <1>3, <1>6 DEF HeldBy
  <2>3. part[call[c].job] = None \/ call[c].job \in residue
    BY <1>3, <1>6 DEF Staged
  <2> QED BY <1>1, <1>3, <2>1, <2>2, <2>3, Returns DEF ArtInv, Types
<1> QED BY <1>3, <1>5, <1>6

LEMMA CleanedUpKeeps ==
    ASSUME ArtInv, NEW c \in Callers, CleanedUp(c) \/ Reconciled(c)
    PROVE  ArtInv'
<1>1. PICK act \in {"remove", "reconcile"} : Awaited(c, act)
  BY DEF CleanedUp, Reconciled
<1>2. act \in Acts
  BY DEF Acts
<1>3. /\ call[c] # None /\ call[c].pc = act /\ call[c].slot # None
      /\ Answer(c).state \in {"finished", "aborted"} /\ Verdict(c) \in Outcomes
      /\ Held(c) = HeldBy(call[c], Answer(c)) /\ (Carries(c) <=> Minds(call[c], Answer(c)))
      /\ call[c].asked => call[c].cut = "cancel"
  BY <1>1, <1>2, Answered
<1>4. Held(c) = None /\ ~Carries(c)
  BY <1>3 DEF HeldBy, Minds
<1>5. PICK out \in Outcomes : out = Verdict(c)
  BY <1>3
<1>6. Return(Pool(c), c, out) /\ UNCHANGED <<disk, aborts>>
  BY <1>5 DEF CleanedUp, Reconciled
<1>7. call[c].asked => out = "cancelled"
  BY <1>3, <1>5 DEF Verdict
<1>8. loaded' \in BOOLEAN /\ (loaded' = loaded \/ At(c, "reconcile"))
  BY DEF CleanedUp, Reconciled, Awaited, ArtInv, Types
<1> QED BY <1>3, <1>4, <1>6, <1>7, <1>8, Returns

\* A task is cancelled, or its time is over.
LEMMA CancelKeeps ==
    ASSUME ArtInv, NEW c \in Callers, Cancel(c)
    PROVE  ArtInv'
<1>1. call[c] # None /\ call[c].pc # "returned" /\ UNCHANGED <<disk, loaded, aborts>>
  BY DEF Cancel
<1>2. call[c] \in Calls /\ Proper(call[c])
  BY <1>1, TheCall DEF ArtInv
<1>3. PICK w : w = [call[c] EXCEPT !.asked = TRUE]
  OBVIOUS
<1>4. /\ w \in Calls /\ w.kind = call[c].kind /\ w.job = call[c].job /\ w.alone = call[c].alone
      /\ w.fd = call[c].fd /\ w.pc = call[c].pc
  BY <1>2, <1>3 DEF Calls
<1>5. CASE w.pc = "http"
  <2>1. Abandon(op, c, w, "cancelled") /\ "cancelled" \in Outcomes
    BY <1>3, <1>5 DEF Cancel, Outcomes
  <2>2. /\ call[c].kind = "download" /\ call[c].slot = None /\ call[c].fd = Held(c)
    BY <1>1, <1>4, <1>5, Talking DEF At
  <2>3. PICK ops : ops = op
    OBVIOUS
  <2> QED BY <1>1, <1>4, <2>1, <2>2, <2>3, Abandons
<1>6. CASE w.pc # "http"
  <2>1. call[c].slot # None
    BY <1>1, <1>2, <1>4, <1>6 DEF Calls, Proper
  <2>2. op' = op /\ call' = [call EXCEPT ![c] = [w EXCEPT !.cut = "cancel"]]
    BY <1>3, <1>6 DEF Cancel
  <2>3. [w EXCEPT !.cut = "cancel"] = [call[c] EXCEPT !.cut = "cancel", !.asked = TRUE]
    BY <1>2, <1>3 DEF Calls
  <2>4. call' = [call EXCEPT ![c] = [@ EXCEPT !.cut = "cancel", !.asked = TRUE]]
    BY <2>2, <2>3
  <2> QED BY <1>1, <2>1, <2>2, <2>4, Interrupts
<1> QED BY <1>5, <1>6

LEMMA ExpireKeeps ==
    ASSUME ArtInv, NEW c \in Callers, Expire(c)
    PROVE  ArtInv'
<1>1. CASE At(c, "http") /\ Abandon(op, c, call[c], "failed")
  <2>1. HttpFails(c)
    BY <1>1 DEF Expire, HttpFails
  <2> QED BY <2>1, ExchangeKeeps
<1>2. CASE /\ At(c, "write") /\ call[c].cut = None
           /\ call' = [call EXCEPT ![c].cut = "timeout"]
           /\ op' = op
  <2>1. call[c] # None /\ call[c].pc = "write" /\ UNCHANGED <<disk, loaded, aborts>>
    BY <1>2 DEF Expire, At
  <2>2. call[c] \in Calls /\ Proper(call[c])
    BY <2>1, TheCall DEF ArtInv
  <2>3. call[c].slot # None /\ call[c].asked \in BOOLEAN
    BY <2>1, <2>2 DEF Proper, Acts, Calls
  <2>4. PICK asked \in BOOLEAN : asked = call[c].asked
    BY <2>3
  <2>5. [call[c] EXCEPT !.cut = "timeout"] = [call[c] EXCEPT !.cut = "timeout", !.asked = asked]
    BY <2>2, <2>4 DEF Calls
  <2>6. call' = [call EXCEPT ![c] = [@ EXCEPT !.cut = "timeout", !.asked = asked]]
    BY <1>2, <2>5
  <2> QED BY <1>2, <2>1, <2>3, <2>4, <2>6, Interrupts
<1> QED BY <1>1, <1>2 DEF Expire

\* A new call submits its first worker; those with its job are not alone with
\* it any more.
LEMMA Begun ==
    ASSUME ArtInv, NEW c \in Callers, NEW kind \in {"download", "remove", "reconcile"},
           NEW j \in Jobs \cup {None}, kind = "reconcile" <=> j = None,
           NEW act \in Acts, act = IF kind = "download" THEN "prepare" ELSE kind,
           NEW keep \in SUBSET Jobs, Begin(c, kind, j, act, keep),
           kind = "download" => \A d \in Others(c, j) : call[d].kind # "download",
           kind = "reconcile" => ~loaded /\ \A d \in Callers : call[d] = None,
           kind # "reconcile" => loaded
    PROVE  ArtInv'
<1> USE DEF ArtInv
<1>1. call[c] = None /\ UNCHANGED <<disk, loaded, aborts>>
  BY DEF Begin
<1>2. /\ part' = part /\ ready' = ready /\ data' = data /\ open' = open /\ residue' = residue
      /\ loaded' = loaded /\ aborts' = aborts
  BY <1>1 DEF disk
<1>3. \E x \in Slots : op[x] = None
  BY <1>1, FreeSlot
<1> DEFINE free == CHOOSE x \in Slots : op[x] = None
<1>4. PICK s \in Slots : s = free /\ op[s] = None
  BY <1>3
<1>5. PICK w : w = NewCall(c, kind, j)
  OBVIOUS
<1>6. /\ w \in Calls /\ w.kind = kind /\ w.job = j /\ w.fd = None /\ w.cut = None
      /\ w.asked = FALSE /\ w.alone = (Others(c, j) = {})
  <2>1. "returned" \in Acts \cup {"http", "returned"} /\ "short" \in Contents
        /\ "ok" \in Outcomes /\ (Others(c, j) = {}) \in BOOLEAN
    BY DEF Contents, Outcomes
  <2> QED BY <1>5, <2>1 DEF NewCall, Calls
<1>7. PICK o : o = Work(act, w, "short", keep)
  OBVIOUS
<1>8. /\ o \in Workers /\ o # None /\ o.act = act /\ o.job = j /\ o.fd = None
      /\ o.state = "queued" /\ o.step = FirstStep(act) /\ o.result = "ok"
  <2>1. "short" \in Contents
    BY DEF Contents
  <2> QED BY <1>6, <1>7, <2>1, WorkIs
<1>9. PICK v : v = [w EXCEPT !.pc = act, !.slot = s]
  OBVIOUS
<1>10. /\ v \in Calls /\ v # None /\ v.kind = kind /\ v.job = j /\ v.fd = None /\ v.cut = None
       /\ v.asked = FALSE /\ v.alone = (Others(c, j) = {}) /\ v.pc = act /\ v.slot = s
  <2>1. /\ v \in Calls /\ v.kind = kind /\ v.job = j /\ v.fd = None /\ v.cut = None
        /\ v.asked = FALSE /\ v.alone = (Others(c, j) = {}) /\ v.pc = act /\ v.slot = s
    BY <1>6, <1>9 DEF Calls
  <2> QED BY <2>1
<1>11. /\ op' = [op EXCEPT ![s] = o]
       /\ call' = [d \in Callers |->
             IF d = c THEN v
             ELSE IF d \in Others(c, j) THEN [call[d] EXCEPT !.alone = FALSE]
             ELSE call[d]]
  BY <1>4, <1>5, <1>7, <1>9 DEF Begin
<1> HIDE DEF free
<1>12. op'[s] = o /\ op' \in [Slots -> Workers \cup {None}]
       /\ \A x \in Slots : x # s => op'[x] = op[x]
  BY <1>8, <1>11 DEF Types
<1>13. call'[c] = v
  BY <1>11
<1>14. ASSUME NEW d \in Callers, d # c
       PROVE  /\ call'[d] # None <=> call[d] # None
              /\ call'[d] \in Calls \cup {None}
              /\ call[d] # None =>
                    /\ call'[d].kind = call[d].kind /\ call'[d].job = call[d].job
                    /\ call'[d].pc = call[d].pc /\ call'[d].slot = call[d].slot
                    /\ call'[d].fd = call[d].fd /\ call'[d].cut = call[d].cut
                    /\ call'[d].out = call[d].out /\ call'[d].asked = call[d].asked
                    /\ call'[d].alone => call[d].alone /\ call[d].job # j
  <2>1. CASE d \notin Others(c, j)
    <3>1. call'[d] = call[d]
      BY <1>11, <1>14, <2>1
    <3> QED BY <1>14, <2>1, <3>1 DEF Others, Types
  <2>2. CASE d \in Others(c, j)
    <3>1. call[d] # None /\ call[d] \in Calls
      BY <2>2 DEF Others, Types
    <3>2. PICK u : u = [call[d] EXCEPT !.alone = FALSE]
      OBVIOUS
    <3>3. /\ u \in Calls /\ u.kind = call[d].kind /\ u.job = call[d].job
          /\ u.pc = call[d].pc /\ u.slot = call[d].slot
          /\ u.fd = call[d].fd /\ u.cut = call[d].cut
          /\ u.out = call[d].out /\ u.asked = call[d].asked /\ u.alone = FALSE
      BY <3>1, <3>2 DEF Calls
    <3>4. call'[d] = u
      BY <1>11, <1>14, <2>2, <3>2
    <3> QED BY <3>1, <3>3, <3>4
  <2> QED BY <2>1, <2>2
<1>15. call' \in [Callers -> Calls \cup {None}]
  <2>1. \A d \in Callers : call'[d] \in Calls \cup {None}
    BY <1>10, <1>13, <1>14
  <2>2. call' = [d \in Callers |-> call'[d]]
    BY <1>11
  <2> QED BY <2>1, <2>2
<1>16. Sound(o)
  <2>1. o.step \in Stages(o.act)
    BY <1>8 DEF Stages, FirstStep
  <2> QED BY <1>8, <2>1 DEF Sound
<1>17. Proper(v) /\ Awaits(v, o)
  <2>1. Heard(v)
    BY <1>10 DEF Heard
  <2>2. act \in Legs(kind) /\ s # None
    BY DEF Legs
  <2> QED BY <1>8, <1>10, <2>1, <2>2 DEF Proper, Awaits
<1>18. ASSUME NEW d \in Callers, d # c, call[d] # None, call[d].slot # None
       PROVE  call[d].slot # s /\ op'[call[d].slot] = op[call[d].slot]
              /\ Awaits(call[d], op[call[d].slot])
  BY <1>4, <1>12, <1>18, TheCall
<1>19. CallInv'
  <2> SUFFICES ASSUME NEW d \in Callers, call'[d] # None
               PROVE  /\ Proper(call'[d])
                      /\ call'[d].slot # None => Awaits(call'[d], op'[call'[d].slot])
    BY DEF CallInv
  <2>1. CASE d = c
    BY <1>10, <1>12, <1>13, <1>17, <2>1
  <2>2. CASE d # c
    <3>1. Proper(call[d]) /\ call[d] # None
      BY <1>14, <2>2 DEF CallInv
    <3>2. Proper(call'[d])
      BY <1>14, <2>2, <3>1 DEF Proper, Heard
    <3>3. call[d].slot # None => Awaits(call'[d], op'[call[d].slot])
      BY <1>14, <1>18, <2>2, <3>1 DEF Awaits
    <3> QED BY <1>14, <2>2, <3>1, <3>2, <3>3
  <2> QED BY <2>1, <2>2
<1>20. OpInv'
  <2> SUFFICES ASSUME NEW x \in Slots, op'[x] # None
               PROVE  Sound(op'[x]) /\ (op'[x].state = "aborted" \/ \E d \in Callers : Owns(d, x)')
    BY DEF OpInv
  <2>1. CASE x = s
    <3>1. Owns(c, x)'
      BY <1>10, <1>13, <2>1 DEF Owns
    <3> QED BY <1>12, <1>16, <2>1, <3>1
  <2>2. CASE x # s
    <3>1. op'[x] = op[x] /\ op[x] # None
      BY <1>12, <2>2
    <3>2. ASSUME NEW d \in Callers, Owns(d, x) PROVE Owns(d, x)'
      BY <1>1, <1>14, <3>2 DEF Owns
    <3> QED BY <3>1, <3>2 DEF OpInv
  <2> QED BY <2>1, <2>2
<1>21. ApartInv'
  <2> SUFFICES ASSUME NEW d \in Callers, NEW e \in Callers, d # e, call'[d] # None, call'[e] # None
               PROVE  /\ call'[d].slot # None => call'[d].slot # call'[e].slot
                      /\ call'[d].kind = "download" /\ call'[e].kind = "download"
                             => call'[d].job # call'[e].job
                      /\ call'[d].alone /\ call'[d].job # None => call'[e].job # call'[d].job
    BY DEF ApartInv
  <2>1. CASE d # c /\ e # c
    BY <1>14, <2>1 DEF ApartInv
  <2>2. ASSUME NEW f \in Callers, f # c, call'[f] # None
        PROVE  /\ call[f] # None /\ s # call'[f].slot
               /\ kind = "download" /\ call'[f].kind = "download" => call'[f].job # j
               /\ Others(c, j) = {} => call'[f].job # j
    <3>1. call[f] # None /\ call'[f].slot = call[f].slot /\ call'[f].kind = call[f].kind
          /\ call'[f].job = call[f].job
      BY <1>14, <2>2
    <3>2. s # call[f].slot
      <4>1. s # None
        OBVIOUS
      <4> QED BY <1>18, <2>2, <3>1, <4>1
    <3>3. call[f].job = j => f \in Others(c, j)
      BY <2>2, <3>1 DEF Others
    <3> QED BY <3>1, <3>2, <3>3
  <2>3. CASE d = c
    BY <1>10, <1>13, <2>2, <2>3
  <2>4. CASE e = c
    BY <1>10, <1>13, <1>14, <2>2, <2>4
  <2> QED BY <2>1, <2>3, <2>4
<1>22. LoadInv'
  <2> SUFFICES ASSUME NEW d \in Callers, At(d, "reconcile")'
               PROVE  ~loaded /\ \A e \in Callers \ {d} : call'[e] = None
    BY <1>2 DEF LoadInv
  <2>1. CASE d = c
    <3>1. kind = "reconcile"
      BY <1>10, <1>13, <2>1 DEF At
    <3> QED BY <1>14, <2>1, <3>1
  <2>2. CASE d # c
    <3>1. At(d, "reconcile")
      BY <1>14, <2>2 DEF At
    <3> QED BY <3>1 DEF LoadInv, At
  <2> QED BY <2>1, <2>2
<1>23. RoomInv'
  <2>1. Aborted' \subseteq Aborted
    BY <1>8, <1>12 DEF Aborted
  <2>2. Cardinality(Aborted') <= Cardinality(Aborted)
    BY <2>1, AbortedFinite, FS_Subset
  <2> QED BY <1>2, <2>2, AbortedFinite DEF RoomInv, Types
<1>24. StageInv'
  <2> SUFFICES ASSUME NEW d \in Callers, call'[d] # None, call'[d].slot # None
               PROVE  Staged(call[d], op[call[d].slot])'
    BY DEF StageInv
  <2>1. CASE d = c
    <3>1. o.step \notin {"create", "replace", "rehash", "undo", "unpart"}
      BY <1>8 DEF FirstStep, Acts
    <3> QED BY <1>8, <1>10, <1>12, <1>13, <2>1, <3>1 DEF Staged
  <2>2. CASE d # c
    <3>1. call[d] # None /\ call[d].slot # None /\ call'[d].slot = call[d].slot
      BY <1>14, <2>2
    <3>2. Staged(call[d], op[call[d].slot]) /\ op'[call[d].slot] = op[call[d].slot]
      BY <1>18, <2>2, <3>1 DEF StageInv
    <3>3. call'[d].job = call[d].job /\ (call'[d].alone => call[d].alone)
      BY <1>14, <2>2, <3>1
    <3> QED BY <1>2, <3>1, <3>2, <3>3 DEF Staged
  <2> QED BY <2>1, <2>2
<1>25. /\ Held(c)' = None /\ ~Carries(c)'
       /\ \A d \in Callers \ {c} : Held(d)' = Held(d) /\ (Carries(d) => Carries(d)')
  <2>1. Held(c)' = None /\ ~Carries(c)'
    <3>1. HeldBy(v, o) = None /\ ~Minds(v, o)
      BY <1>8, <1>10 DEF HeldBy, Minds
    <3> QED BY <1>10, <1>12, <1>13, <3>1 DEF Held, Carries
  <2>2. ASSUME NEW d \in Callers, d # c
        PROVE  Held(d)' = Held(d) /\ (Carries(d) => Carries(d)')
    <3>1. CASE call[d] = None
      BY <1>14, <2>2, <3>1 DEF Held, Carries
    <3>2. CASE call[d] # None /\ call[d].slot = None
      <4>1. call[d].pc \notin Acts
        BY <3>2, TheCall DEF Proper
      <4> QED BY <1>14, <2>2, <3>2, <4>1 DEF Held, Carries, HeldBy, Minds, Acts
    <3>3. CASE call[d] # None /\ call[d].slot # None
      <4>1. op'[call'[d].slot] = op[call[d].slot]
        BY <1>14, <1>18, <2>2, <3>3
      <4> QED BY <1>14, <2>2, <3>3, <4>1 DEF Held, Carries, HeldBy, Minds
    <3> QED BY <3>1, <3>2, <3>3
  <2> QED BY <2>1, <2>2
<1>26. HeldInv'
  <2> SUFFICES ASSUME NEW d \in Callers, Held(d)' # None
               PROVE  /\ Held(d)' \in open
                      /\ \A e \in Callers \ {d} : Held(e)' # Held(d)'
                      /\ \A k \in Jobs : ready[k] # Held(d)'
                                         /\ (part[k] = Held(d)' => k = call'[d].job)
    BY <1>2 DEF HeldInv
  <2>1. d # c /\ Held(d)' = Held(d) /\ Held(d) # None
    BY <1>25
  <2>2. \A e \in Callers \ {d} : Held(e)' # Held(d)
    BY <1>25, <2>1 DEF HeldInv
  <2>3. call'[d].job = call[d].job
    BY <1>14, <2>1 DEF Held
  <2> QED BY <2>1, <2>2, <2>3 DEF HeldInv
<1>27. OpenInv'
  <2> SUFFICES ASSUME aborts = 0, NEW f \in open PROVE \E d \in Callers : Held(d)' = f
    BY <1>2 DEF OpenInv
  <2>1. PICK d \in Callers : Held(d) = f
    BY DEF OpenInv
  <2>2. f # None
    BY DEF Types
  <2>3. d # c
    BY <1>1, <2>1, <2>2 DEF Held
  <2> QED BY <1>25, <2>1, <2>3
<1>28. PartInv'
  <2> SUFFICES ASSUME NEW k \in Jobs \ residue, part[k] # None
               PROVE  \E d \in Callers : Carries(d)' /\ call'[d].job = k
    BY <1>2 DEF PartInv
  <2>1. PICK d \in Callers : Carries(d) /\ call[d].job = k
    BY DEF PartInv
  <2>2. call[d] # None /\ d # c
    BY <1>1, <2>1 DEF Carries
  <2> QED BY <1>14, <1>25, <2>1, <2>2
<1>29. Types' /\ FilesInv'
  BY <1>2, <1>12, <1>15 DEF Types, FilesInv, Named
<1> QED BY <1>19, <1>20, <1>21, <1>22, <1>23, <1>24, <1>26, <1>27, <1>28, <1>29

LEMMA BeginKeeps ==
    ASSUME ArtInv, NEW c \in Callers,
           StartReconcile(c) \/ \E j \in Jobs : StartDownload(c, j) \/ StartCleanup(c, j)
    PROVE  ArtInv'
<1>1. CASE StartReconcile(c)
  <2>1. PICK keep \in SUBSET Jobs : Begin(c, "reconcile", None, "reconcile", keep)
    BY <1>1 DEF StartReconcile
  <2>2. ~loaded /\ \A d \in Callers : call[d] = None
    BY <1>1 DEF StartReconcile
  <2>3. "reconcile" \in Acts
    BY DEF Acts
  <2> QED BY <2>1, <2>2, <2>3, Begun
<1>2. ASSUME NEW j \in Jobs, StartDownload(c, j) PROVE ArtInv'
  <2>1. /\ loaded /\ Begin(c, "download", j, "prepare", {})
        /\ \A d \in Others(c, j) : call[d].kind # "download"
    BY <1>2 DEF StartDownload
  <2>2. "prepare" \in Acts /\ j # None /\ {} \in SUBSET Jobs
    BY DEF Acts
  <2> QED BY <2>1, <2>2, Begun
<1>3. ASSUME NEW j \in Jobs, StartCleanup(c, j) PROVE ArtInv'
  <2>1. loaded /\ Begin(c, "remove", j, "remove", {})
    BY <1>3 DEF StartCleanup
  <2>2. "remove" \in Acts /\ j # None /\ {} \in SUBSET Jobs
    BY DEF Acts
  <2> QED BY <2>1, <2>2, Begun
<1> QED BY <1>1, <1>2, <1>3

\* A new process finds what had a name.
LEMMA CrashKeeps ==
    ASSUME ArtInv, Crash
    PROVE  ArtInv'
<1>1. /\ part' = part /\ ready' = ready /\ open' = {}
      /\ data' = [f \in Files |-> IF f \in Named(part, ready) THEN data[f] ELSE None]
      /\ residue' = {j \in residue \cup {i \in Jobs : part[i] # None} : part[j] # None}
      /\ call' = [c \in Callers |-> None] /\ op' = [s \in Slots |-> None]
      /\ loaded' = FALSE /\ aborts' = 0
  BY DEF Crash, Disk
<1>2. MaxAborts \in Nat
  OBVIOUS
<1>3. Types'
  <2>1. aborts' \in 0..MaxAborts
    BY <1>1, <1>2
  <2>2. data' \in [Files -> Contents \cup {None}]
    BY <1>1 DEF ArtInv, Types
  <2>3. call' \in [Callers -> Calls \cup {None}] /\ op' \in [Slots -> Workers \cup {None}]
    BY <1>1
  <2>4. residue' \in SUBSET Jobs
    BY <1>1 DEF ArtInv, Types
  <2> QED BY <1>1, <2>1, <2>2, <2>3, <2>4 DEF ArtInv, Types
<1>4. Aborted' = {}
  BY <1>1 DEF Aborted
<1>5. RoomInv'
  BY <1>1, <1>4, FS_EmptySet DEF RoomInv
<1>6. FilesInv'
  <2>1. \A f \in Files : f \in Named(part, ready) => data'[f] = data[f]
    BY <1>1
  <2>2. \A j \in Jobs : ready[j] # None => ready[j] \in Files /\ ready[j] \in Named(part, ready)
    BY DEF ArtInv, Types, Named
  <2> QED BY <1>1, <2>1, <2>2 DEF ArtInv, FilesInv
<1>7. \A c \in Callers : Held(c)' = None
  BY <1>1 DEF Held
<1>8. HeldInv' /\ OpenInv'
  BY <1>1, <1>7 DEF HeldInv, OpenInv
<1>9. PartInv'
  BY <1>1 DEF PartInv, ArtInv, Types
<1>10. (CallInv /\ OpInv /\ ApartInv /\ LoadInv /\ StageInv)'
  BY <1>1 DEF CallInv, OpInv, ApartInv, LoadInv, StageInv, At
<1> QED BY <1>3, <1>5, <1>6, <1>8, <1>9, <1>10 DEF ArtInv

LEMMA ArtStarts ==
    ASSUME ArtInit
    PROVE  ArtInv
<1> USE DEF ArtInit
<1>1. Types
  <2>1. MaxAborts \in Nat
    OBVIOUS
  <2>2. aborts \in 0..MaxAborts
    BY <2>1
  <2>3. call \in [Callers -> Calls \cup {None}] /\ op \in [Slots -> Workers \cup {None}]
    OBVIOUS
  <2>4. /\ part \in [Jobs -> Files \cup {None}] /\ ready \in [Jobs -> Files \cup {None}]
        /\ data \in [Files -> Contents \cup {None}]
    OBVIOUS
  <2>5. open \in SUBSET Files /\ residue \in SUBSET Jobs /\ loaded \in BOOLEAN
    OBVIOUS
  <2> QED BY <2>2, <2>3, <2>4, <2>5 DEF Types
<1>2. Aborted = {}
  BY DEF Aborted
<1>3. RoomInv
  BY <1>2, FS_EmptySet DEF RoomInv
<1>4. \A c \in Callers : Held(c) = None
  BY DEF Held
<1>5. FilesInv
  BY DEF FilesInv, Named
<1>6. HeldInv /\ OpenInv /\ PartInv
  BY <1>4 DEF HeldInv, OpenInv, PartInv
<1>7. CallInv /\ OpInv /\ ApartInv /\ LoadInv /\ StageInv
  BY DEF CallInv, OpInv, ApartInv, LoadInv, StageInv, At
<1> QED BY <1>1, <1>3, <1>5, <1>6, <1>7 DEF ArtInv

LEMMA ArtStutters ==
    ASSUME ArtInv, UNCHANGED artVars
    PROVE  ArtInv'
<1>1. /\ part' = part /\ ready' = ready /\ data' = data /\ open' = open /\ residue' = residue
      /\ call' = call /\ op' = op /\ loaded' = loaded /\ aborts' = aborts
  BY DEF artVars, disk
<1>2. \A c \in Callers : Held(c)' = Held(c) /\ (Carries(c)' <=> Carries(c))
  BY <1>1 DEF Held, Carries
<1>3. Aborted' = Aborted
  BY <1>1 DEF Aborted
<1>4. (Types /\ CallInv /\ OpInv /\ ApartInv /\ LoadInv)'
  BY <1>1 DEF ArtInv, Types, CallInv, OpInv, ApartInv, LoadInv, At, Owns
<1>5. (RoomInv /\ FilesInv)'
  BY <1>1, <1>3 DEF ArtInv, RoomInv, FilesInv
<1>6. HeldInv'
  BY <1>1, <1>2 DEF ArtInv, HeldInv
<1>7. OpenInv'
  BY <1>1, <1>2 DEF ArtInv, OpenInv
<1>8. PartInv'
  BY <1>1, <1>2 DEF ArtInv, PartInv
<1>9. StageInv'
  BY <1>1 DEF ArtInv, StageInv, Staged
<1> QED BY <1>4, <1>5, <1>6, <1>7, <1>8, <1>9 DEF ArtInv

----------------------------------------------------------------------------
(* The results. *)

\* The custody's inductive invariant: every file has a name or a descriptor of
\* one download that knows it, every partial a download that minds it or the
\* mark of a crash or a failing disk, and what a worker found before a step
\* still holds after it.
THEOREM ArtSafe == ArtSpec => []ArtInv
<1>1. ArtInit => ArtInv
  BY ArtStarts
<1>2. ASSUME ArtInv, [ArtNext]_artVars PROVE ArtInv'
  <2>1. ASSUME NEW s \in Slots, ThreadStep(s) PROVE ArtInv'
    BY <1>2, <2>1, StartKeeps, LookKeeps, HashReadyKeeps, CreateKeeps, PutKeeps, CloseKeeps,
       CheckKeeps, HashPartialKeeps, ReplaceKeeps, RehashKeeps, UndoKeeps, PartStatKeeps,
       UnpartKeeps, ReadyStatKeeps, ReconcileKeeps DEF ThreadStep
  <2>2. ASSUME NEW s \in Slots, Abort(s) PROVE ArtInv'
    BY <1>2, <2>2, AbortKeeps
  <2>3. ASSUME NEW c \in Callers, CallStep(c) PROVE ArtInv'
    <3>1. CASE BodyEnds(c)
      BY <1>2, <3>1, ExchangeKeeps
    <3>2. CASE CleanedUp(c) \/ Reconciled(c)
      BY <1>2, <3>2, CleanedUpKeeps
    <3> QED BY <1>2, <2>3, <3>1, <3>2, PreparedKeeps, WrittenKeeps, FinishedKeeps, PromotedKeeps,
               AbandonedKeeps, DroppedKeeps, OverKeeps DEF CallStep
  <2>4. ASSUME NEW c \in Callers, Chunk(c) \/ HttpFails(c) PROVE ArtInv'
    BY <1>2, <2>4, ExchangeKeeps
  <2>5. ASSUME NEW c \in Callers, Cancel(c) PROVE ArtInv'
    BY <1>2, <2>5, CancelKeeps
  <2>6. ASSUME NEW c \in Callers, Expire(c) PROVE ArtInv'
    BY <1>2, <2>6, ExpireKeeps
  <2>7. ASSUME NEW c \in Callers,
               StartReconcile(c) \/ \E j \in Jobs : StartDownload(c, j) \/ StartCleanup(c, j)
        PROVE  ArtInv'
    BY <1>2, <2>7, BeginKeeps
  <2>8. CASE Crash
    BY <1>2, <2>8, CrashKeeps
  <2>9. CASE UNCHANGED artVars
    BY <1>2, <2>9, ArtStutters
  <2> QED BY <1>2, <2>1, <2>2, <2>3, <2>4, <2>5, <2>6, <2>7, <2>8, <2>9 DEF ArtNext
<1> QED BY <1>1, <1>2, PTL DEF ArtSpec

\* What has the ready name holds the signed bytes, and has no partial beside it
\* (_promote_partial).
THEOREM ReadyIsWholeAlways == ArtSpec => []ReadyIsWhole
<1>1. ArtInv => ReadyIsWhole
  BY DEF ArtInv, FilesInv, ReadyIsWhole
<1> QED BY <1>1, ArtSafe, PTL

\* A partial has a download that is under way, or a crash or the disk left it
\* (_async_cleanup_executor, _async_clear_stale_partial).
THEOREM PartialAccountedAlways == ArtSpec => []PartialAccounted
<1>1. ASSUME ArtInv PROVE PartialAccounted
  <2> SUFFICES ASSUME NEW j \in Jobs \ residue, part[j] # None
               PROVE  \E c \in Callers :
                         call[c] # None /\ call[c].kind = "download" /\ call[c].job = j
    BY DEF PartialAccounted
  <2>1. PICK c \in Callers : Carries(c) /\ call[c].job = j
    BY <1>1 DEF ArtInv, PartInv
  <2>2. call[c] # None /\ call[c] \in Calls /\ Proper(call[c])
    BY <1>1, <2>1, TheCall DEF Carries, ArtInv
  <2>3. call[c].pc \in Legs("download")
    BY <2>1 DEF Carries, Minds, Legs
  <2>4. call[c].kind = "download"
    BY <2>2, <2>3 DEF Proper, Legs, Calls
  <2> QED BY <2>1, <2>2, <2>4
<1> QED BY <1>1, ArtSafe, PTL

\* Every variable keeps its shape, a thread only uses a descriptor that is open,
\* and each descriptor has a download that knows it, or that awaits the worker
\* that opened it.
THEOREM DescriptorsOwnedAlways == ArtSpec => []DescriptorsOwned
<1>1. ASSUME ArtInv PROVE DescriptorsOwned
  <2>1. ArtTypes
    <3>1. \A c \in Callers : call[c] # None /\ call[c].slot # None =>
              op[call[c].slot] # None /\ op[call[c].slot].act = call[c].pc
      BY <1>1 DEF ArtInv, CallInv, Awaits
    <3> QED BY <1>1, <3>1 DEF ArtInv, Types, ArtTypes
  <2>2. ASSUME NEW s \in Slots, op[s] # None, op[s].state = "running",
               op[s].step \in {"put", "close"}, op[s].fd # None
        PROVE  op[s].fd \in open
    <3>1. PICK c \in Callers : Serves(s, c)
      BY <1>1, <2>2, Owner
    <3>2. Held(c) = op[s].fd
      BY <2>2, <3>1, Acting DEF Serves, Owns, Awaits, Held, HeldBy
    <3> QED BY <1>1, <2>2, <3>2 DEF ArtInv, HeldInv
  <2>3. ASSUME aborts = 0, NEW f \in open
        PROVE  \E c \in Callers :
                  /\ call[c] # None
                  /\ \/ f = call[c].fd
                     \/ call[c].slot # None /\ f = op[call[c].slot].fd
    <3>1. PICK c \in Callers : Held(c) = f
      BY <1>1, <2>3 DEF ArtInv, OpenInv
    <3>2. f # None
      BY <1>1 DEF ArtInv, Types
    <3>3. call[c] # None
      BY <3>1, <3>2 DEF Held
    <3>4. call[c].pc = "prepare" => call[c].slot # None
      BY <1>1, <3>3, TheCall DEF ArtInv, Proper, Acts
    <3> QED BY <3>1, <3>2, <3>3, <3>4 DEF Held, HeldBy
  <2> QED BY <2>1, <2>2, <2>3 DEF DescriptorsOwned
<1> QED BY <1>1, ArtSafe, PTL

\* A cancelled call ends cancelled, unless it is a download whose partial a
\* failing disk keeps.
THEOREM CancelHeardAlways == ArtSpec => []CancelHeard
<1>1. ASSUME ArtInv PROVE CancelHeard
  <2> SUFFICES ASSUME NEW c \in Callers, At(c, "returned"), call[c].asked, call[c].alone
               PROVE  \/ call[c].out = "cancelled"
                      \/ DiskFaults /\ call[c].kind = "download" /\ call[c].out = "failed"
    BY DEF CancelHeard
  <2>1. Heard(call[c]) /\ call[c].pc = "returned"
    BY <1>1 DEF At, ArtInv, CallInv, Proper
  <2> QED BY <2>1 DEF Heard, Acts
<1> QED BY <1>1, ArtSafe, PTL

\* While a directory is reconciled there is no other call, and no other worker
\* that could run.
LEMMA ReconcilesAlone ==
    ASSUME ArtInv, NEW s \in Slots, Running(s, "scan")
    PROVE  \E c \in Callers :
              /\ Serves(s, c) /\ call[c] # None /\ call[c].pc = "reconcile" /\ call[c].slot = s
              /\ ~loaded /\ \A d \in Callers \ {c} : call[d] = None
              /\ \A x \in Slots \ {s} : op[x] # None => op[x].state = "aborted"
<1>1. op[s] # None /\ op[s].state = "running" /\ op[s].step = "scan"
  BY DEF Running
<1>2. PICK c \in Callers : Serves(s, c)
  BY <1>1, Owner
<1>3. call[c] # None /\ call[c].pc = "reconcile" /\ call[c].slot = s
  BY <1>1, <1>2, Acting DEF Serves, Owns
<1>4. ~loaded /\ \A d \in Callers \ {c} : call[d] = None
  BY <1>3 DEF ArtInv, LoadInv, At
<1>5. \A x \in Slots \ {s} : op[x] # None => op[x].state = "aborted"
  BY <1>3, <1>4 DEF ArtInv, OpInv, Owns
<1> QED BY <1>2, <1>3, <1>4, <1>5

\* Reconciling keeps what it was told to keep, and when it succeeds nothing
\* else is left (_reconcile_install_artifacts).
THEOREM ReconcileExactAlways == ArtSpec => ReconcileExact
<1> DEFINE Exact(s) ==
             /\ \A j \in op[s].keep : part'[j] = part[j] /\ ready'[j] = ready[j]
             /\ op'[s].state = "finished" /\ op'[s].result = "ok" =>
                   \A j \in Jobs \ op[s].keep : part'[j] = None /\ ready'[j] = None
           A == \A s \in Slots : Running(s, "scan") /\ op'[s] # None => Exact(s)
<1>1. ASSUME ArtInv, ArtNext PROVE A
  <2> SUFFICES ASSUME NEW s \in Slots, Running(s, "scan"), op'[s] # None PROVE Exact(s)
    OBVIOUS
  <2>1. op[s] # None /\ op[s].state = "running" /\ op[s].step = "scan"
    BY DEF Running
  <2>2. PICK c \in Callers :
              /\ Serves(s, c) /\ call[c] # None /\ call[c].pc = "reconcile" /\ call[c].slot = s
              /\ ~loaded /\ \A d \in Callers \ {c} : call[d] = None
              /\ \A x \in Slots \ {s} : op[x] # None => op[x].state = "aborted"
    BY <1>1, ReconcilesAlone
  <2>3. op[s] \in Workers /\ op[s].keep \subseteq Jobs /\ op[s].act = "reconcile"
    BY <2>2, Acting, <2>1 DEF Serves, Workers
  <2>4. ASSUME UNCHANGED disk, op'[s] = op[s] PROVE Exact(s)
    BY <2>1, <2>4 DEF disk
  <2>5. CASE Reconcile(s)
    <3>1. CASE Stale(s) = {} /\ End(s, "ok") /\ UNCHANGED disk
      <4>1. \A j \in Jobs \ op[s].keep : part[j] = None /\ ready[j] = None
        BY <3>1 DEF Stale
      <4> QED BY <3>1, <4>1 DEF disk
    <3>2. ASSUME NEW j \in Stale(s), op' = op,
                 \/ Disk([part EXCEPT ![j] = None], ready, data, open, {})
                 \/ Disk(part, [ready EXCEPT ![j] = None], data, open, {})
          PROVE  Exact(s)
      <4>1. j \notin op[s].keep
        BY DEF Stale
      <4>2. /\ part' = part \/ part' = [part EXCEPT ![j] = None]
            /\ ready' = ready \/ ready' = [ready EXCEPT ![j] = None]
        BY <3>2 DEF Disk
      <4> QED BY <1>1, <2>1, <2>3, <3>2, <4>1, <4>2 DEF ArtInv, Types
    <3>3. CASE End(s, "failed") /\ UNCHANGED disk
      <4>1. op'[s].result = "failed"
        <5>1. op'[s] = [op[s] EXCEPT !.state = "finished",
                           !.result = IF op[s].result = "failed" THEN "failed" ELSE "failed"]
          BY <1>1, <3>3 DEF End, ArtInv, Types
        <5> QED BY <2>3, <5>1 DEF Workers
      <4> QED BY <3>3, <4>1 DEF disk
    <3> QED BY <2>5, <3>1, <3>2, <3>3 DEF Reconcile
  <2>6. ASSUME NEW x \in Slots, ThreadStep(x) PROVE Exact(s)
    <3>1. CASE Start(x)
      <4>1. x # s /\ op' = [op EXCEPT ![x] = None] /\ UNCHANGED disk
        BY <2>1, <2>2, <3>1 DEF Start, Started
      <4>2. op'[s] = op[s]
        BY <1>1, <4>1 DEF ArtInv, Types
      <4> QED BY <2>4, <4>1, <4>2
    <3>2. ASSUME NEW step, Running(x, step), step # "scan" PROVE FALSE
      BY <2>1, <2>2, <3>2 DEF Running
    <3>3. CASE Reconcile(x)
      <4>1. x = s
        BY <2>2, <3>3 DEF Reconcile, Running
      <4> QED BY <2>5, <3>3, <4>1
    <3> QED BY <2>6, <3>1, <3>2, <3>3 DEF ThreadStep, Look, HashReady, Create, Put, Close, Check,
               HashPartial, Replace, Rehash, Undo, PartStat, Unpart, ReadyStat, Unready
  <2>7. ASSUME NEW x \in Slots, Abort(x) PROVE Exact(s)
    BY <2>1, <2>2, <2>7 DEF Abort
  <2>8. ASSUME NEW d \in Callers, NEW pc, At(d, pc) PROVE d = c /\ pc = "reconcile"
    BY <2>2, <2>8 DEF At
  <2>9. ASSUME NEW d \in Callers, CallStep(d) \/ Chunk(d) \/ HttpFails(d) \/ Expire(d)
        PROVE  Exact(s)
    <3>1. ~Reconciled(d)
      BY <2>1, <2>2, <2>8 DEF Reconciled, Awaited, Answer
    <3> QED BY <2>8, <2>9, <3>1 DEF CallStep, Chunk, HttpFails, Expire, Prepared, Written, BodyEnds,
               Finished, Promoted, Abandoned, Dropped, CleanedUp, Over, Awaited
  <2>10. ASSUME NEW d \in Callers, Cancel(d) PROVE Exact(s)
    <3>1. d = c
      BY <2>2, <2>10 DEF Cancel
    <3>2. call[c] \in Calls
      BY <2>2 DEF Serves
    <3>3. [call[c] EXCEPT !.asked = TRUE].pc = "reconcile"
      BY <2>2, <3>2 DEF Calls
    <3>4. op' = op /\ UNCHANGED disk
      BY <2>10, <3>1, <3>3 DEF Cancel
    <3> QED BY <2>4, <3>4
  <2>11. ASSUME NEW d \in Callers,
                StartReconcile(d) \/ \E j \in Jobs : StartDownload(d, j) \/ StartCleanup(d, j)
         PROVE  Exact(s)
    BY <2>2, <2>11 DEF StartReconcile, StartDownload, StartCleanup
  <2>12. CASE Crash
    BY <2>12 DEF Crash
  <2> QED BY <1>1, <2>6, <2>7, <2>9, <2>10, <2>11, <2>12 DEF ArtNext
<1>2. ASSUME ArtInv, [ArtNext]_artVars PROVE [A]_artVars
  <2>1. CASE ArtNext
    BY <1>1, <1>2, <2>1
  <2>2. CASE UNCHANGED artVars
    BY <2>2
  <2> QED BY <1>2, <2>1, <2>2
<1> QED BY <1>2, ArtSafe, PTL DEF ArtSpec, ReconcileExact

----------------------------------------------------------------------------
(* The promise of InstallCustody.  What an answer says must be true when it  *)
(* is given, and so must what the worker whose answer it is has found.       *)

\* What the worker o of call w tells of its job, mostly as long as no other
\* call comes near it.
Tells(w, o) ==
    LET j == w.job
    IN CASE w.pc = "prepare" -> w.alone =>
              /\ o.state = "running" /\ o.step = "hash" => ready[j] # None
              /\ o.fd # None => ready[j] = None
              /\ o.result = "reuse" => ready[j] # None
              /\ o.result = "busy" => part[j] # None
              /\ o.result = "failed" => DiskFaults
         [] w.pc \in {"http", "write", "finish"} -> w.alone => ready[j] = None
         [] w.pc = "promote" ->
              /\ o.step = "undo" => DiskFaults \/ ready[j] = None
              /\ w.alone =>
                    /\ o.step \in {"check", "hash", "replace"} => ready[j] = None
                    /\ o.step = "rehash" => ready[j] # None /\ o.result = "ok"
                    /\ o.step = "undo" => DiskFaults
         [] w.pc = "abandon" ->
              /\ w.out \in {"failed", "cancelled"}
              /\ o.state = "finished" /\ o.result = "ok" => part[j] = None
              /\ w.alone /\ w.out = "failed" => DiskFaults \/ ready[j] = None
         [] w.pc = "remove" -> w.alone =>
              /\ o.state = "running" /\ o.step = "unpart" => part[j] # None
              /\ o.step \in {"readystat", "unready"} => part[j] = None
              /\ o.state = "running" /\ o.step = "unready" => ready[j] # None
              /\ o.state = "finished" /\ o.result = "ok" => part[j] = None /\ ready[j] = None
              /\ o.result = "failed" => DiskFaults
         [] w.pc = "reconcile" ->
              /\ o.state = "finished" /\ o.result = "ok" =>
                    \A k \in Jobs \ o.keep : part[k] = None /\ ready[k] = None
              /\ o.result = "failed" => DiskFaults
         [] OTHER -> TRUE

TellInv == \A c \in Callers : call[c] # None => Tells(call[c], op[call[c].slot])

\* A step keeps both, and is a step of the promise.
Honest == TellInv' /\ [Custody!Next]_(Custody!vars)

LEMMA HeldIs ==
    ASSUME ArtInv, NEW j \in Jobs
    PROVE  HeldOf(j) = IF part[j] # None THEN "part" ELSE IF ready[j] # None THEN "whole" ELSE "none"
  BY DEF HeldOf, ArtInv, FilesInv

LEMMA HeldWillBe ==
    ASSUME ArtInv', NEW j \in Jobs
    PROVE  HeldOf(j)' =
              IF part'[j] # None THEN "part" ELSE IF ready'[j] # None THEN "whole" ELSE "none"
  BY DEF HeldOf, ArtInv, FilesInv

\* A call, seen from outside.
LEMMA DeedIs ==
    ASSUME NEW c \in Callers, call[c] # None, call[c] \in Calls,
           call[c].pc = "reconcile" => Answer(c) \in Workers
    PROVE  /\ DeedOf(c) \in Deeds /\ DeedOf(c) # None
           /\ DeedOf(c).kind = call[c].kind /\ DeedOf(c).job = call[c].job
           /\ DeedOf(c).alone = call[c].alone
           /\ DeedOf(c).keep = IF call[c].pc = "reconcile" THEN Answer(c).keep ELSE {}
           /\ DeedOf(c).out = IF call[c].pc = "returned" THEN call[c].out ELSE None
<1>1. DeedOf(c) \in Deeds
  <2>1. (IF call[c].pc = "reconcile" THEN Answer(c).keep ELSE {}) \in SUBSET Jobs
    BY DEF Workers
  <2> QED BY <2>1 DEF DeedOf, Deeds, Calls
<1> QED BY <1>1 DEF DeedOf

\* The five steps of the promise.
LEMMA Touched ==
    ASSUME ArtInv, ArtInv', NEW c \in Callers, call[c] # None, call[c].pc # "returned",
           NEW j \in Jobs,
           IF call[c].kind = "reconcile" THEN call[c].pc = "reconcile" /\ j \notin Answer(c).keep
           ELSE call[c].job = j,
           \A d \in Callers : DeedOf(d)' = DeedOf(d),
           \A k \in Jobs \ {j} : part'[k] = part[k] /\ ready'[k] = ready[k],
           HeldOf(j)' = HeldOf(j) \/ <<HeldOf(j), HeldOf(j)'>> \in Custody!Moves(call[c].kind),
           NEW left \in SUBSET {j}, left # {} => DiskFaults,
           residue' = {k \in residue \cup left : part'[k] # None}
    PROVE  Custody!Next
<1> DEFINE H == [k \in Jobs |-> HeldOf(k)]
           D == [d \in Callers |-> DeedOf(d)]
<1>1. \A k \in Jobs \ {j} : HeldOf(k)' = HeldOf(k)
  BY HeldIs, HeldWillBe
<1>2. PICK h : h = HeldOf(j)'
  OBVIOUS
<1>3. h \in {"none", "part", "whole"}
  BY <1>2, HeldWillBe
<1>4. H' = [H EXCEPT ![j] = h]
  BY <1>1, <1>2
<1>5. D' = D
  OBVIOUS
<1>6. \A k \in Jobs : H'[k] = "part" <=> part'[k] # None
  BY HeldWillBe
<1>7. residue' = {k \in residue \cup left : H'[k] = "part"}
  <2>1. residue \cup left \subseteq Jobs
    BY DEF ArtInv, Types
  <2> QED BY <1>6, <2>1
<1>8. /\ D[c] # None /\ D[c].out = None /\ D[c].kind = call[c].kind /\ D[c].job = call[c].job
      /\ call[c].pc = "reconcile" => D[c].keep = Answer(c).keep
  <2>1. call[c] \in Calls /\ Proper(call[c]) /\ (call[c].slot # None => Answer(c) \in Workers)
    BY TheCall DEF ArtInv, Answer
  <2>2. call[c].pc = "reconcile" => call[c].slot # None
    BY <2>1 DEF Proper, Acts
  <2> QED BY <2>1, <2>2, DeedIs
<1>9. h = H[j] \/ <<H[j], h>> \in Custody!Moves(D[c].kind)
  BY <1>2, <1>8
<1>10. Custody!Underway(c) /\ Custody!Reaches(c, j)
  BY <1>8 DEF Custody!Underway, Custody!Reaches
<1> HIDE DEF H, D
<1>11. Custody!Touch(c, j)
  BY <1>3, <1>4, <1>5, <1>7, <1>9, <1>10 DEF Custody!Touch, H, D
<1> QED BY <1>11 DEF Custody!Next

\* An answer is given, and it is true.
Tidings(w, out) ==
    /\ w.kind = "download" =>
          /\ part[w.job] # None => w.job \in residue
          /\ w.alone /\ out = "ok" => ready[w.job] # None
          /\ w.alone /\ out = "busy" => part[w.job] # None
          /\ w.alone /\ out = "failed" => DiskFaults \/ (part[w.job] = None /\ ready[w.job] = None)
    /\ w.kind # "download" => out # "busy"
    /\ w.kind = "remove" =>
          /\ w.alone /\ out = "ok" => part[w.job] = None /\ ready[w.job] = None
          /\ w.alone /\ out = "failed" => DiskFaults

LEMMA Told ==
    ASSUME ArtInv, ArtInv', NEW c \in Callers, call[c] # None, call[c].pc # "returned",
           UNCHANGED disk, NEW out \in Outcomes, Tidings(call[c], out),
           call[c].kind = "reconcile" =>
              /\ call[c].pc = "reconcile" /\ (out = "failed" => DiskFaults)
              /\ out = "ok" => \A j \in Jobs \ Answer(c).keep : part[j] = None /\ ready[j] = None,
           call'[c] \in Calls, call'[c].pc = "returned", call'[c].out = out,
           call'[c].kind = call[c].kind, call'[c].job = call[c].job,
           call'[c].alone = call[c].alone,
           \A d \in Callers \ {c} : DeedOf(d)' = DeedOf(d)
    PROVE  Custody!Next
<1> DEFINE H == [k \in Jobs |-> HeldOf(k)]
           D == [d \in Callers |-> DeedOf(d)]
<1>1. H' = H /\ residue' = residue
  <2>1. part' = part /\ ready' = ready /\ residue' = residue
    BY DEF disk
  <2>2. \A k \in Jobs : HeldOf(k)' = HeldOf(k)
    BY <2>1, HeldIs, HeldWillBe
  <2> QED BY <2>1, <2>2
<1>2. /\ call[c] \in Calls /\ Proper(call[c])
      /\ call[c].pc = "reconcile" => Answer(c) \in Workers
  <2>1. call[c] \in Calls /\ Proper(call[c]) /\ (call[c].slot # None => Answer(c) \in Workers)
    BY TheCall DEF ArtInv, Answer
  <2> QED BY <2>1 DEF Proper, Acts
<1>3. /\ D[c] \in Deeds /\ D[c] # None
      /\ D[c].kind = call[c].kind /\ D[c].job = call[c].job /\ D[c].alone = call[c].alone
      /\ D[c].out = None /\ (call[c].pc = "reconcile" => D[c].keep = Answer(c).keep)
  BY <1>2, DeedIs
<1>4. D'[c] = [D[c] EXCEPT !.out = out, !.keep = {}]
  <2>1. PICK u : u = D'[c]
    OBVIOUS
  <2>2. /\ u \in Deeds /\ u.kind = call[c].kind /\ u.job = call[c].job
        /\ u.alone = call[c].alone /\ u.keep = {} /\ u.out = out
    <3>1. call'[c] # None
      OBVIOUS
    <3>2. u = [kind |-> call'[c].kind, job |-> call'[c].job, alone |-> call'[c].alone,
               keep |-> {}, out |-> call'[c].out]
      BY <2>1, <3>1 DEF DeedOf
    <3> QED BY <1>2, <3>2 DEF Deeds, Calls
  <2>3. PICK e \in Deeds : e = D[c]
    BY <1>3
  <2>4. PICK v : v = [e EXCEPT !.out = out, !.keep = {}]
    OBVIOUS
  <2>5. /\ v \in Deeds /\ v.kind = e.kind /\ v.job = e.job
        /\ v.alone = e.alone /\ v.keep = {} /\ v.out = out
    BY <2>4 DEF Deeds
  <2>6. u = v
    BY <1>3, <2>2, <2>3, <2>5 DEF Deeds
  <2> HIDE DEF D
  <2> QED BY <2>1, <2>3, <2>4, <2>6
<1>5. D' = [D EXCEPT ![c] = [D[c] EXCEPT !.out = out, !.keep = {}]]
  BY <1>4
<1>6. Custody!Truthful(c, out)
  <2>1. CASE call[c].kind = "download"
    <3>1. call[c].job \in Jobs
      BY <1>2, <2>1 DEF Proper, Calls
    <3>2. H[call[c].job] = "part" <=> part[call[c].job] # None
      BY <3>1, HeldIs
    <3>3. ready[call[c].job] # None => H[call[c].job] = "whole"
      BY <3>1, HeldIs DEF ArtInv, FilesInv
    <3>4. part[call[c].job] = None /\ ready[call[c].job] = None => H[call[c].job] = "none"
      BY <3>1, HeldIs
    <3> HIDE DEF H, D
    <3>5. /\ H[D[c].job] = "part" => D[c].job \in residue
          /\ D[c].alone /\ out = "ok" => H[D[c].job] = "whole"
          /\ D[c].alone /\ out = "busy" => H[D[c].job] = "part"
          /\ D[c].alone /\ out = "failed" /\ ~DiskFaults => H[D[c].job] = "none"
      BY <1>3, <2>1, <3>2, <3>3, <3>4 DEF Tidings
    <3> QED BY <1>3, <2>1, <3>5 DEF Custody!Truthful, H, D
  <2>2. CASE call[c].kind = "remove"
    <3>1. call[c].job \in Jobs
      BY <1>2, <2>2 DEF Proper, Calls
    <3>2. part[call[c].job] = None /\ ready[call[c].job] = None => H[call[c].job] = "none"
      BY <3>1, HeldIs
    <3> HIDE DEF H, D
    <3>3. /\ out # "busy"
          /\ D[c].alone /\ out = "ok" => H[D[c].job] = "none"
          /\ D[c].alone /\ out = "failed" => DiskFaults
      BY <1>3, <2>2, <3>2 DEF Tidings
    <3> QED BY <1>3, <2>2, <3>3 DEF Custody!Truthful, H, D
  <2>3. CASE call[c].kind = "reconcile"
    <3>1. \A j \in Jobs : part[j] = None /\ ready[j] = None => H[j] = "none"
      BY HeldIs
    <3> HIDE DEF H, D
    <3>2. /\ out # "busy" /\ (out = "failed" => DiskFaults)
          /\ out = "ok" => \A j \in Jobs \ D[c].keep : H[j] = "none"
      BY <1>3, <2>3, <3>1 DEF Tidings
    <3> QED BY <1>3, <2>3, <3>2 DEF Custody!Truthful, H, D
  <2> QED BY <1>2, <2>1, <2>2, <2>3 DEF Calls
<1>7. Custody!Underway(c)
  BY <1>3 DEF Custody!Underway
<1> HIDE DEF H, D
<1>8. out \in Custody!Outcomes
  BY DEF Outcomes, Custody!Outcomes
<1>9. Custody!Answer(c)
  BY <1>1, <1>5, <1>6, <1>7, <1>8 DEF Custody!Answer, H, D
<1> QED BY <1>9 DEF Custody!Next

\* What happens beyond the view of the promise.
LEMMA Unseen ==
    ASSUME ArtInv, ArtInv', part' = part, ready' = ready, residue' = residue,
           \A d \in Callers : DeedOf(d)' = DeedOf(d)
    PROVE  UNCHANGED Custody!vars
<1>1. \A k \in Jobs : HeldOf(k)' = HeldOf(k)
  BY HeldIs, HeldWillBe
<1> QED BY <1>1 DEF Custody!vars

LEMMA OverHonest ==
    ASSUME ArtInv, TellInv, ArtInv', NEW c \in Callers, Over(c)
    PROVE  Honest
<1> DEFINE H == [k \in Jobs |-> HeldOf(k)]
           D == [d \in Callers |-> DeedOf(d)]
<1>1. call[c] # None /\ call[c].pc = "returned" /\ call' = [call EXCEPT ![c] = None]
      /\ part' = part /\ ready' = ready /\ residue' = residue /\ op' = op
  BY DEF Over, At, disk
<1>2. call'[c] = None /\ \A d \in Callers \ {c} : call'[d] = call[d]
  BY <1>1 DEF ArtInv, Types
<1>3. TellInv'
  <2> SUFFICES ASSUME NEW d \in Callers, call'[d] # None PROVE Tells(call[d], op[call[d].slot])'
    BY DEF TellInv
  <2>1. call'[d] = call[d] /\ Tells(call[d], op[call[d].slot])
    BY <1>2 DEF TellInv
  <2>2. PICK v, o : v = call[d] /\ o = op[call[d].slot]
    OBVIOUS
  <2>3. Tells(v, o)'
    BY <1>1, <2>1, <2>2 DEF Tells
  <2> QED BY <1>1, <2>1, <2>2, <2>3
<1>4. H' = H
  <2>1. \A k \in Jobs : HeldOf(k)' = HeldOf(k)
    BY <1>1, HeldIs, HeldWillBe
  <2> QED BY <2>1
<1>5. D' = [D EXCEPT ![c] = None]
  <2>1. \A d \in Callers \ {c} : DeedOf(d)' = DeedOf(d)
    BY <1>1, <1>2 DEF DeedOf, Answer
  <2>2. DeedOf(c)' = None
    BY <1>2 DEF DeedOf
  <2> QED BY <2>1, <2>2
<1>6. D[c] # None /\ D[c].out # None
  <2>1. call[c] \in Calls
    BY <1>1 DEF ArtInv, Types
  <2>2. D[c] # None /\ D[c].out = call[c].out
    BY <1>1, <2>1, DeedIs
  <2> QED BY <2>1, <2>2 DEF Calls
<1> HIDE DEF H, D
<1>7. Custody!Leave(c)
  BY <1>1, <1>4, <1>5, <1>6 DEF Custody!Leave, Custody!Underway, H, D
<1> QED BY <1>3, <1>7 DEF Honest, Custody!Next

LEMMA CrashHonest ==
    ASSUME ArtInv, ArtInv', Crash
    PROVE  Honest
<1> DEFINE H == [k \in Jobs |-> HeldOf(k)]
           D == [d \in Callers |-> DeedOf(d)]
<1>1. /\ part' = part /\ ready' = ready
      /\ residue' = {j \in residue \cup {i \in Jobs : part[i] # None} : part[j] # None}
      /\ call' = [c \in Callers |-> None]
  BY DEF Crash, Disk
<1>2. TellInv'
  BY <1>1 DEF TellInv
<1>3. H' = H
  <2>1. \A k \in Jobs : HeldOf(k)' = HeldOf(k)
    BY <1>1, HeldIs, HeldWillBe
  <2> QED BY <2>1
<1>4. D' = [c \in Callers |-> None]
  BY <1>1 DEF DeedOf
<1>5. residue' = {j \in Jobs : H[j] = "part"}
  <2>1. \A j \in Jobs : H[j] = "part" <=> part[j] # None
    BY HeldIs
  <2> QED BY <1>1, <2>1 DEF ArtInv, Types
<1> HIDE DEF H, D
<1>6. Custody!Crash
  BY <1>3, <1>4, <1>5 DEF Custody!Crash, H, D
<1> QED BY <1>2, <1>6 DEF Honest, Custody!Next

----------------------------------------------------------------------------
(* The promise: what the calls do.                                         *)

LEMMA SameDeed ==
    ASSUME NEW u \in Deeds, NEW v \in Deeds, u.kind = v.kind, u.job = v.job,
           u.alone = v.alone, u.keep = v.keep, u.out = v.out
    PROVE  u = v
  BY DEF Deeds

\* A new call asks for what it says.
LEMMA Asked ==
    ASSUME ArtInv, TellInv, ArtInv',
           NEW c \in Callers, NEW kind \in {"download", "remove", "reconcile"},
           NEW j \in Jobs \cup {None}, kind = "reconcile" <=> j = None,
           NEW act \in Acts, act = IF kind = "download" THEN "prepare" ELSE kind,
           NEW keep \in SUBSET Jobs, Begin(c, kind, j, act, keep),
           kind = "download" => \A d \in Others(c, j) : call[d].kind # "download",
           kind = "reconcile" => \A d \in Callers : call[d] = None,
           kind # "reconcile" => loaded /\ keep = {}
    PROVE  TellInv' /\ Custody!Ask(c, kind, j, keep)
<1> DEFINE H == [k \in Jobs |-> HeldOf(k)]
           D == [d \in Callers |-> DeedOf(d)]
<1>1. call[c] = None /\ part' = part /\ ready' = ready /\ residue' = residue
  BY DEF Begin, disk
<1>2. \E x \in Slots : op[x] = None
  BY <1>1, FreeSlot DEF ArtInv
<1> DEFINE free == CHOOSE x \in Slots : op[x] = None
<1>3. PICK s \in Slots : s = free /\ op[s] = None
  BY <1>2
<1>4. PICK w : w = NewCall(c, kind, j)
  OBVIOUS
<1>5. /\ w \in Calls /\ w.kind = kind /\ w.job = j /\ w.alone = (Others(c, j) = {})
  <2>1. "short" \in Contents /\ "ok" \in Outcomes /\ (Others(c, j) = {}) \in BOOLEAN
    BY DEF Contents, Outcomes
  <2> QED BY <1>4, <2>1 DEF NewCall, Calls
<1>6. PICK o : o = Work(act, w, "short", keep)
  OBVIOUS
<1>7. /\ o \in Workers /\ o # None /\ o.act = act /\ o.keep = keep
      /\ o.state = "queued" /\ o.step = FirstStep(act) /\ o.result = "ok" /\ o.fd = None
  <2>1. "short" \in Contents /\ w.fd = None
    BY <1>4 DEF Contents, NewCall
  <2> QED BY <1>5, <1>6, <2>1, WorkIs
<1>8. PICK v : v = [w EXCEPT !.pc = act, !.slot = s]
  OBVIOUS
<1>9. /\ v \in Calls /\ v # None /\ v.kind = kind /\ v.job = j
      /\ v.alone = (Others(c, j) = {}) /\ v.pc = act /\ v.slot = s
  <2>1. PICK e \in Calls : e = w
    BY <1>5
  <2>2. v = [e EXCEPT !.pc = act, !.slot = s]
    BY <1>8, <2>1
  <2>3. v \in Calls
    BY <2>2 DEF Calls
  <2>4. /\ v.kind = e.kind /\ v.job = e.job /\ v.alone = e.alone
        /\ v.pc = act /\ v.slot = s
    BY <2>2 DEF Calls
  <2> QED BY <1>5, <2>1, <2>3, <2>4
<1>10. op' = [op EXCEPT ![s] = o] /\ call'[c] = v
       /\ \A d \in Callers \ {c} : call'[d] = IF d \in Others(c, j)
                                              THEN [call[d] EXCEPT !.alone = FALSE] ELSE call[d]
  BY <1>3, <1>4, <1>6, <1>8 DEF Begin
<1> HIDE DEF H, D, free
<1>11. op'[s] = o /\ \A x \in Slots : op[x] # None => op'[x] = op[x]
  BY <1>3, <1>10 DEF ArtInv, Types
<1>12. ASSUME NEW d \in Callers \ {c}, call[d] # None
       PROVE  /\ call[d] \in Calls /\ call[d].pc # "reconcile" /\ kind # "reconcile" /\ j \in Jobs
              /\ call[d].slot # None => op'[call[d].slot] = op[call[d].slot]
  <2>1. kind # "reconcile" /\ loaded /\ j \in Jobs
    BY <1>12
  <2>2. call[d] \in Calls /\ (call[d].slot # None => call[d].slot \in Slots /\ op[call[d].slot] # None)
    BY <1>12, TheCall DEF ArtInv
  <2>3. call[d].pc # "reconcile"
    BY <1>12, <2>1 DEF ArtInv, LoadInv, At
  <2> QED BY <1>11, <2>1, <2>2, <2>3
<1>13. ASSUME NEW d \in Callers \ {c}, call[d] # None
       PROVE  /\ call'[d] \in Calls /\ call'[d].kind = call[d].kind /\ call'[d].job = call[d].job
              /\ call'[d].pc = call[d].pc /\ call'[d].out = call[d].out
              /\ call'[d].slot = call[d].slot
              /\ d \in Others(c, j) => call'[d].alone = FALSE
              /\ d \notin Others(c, j) => call'[d] = call[d]
  <2>1. CASE d \in Others(c, j)
    <3>1. PICK e \in Calls : e = call[d]
      BY <1>12, <1>13
    <3>2. PICK u : u = [e EXCEPT !.alone = FALSE]
      OBVIOUS
    <3>3. /\ u \in Calls /\ u.kind = e.kind /\ u.job = e.job
          /\ u.pc = e.pc /\ u.out = e.out /\ u.slot = e.slot /\ u.alone = FALSE
      BY <3>2 DEF Calls
    <3>4. call'[d] = u
      BY <1>10, <1>13, <2>1, <3>1, <3>2
    <3> QED BY <2>1, <3>1, <3>3, <3>4
  <2>2. CASE d \notin Others(c, j)
    BY <1>10, <1>12, <1>13, <2>2
  <2> QED BY <2>1, <2>2
<1>14. TellInv'
  <2> SUFFICES ASSUME NEW d \in Callers, call'[d] # None PROVE Tells(call[d], op[call[d].slot])'
    BY DEF TellInv
  <2>1. CASE d = c
    <3>1. v.pc \in {"prepare", "remove", "reconcile"}
      BY <1>9
    <3>2. op'[v.slot] = o
      BY <1>9, <1>11
    <3>3. v.pc = "remove" => o.step = "partstat"
      BY <1>7, <1>9 DEF FirstStep
    <3> QED BY <1>7, <1>9, <1>10, <2>1, <3>1, <3>2, <3>3 DEF Tells
  <2>2. CASE d # c
    <3>1. call[d] # None
      BY <1>10, <2>2 DEF Others
    <3>2. Tells(call[d], op[call[d].slot])
      BY <3>1 DEF TellInv
    <3>3. call[d].slot # None <=> call[d].pc \in Acts
      BY <3>1, TheCall DEF ArtInv, Proper
    <3>4. PICK u : u = call'[d]
      OBVIOUS
    <3>5. /\ u.job = call[d].job /\ u.pc = call[d].pc /\ u.out = call[d].out
          /\ u.slot = call[d].slot /\ (u.alone => call[d].alone)
          /\ u.pc # "reconcile"
          /\ u.slot # None => op'[u.slot] = op[u.slot]
      <4>1. /\ call[d].pc # "reconcile"
            /\ call[d].slot # None => op'[call[d].slot] = op[call[d].slot]
        BY <1>12, <2>2, <3>1
      <4>2. /\ u.job = call[d].job /\ u.pc = call[d].pc /\ u.out = call[d].out
            /\ u.slot = call[d].slot /\ (u.alone = FALSE \/ u = call[d])
        BY <1>13, <2>2, <3>1, <3>4
      <4> QED BY <4>1, <4>2
    <3>6. CASE u.pc \in Acts
      BY <1>1, <3>2, <3>3, <3>4, <3>5, <3>6 DEF Tells
    <3>7. CASE u.pc \notin Acts
      BY <1>1, <3>2, <3>3, <3>4, <3>5, <3>7 DEF Tells, Acts
    <3> QED BY <3>6, <3>7
  <2> QED BY <2>1, <2>2
<1>15. H' = H
  <2>1. \A k \in Jobs : HeldOf(k)' = HeldOf(k)
    BY <1>1, HeldIs, HeldWillBe
  <2> QED BY <2>1 DEF H
<1>16. \A d \in Callers : D[d] # None <=> call[d] # None
  <2> SUFFICES ASSUME NEW d \in Callers, call[d] # None PROVE DeedOf(d) # None
    BY DEF D, DeedOf
  <2>1. d # c
    BY <1>1
  <2> QED BY <1>12, <2>1, DeedIs
<1>17. \A d \in Callers : Custody!For(d, j) <=> d \in Others(c, j)
  <2> SUFFICES ASSUME NEW d \in Callers PROVE Custody!For(d, j) <=> d \in Others(c, j)
    OBVIOUS
  <2>1. Custody!For(d, j) <=> D[d] # None /\ D[d].job = j
    BY DEF Custody!For, D
  <2>2. CASE call[d] = None
    BY <1>16, <2>1, <2>2 DEF Others
  <2>3. CASE call[d] # None
    <3>1. d # c
      BY <1>1, <2>3
    <3>2. D[d].job = call[d].job
      BY <1>12, <2>3, <3>1, DeedIs DEF D
    <3> QED BY <1>16, <2>1, <2>3, <3>1, <3>2 DEF Others
  <2> QED BY <2>2, <2>3
<1>18. D'[c] = [kind |-> kind, job |-> j, keep |-> keep,
                alone |-> \A e \in Callers : ~Custody!For(e, j), out |-> None]
  <2>1. D'[c] = [kind |-> v.kind, job |-> v.job, alone |-> v.alone,
                 keep |-> IF v.pc = "reconcile" THEN op'[v.slot].keep ELSE {},
                 out |-> IF v.pc = "returned" THEN v.out ELSE None]
    <3>1. D'[c] = DeedOf(c)' /\ call'[c] = v /\ v # None
      BY <1>9, <1>10 DEF D
    <3> QED BY <3>1 DEF DeedOf, Answer
  <2>2. (Others(c, j) = {}) = \A e \in Callers : ~Custody!For(e, j)
    BY <1>17 DEF Others
  <2>3. v.pc # "returned" /\ (IF v.pc = "reconcile" THEN op'[v.slot].keep ELSE {}) = keep
    BY <1>7, <1>9, <1>11 DEF Acts
  <2> QED BY <1>9, <2>1, <2>2, <2>3
<1>19. ASSUME NEW d \in Callers \ {c}
       PROVE  D'[d] = IF Custody!For(d, j) THEN [D[d] EXCEPT !.alone = FALSE] ELSE D[d]
  <2>1. CASE call[d] = None
    BY <1>10, <1>16, <1>17, <2>1 DEF D, DeedOf, Others
  <2>2. CASE call[d] # None /\ d \notin Others(c, j)
    BY <1>12, <1>13, <1>17, <2>2 DEF D, DeedOf
  <2>3. CASE call[d] # None /\ d \in Others(c, j)
    <3>1. PICK e \in Deeds : e = D[d]
      BY <1>12, <2>3, DeedIs DEF D
    <3>2. /\ e.kind = call[d].kind /\ e.job = call[d].job /\ e.keep = {}
          /\ e.out = IF call[d].pc = "returned" THEN call[d].out ELSE None
      BY <1>12, <2>3, <3>1, DeedIs DEF D
    <3>3. PICK f : f = [e EXCEPT !.alone = FALSE]
      OBVIOUS
    <3>4. /\ f \in Deeds /\ f.kind = e.kind /\ f.job = e.job /\ f.keep = e.keep
          /\ f.out = e.out /\ f.alone = FALSE
      BY <3>3 DEF Deeds
    <3>5. PICK u : u = D'[d]
      OBVIOUS
    <3>6. /\ u \in Deeds /\ u.kind = e.kind /\ u.job = e.job /\ u.keep = e.keep
          /\ u.out = e.out /\ u.alone = FALSE
      <4>1. PICK w1 : w1 = call'[d]
        OBVIOUS
      <4>2. /\ w1 \in Calls /\ w1.kind = call[d].kind /\ w1.job = call[d].job
            /\ w1.pc = call[d].pc /\ w1.out = call[d].out /\ w1.alone = FALSE
            /\ w1.pc # "reconcile" /\ w1 # None
        BY <1>12, <1>13, <2>3, <4>1
      <4>3. u = [kind |-> w1.kind, job |-> w1.job, alone |-> w1.alone, keep |-> {},
                 out |-> IF w1.pc = "returned" THEN w1.out ELSE None]
        BY <3>5, <4>1, <4>2 DEF D, DeedOf
      <4> QED BY <3>2, <4>2, <4>3 DEF Deeds, Calls
    <3>7. u = f
      BY <3>4, <3>6, SameDeed
    <3> QED BY <1>17, <2>3, <3>1, <3>3, <3>5, <3>7
  <2> QED BY <2>1, <2>2, <2>3
<1>20. D[c] = None
  BY <1>1 DEF D, DeedOf
<1>21. kind = "download" => \A d \in Callers : Custody!For(d, j) => D[d].kind # "download"
  <2> SUFFICES ASSUME kind = "download", NEW d \in Callers, Custody!For(d, j)
               PROVE  D[d].kind # "download"
    OBVIOUS
  <2>1. d \in Others(c, j)
    BY <1>17
  <2>2. d # c /\ call[d] # None
    BY <2>1 DEF Others
  <2> QED BY <1>12, <2>1, <2>2, DeedIs DEF D
<1>22. kind = "reconcile" => \A d \in Callers : D[d] = None
  BY DEF D, DeedOf
<1>23. D' = [d \in Callers |->
          CASE d = c -> [kind |-> kind, job |-> j, keep |-> keep,
                         alone |-> \A e \in Callers : ~Custody!For(e, j), out |-> None]
            [] d # c /\ Custody!For(d, j) -> [D[d] EXCEPT !.alone = FALSE]
            [] OTHER -> D[d]]
  <2>1. D' = [d \in Callers |-> D'[d]]
    BY DEF D
  <2> QED BY <1>18, <1>19, <2>1
<1>24. Custody!Ask(c, kind, j, keep)
  BY <1>1, <1>15, <1>20, <1>21, <1>22, <1>23 DEF Custody!Ask, H, D
<1> QED BY <1>14, <1>24

\* The other calls see nothing of what c does.
OthersSee(c) ==
    \A d \in Callers \ {c} :
        /\ call'[d] = call[d]
        /\ call[d] # None /\ call[d].slot # None => op'[call[d].slot] = op[call[d].slot]

LEMMA OthersTell ==
    ASSUME ArtInv, TellInv, NEW c \in Callers, OthersSee(c), part' = part, ready' = ready
    PROVE  \A d \in Callers \ {c} :
              /\ DeedOf(d)' = DeedOf(d)
              /\ call'[d] # None => Tells(call[d], op[call[d].slot])'
<1> SUFFICES ASSUME NEW d \in Callers \ {c}
             PROVE  /\ DeedOf(d)' = DeedOf(d)
                    /\ call'[d] # None => Tells(call[d], op[call[d].slot])'
  OBVIOUS
<1>1. CASE call[d] = None
  BY <1>1 DEF OthersSee, DeedOf
<1>2. CASE call[d] # None
  <2>1. call[d].slot # None <=> call[d].pc \in Acts
    BY <1>2, TheCall DEF ArtInv, Proper
  <2>2. Tells(call[d], op[call[d].slot])
    BY <1>2 DEF TellInv
  <2>3. call'[d] = call[d]
    BY DEF OthersSee
  <2>4. CASE call[d].pc \in Acts
    <3>1. op'[call[d].slot] = op[call[d].slot]
      BY <1>2, <2>1, <2>4 DEF OthersSee
    <3>2. DeedOf(d)' = DeedOf(d)
      BY <2>3, <3>1 DEF DeedOf, Answer
    <3>3. Tells(call[d], op[call[d].slot])'
      BY <2>2, <2>3, <3>1 DEF Tells
    <3> QED BY <3>2, <3>3
  <2>5. CASE call[d].pc \notin Acts
    <3>1. call[d].pc # "reconcile"
      BY <2>5 DEF Acts
    <3>2. DeedOf(d)' = DeedOf(d)
      BY <2>3, <3>1 DEF DeedOf
    <3>3. Tells(call[d], op[call[d].slot])'
      BY <2>2, <2>3, <2>5 DEF Tells, Acts
    <3> QED BY <3>2, <3>3
  <2> QED BY <2>4, <2>5
<1> QED BY <1>1, <1>2

\* A call goes on, and is to its caller what it was.
LEMMA Quiet ==
    ASSUME ArtInv, TellInv, ArtInv', NEW c \in Callers, call[c] # None, OthersSee(c),
           UNCHANGED disk, NEW w \in Calls, call'[c] = w, w.kind = call[c].kind,
           w.job = call[c].job, w.alone = call[c].alone,
           call[c].pc # "returned", w.pc # "returned",
           w.pc = "reconcile" <=> call[c].pc = "reconcile",
           w.pc = "reconcile" => op'[w.slot].keep = op[call[c].slot].keep,
           Tells(w, op[w.slot])'
    PROVE  Honest
<1>1. part' = part /\ ready' = ready /\ residue' = residue
  BY DEF disk
<1>2. w # None
  OBVIOUS
<1>3. DeedOf(c)' = DeedOf(c)
  <2>1. DeedOf(c)' = [kind |-> w.kind, job |-> w.job, alone |-> w.alone,
                      keep |-> IF w.pc = "reconcile" THEN op'[w.slot].keep ELSE {},
                      out |-> None]
    BY <1>2 DEF DeedOf, Answer
  <2>2. DeedOf(c) = [kind |-> call[c].kind, job |-> call[c].job, alone |-> call[c].alone,
                     keep |-> IF call[c].pc = "reconcile" THEN op[call[c].slot].keep ELSE {},
                     out |-> None]
    BY DEF DeedOf, Answer
  <2> QED BY <2>1, <2>2
<1>4. \A d \in Callers : DeedOf(d)' = DeedOf(d)
  BY <1>1, <1>3, OthersTell
<1>5. TellInv'
  BY <1>1, OthersTell DEF TellInv
<1>6. UNCHANGED Custody!vars
  BY <1>1, <1>4, Unseen
<1> QED BY <1>5, <1>6 DEF Honest

\* A call returns with the truth.
LEMMA Speaks ==
    ASSUME ArtInv, TellInv, ArtInv', NEW c \in Callers, call[c] # None, call[c].slot # None,
           Answer(c).state \in {"finished", "aborted"}, NEW out \in Outcomes,
           Return(Pool(c), c, out), UNCHANGED disk, Tidings(call[c], out),
           call[c].kind = "reconcile" =>
              /\ call[c].pc = "reconcile" /\ (out = "failed" => DiskFaults)
              /\ out = "ok" => \A j \in Jobs \ Answer(c).keep : part[j] = None /\ ready[j] = None
    PROVE  Honest
<1>1. call[c] \in Calls /\ Proper(call[c])
  BY TheCall DEF ArtInv
<1>2. PICK e \in Calls : e = call[c]
  BY <1>1
<1>3. PICK w : w = [e EXCEPT !.pc = "returned", !.slot = None, !.fd = None, !.out = out,
                             !.cut = None]
  OBVIOUS
<1>4. /\ w \in Calls /\ w.kind = e.kind /\ w.job = e.job /\ w.alone = e.alone
      /\ w.pc = "returned" /\ w.out = out
  BY <1>3 DEF Calls
<1>5. op' = Pool(c) /\ call' = [call EXCEPT ![c] = w]
  BY <1>2, <1>3 DEF Return, ArtInv, Types
<1>6. call'[c] = w /\ \A d \in Callers \ {c} : call'[d] = call[d]
  BY <1>5 DEF ArtInv, Types
<1>7. OthersSee(c)
  <2> SUFFICES ASSUME NEW d \in Callers \ {c}, call[d] # None, call[d].slot # None
               PROVE  op'[call[d].slot] = op[call[d].slot]
    BY <1>6 DEF OthersSee
  <2>1. call[d].slot \in Slots /\ call[d].slot # call[c].slot
    BY TheCall DEF ArtInv, ApartInv
  <2> QED BY <1>5, <2>1, PoolIs
<1>8. part' = part /\ ready' = ready
  BY DEF disk
<1>9. TellInv'
  <2>1. Tells(call[c], op[call[c].slot])'
    BY <1>4, <1>6 DEF Tells
  <2> QED BY <1>7, <1>8, <2>1, OthersTell DEF TellInv
<1>10. call[c].pc # "returned"
  BY <1>1 DEF Proper, Acts
<1>11. Custody!Next
  BY <1>2, <1>4, <1>6, <1>7, <1>8, <1>10, OthersTell, Told
<1> QED BY <1>9, <1>11 DEF Honest

\* A call submits its next worker.
LEMMA SubmitIs ==
    ASSUME ArtInv, NEW c \in Callers, call[c] # None,
           NEW ops,
           \/ ops = op /\ call[c].slot = None
           \/ ops = Pool(c) /\ call[c].slot # None /\ Answer(c).state \in {"finished", "aborted"},
           NEW w \in Calls, NEW act \in Acts, NEW bytes \in Contents,
           Submit(ops, c, w, act, bytes, {})
    PROVE  /\ OthersSee(c)
           /\ \E v \in Calls, o \in Workers :
                 /\ call'[c] = v /\ v.kind = w.kind /\ v.job = w.job /\ v.alone = w.alone
                 /\ v.out = w.out /\ v.pc = act /\ op'[v.slot] = o
                 /\ o.state = "queued" /\ o.result = "ok" /\ o.step = FirstStep(act)
<1>1. /\ ops \in [Slots -> Workers \cup {None}]
      /\ \A d \in Callers \ {c} : call[d] # None /\ call[d].slot # None =>
            ops[call[d].slot] = op[call[d].slot] /\ ops[call[d].slot] # None
            /\ call[d].slot \in Slots
      /\ \E x \in Slots : ops[x] = None
  <2>1. ASSUME NEW d \in Callers \ {c}, call[d] # None, call[d].slot # None
        PROVE  call[d].slot \in Slots /\ op[call[d].slot] # None /\ call[d].slot # call[c].slot
    BY <2>1, TheCall DEF ArtInv, ApartInv
  <2>2. CASE ops = op /\ call[c].slot = None
    <3>1. \E x \in Slots : op[x] = None
      BY <2>2, FreeSlot DEF ArtInv
    <3> QED BY <2>1, <2>2, <3>1 DEF ArtInv, Types
  <2>3. CASE ops = Pool(c) /\ call[c].slot # None /\ Answer(c).state \in {"finished", "aborted"}
    <3>1. \E x \in Slots : ops[x] = None
      <4>1. CASE Answer(c).state = "finished"
        BY <2>3, <4>1, PoolIs
      <4>2. CASE Answer(c).state = "aborted"
        <5>1. \E x \in Slots : op[x] = None
          BY <4>2, FreeSlot DEF ArtInv, Answer
        <5> QED BY <2>3, <4>2, <5>1 DEF Pool
      <4> QED BY <2>3, <4>1, <4>2
    <3> QED BY <2>1, <2>3, <3>1, PoolIs
  <2> QED BY <2>2, <2>3
<1> DEFINE free == CHOOSE x \in Slots : ops[x] = None
<1>2. PICK s \in Slots : s = free /\ ops[s] = None
  BY <1>1
<1>3. PICK o : o = Work(act, w, bytes, {})
  OBVIOUS
<1>4. /\ o \in Workers /\ o.state = "queued" /\ o.result = "ok" /\ o.step = FirstStep(act)
  BY <1>3, WorkIs
<1>5. PICK v : v = [w EXCEPT !.pc = act, !.slot = s]
  OBVIOUS
<1>6. /\ v \in Calls /\ v.kind = w.kind /\ v.job = w.job /\ v.alone = w.alone
      /\ v.out = w.out /\ v.pc = act /\ v.slot = s
  BY <1>5 DEF Calls
<1>7. op' = [ops EXCEPT ![s] = o] /\ call' = [call EXCEPT ![c] = v]
  BY <1>2, <1>3, <1>5 DEF Submit
<1> HIDE DEF free
<1>8. op'[s] = o /\ call'[c] = v /\ \A d \in Callers \ {c} : call'[d] = call[d]
  BY <1>1, <1>7 DEF ArtInv, Types
<1>9. OthersSee(c)
  BY <1>1, <1>2, <1>7, <1>8 DEF OthersSee
<1> QED BY <1>4, <1>6, <1>8, <1>9

\* A download submits its next worker, and none of this is seen.
LEMMA Hands ==
    ASSUME ArtInv, TellInv, ArtInv', NEW c \in Callers, call[c] # None,
           call[c].kind = "download", call[c].pc # "returned", UNCHANGED disk,
           NEW ops,
           \/ ops = op /\ call[c].slot = None
           \/ ops = Pool(c) /\ call[c].slot # None /\ Answer(c).state \in {"finished", "aborted"},
           NEW w \in Calls, w.kind = call[c].kind, w.job = call[c].job, w.alone = call[c].alone,
           NEW act \in {"write", "finish", "promote", "abandon", "drop"}, NEW bytes \in Contents,
           Submit(ops, c, w, act, bytes, {}),
           act \in {"write", "finish", "promote"} => (w.alone => ready[w.job] = None),
           act = "abandon" => /\ w.out \in {"failed", "cancelled"}
                              /\ w.alone /\ w.out = "failed" => DiskFaults \/ ready[w.job] = None
    PROVE  Honest
<1>1. act \in Acts
  BY DEF Acts
<1>2. OthersSee(c)
  BY <1>1, SubmitIs
<1>3. PICK v \in Calls, o \in Workers :
                 /\ call'[c] = v /\ v.kind = w.kind /\ v.job = w.job /\ v.alone = w.alone
                 /\ v.out = w.out /\ v.pc = act /\ op'[v.slot] = o
                 /\ o.state = "queued" /\ o.result = "ok" /\ o.step = FirstStep(act)
  BY <1>1, SubmitIs
<1>4. part' = part /\ ready' = ready
  BY DEF disk
<1>5. act = "promote" => o.step = "check"
  BY <1>3 DEF FirstStep
<1>6. Tells(v, op[v.slot])'
  BY <1>3, <1>4, <1>5 DEF Tells
<1>7. call[c].pc # "reconcile"
  BY TheCall DEF ArtInv, Proper, Legs
<1>8. v.pc \notin {"returned", "reconcile"}
  BY <1>3
<1> QED BY <1>2, <1>3, <1>6, <1>7, <1>8, Quiet

\* What a call that has its answer tells.
LEMMA Hears ==
    ASSUME ArtInv, TellInv, NEW c \in Callers, NEW act \in Acts, Awaited(c, act)
    PROVE  /\ Tells(call[c], Answer(c)) /\ call[c] \in Calls /\ call[c] # None
           /\ call[c].pc = act /\ call[c].pc # "returned" /\ call[c].slot # None
           /\ Answer(c) \in Workers /\ Sound(Answer(c)) /\ Answer(c).act = act
           /\ Staged(call[c], Answer(c))
           /\ Answer(c).state \in {"finished", "aborted"}
           /\ call[c].cut \in {None, "timeout", "cancel"}
           /\ call[c].cut = "timeout" => act = "write"
           /\ act = "reconcile" => call[c].kind = "reconcile"
           /\ act = "remove" => call[c].kind = "remove"
           /\ act \notin {"reconcile", "remove"} => call[c].kind = "download" /\ call[c].job \in Jobs
<1>1. /\ call[c] # None /\ call[c].pc = act /\ call[c].slot # None /\ call[c] \in Calls
      /\ Proper(call[c]) /\ Answer(c) \in Workers /\ Sound(Answer(c)) /\ Answer(c).act = act
      /\ Staged(call[c], Answer(c))
      /\ Answer(c).state \in {"finished", "aborted"}
      /\ call[c].cut \in {None, "timeout", "cancel"}
      /\ call[c].cut = "timeout" => act = "write"
  BY Answered
<1>2. Tells(call[c], Answer(c))
  BY <1>1 DEF TellInv, Answer
<1>3. act # "returned" /\ act \in Legs(call[c].kind)
  BY <1>1 DEF Acts, Proper
<1>4. /\ act = "reconcile" => call[c].kind = "reconcile"
      /\ act = "remove" => call[c].kind = "remove"
      /\ act \notin {"reconcile", "remove"} => call[c].kind = "download"
  BY <1>1, <1>3 DEF Legs, Calls
<1>5. call[c].kind = "download" => call[c].job \in Jobs
  BY <1>1 DEF Proper, Calls
<1> QED BY <1>1, <1>2, <1>3, <1>4, <1>5

\* A partial that no call minds is of a crash or a failing disk.
LEMMA Unminded ==
    ASSUME ArtInv, NEW c \in Callers, call[c] # None, call[c].kind = "download",
           call[c].job \in Jobs, ~Carries(c), part[call[c].job] # None
    PROVE  call[c].job \in residue
<1> SUFFICES ASSUME call[c].job \notin residue PROVE FALSE
  OBVIOUS
<1>1. PICK d \in Callers : Carries(d) /\ call[d].job = call[c].job
  BY DEF ArtInv, PartInv
<1>2. d # c /\ call[d] # None /\ call[d] \in Calls /\ Proper(call[d])
  BY <1>1, TheCall DEF ArtInv, Carries
<1>3. call[d].kind = "download"
  <2>1. call[d].pc \in Legs("download")
    BY <1>1 DEF Carries, Minds, Legs
  <2> QED BY <1>2, <2>1 DEF Proper, Legs, Calls
<1> QED BY <1>1, <1>2, <1>3 DEF ArtInv, ApartInv

\* A call takes its answer and awaits no worker.
LEMMA Resumed ==
    ASSUME ArtInv, NEW c \in Callers, call[c] # None, call[c].slot # None,
           Answer(c).state \in {"finished", "aborted"}, op' = Pool(c),
           NEW w, call' = [call EXCEPT ![c] = w]
    PROVE  OthersSee(c) /\ call'[c] = w
<1>1. call'[c] = w /\ \A d \in Callers \ {c} : call'[d] = call[d]
  BY DEF ArtInv, Types
<1>2. ASSUME NEW d \in Callers \ {c}, call[d] # None, call[d].slot # None
      PROVE  op'[call[d].slot] = op[call[d].slot]
  <2>1. call[d].slot \in Slots /\ call[d].slot # call[c].slot
    BY <1>2, TheCall DEF ArtInv, ApartInv
  <2> QED BY <2>1, PoolIs
<1> QED BY <1>1, <1>2 DEF OthersSee

LEMMA PreparedHonest ==
    ASSUME ArtInv, TellInv, ArtInv', NEW c \in Callers, Prepared(c)
    PROVE  Honest
<1> DEFINE w == call[c]
           o == Answer(c)
<1>1. Awaited(c, "prepare") /\ UNCHANGED disk /\ "prepare" \in Acts
  BY DEF Prepared, Acts
<1>2. /\ Tells(w, o) /\ w \in Calls /\ w # None /\ w.pc = "prepare" /\ w.slot # None
      /\ o \in Workers /\ Sound(o) /\ o.act = "prepare" /\ o.state \in {"finished", "aborted"}
      /\ w.kind = "download" /\ w.job \in Jobs
  BY <1>1, Hears
<1>3. o.fd = None /\ part[w.job] # None => w.job \in residue
  <2>1. Carries(c) <=> o.fd # None
    BY <1>1, <1>2, Answered DEF Minds
  <2> QED BY <1>2, <2>1, Unminded
<1>4. CASE o.state = "aborted" /\ Return(Pool(c), c, "cancelled")
  <2>1. o.fd = None /\ "cancelled" \in Outcomes
    BY <1>2, <1>4 DEF Sound, Outcomes
  <2>2. Tidings(w, "cancelled")
    BY <1>2, <1>3, <2>1 DEF Tidings
  <2> QED BY <1>1, <1>2, <1>4, <2>1, <2>2, Speaks
<1>5. CASE Submit(Pool(c), c, [w EXCEPT !.fd = DroppedFd(c), !.cut = None], "drop", "short", {})
  <2>1. PICK e \in Calls : e = w
    BY <1>2
  <2>2. PICK v : v = [e EXCEPT !.fd = DroppedFd(c), !.cut = None]
    OBVIOUS
  <2>3. v \in Calls /\ v.kind = e.kind /\ v.job = e.job /\ v.alone = e.alone
    <3>1. DroppedFd(c) \in Files \cup {None}
      BY <1>2 DEF Workers, DroppedFd
    <3> QED BY <2>2, <3>1 DEF Calls
  <2>4. Submit(Pool(c), c, v, "drop", "short", {}) /\ "short" \in Contents
    BY <1>5, <2>1, <2>2 DEF Contents
  <2> QED BY <1>1, <1>2, <2>1, <2>3, <2>4, Hands
<1>6. CASE /\ o.state = "finished" /\ o.result = "ok" /\ op' = Pool(c)
           /\ call' = [call EXCEPT ![c] = [w EXCEPT !.pc = "http", !.slot = None, !.fd = o.fd]]
  <2>1. PICK e \in Calls : e = w
    BY <1>2
  <2>2. PICK v : v = [e EXCEPT !.pc = "http", !.slot = None, !.fd = o.fd]
    OBVIOUS
  <2>3. /\ v \in Calls /\ v.kind = e.kind /\ v.job = e.job /\ v.alone = e.alone
        /\ v.pc = "http"
    <3>1. PICK fd \in Files \cup {None} : fd = o.fd
      BY <1>2 DEF Workers
    <3>2. v = [e EXCEPT !.pc = "http", !.slot = None, !.fd = fd]
      BY <2>2, <3>1
    <3>3. v \in Calls
      BY <3>2 DEF Calls
    <3>4. v.kind = e.kind /\ v.job = e.job /\ v.alone = e.alone /\ v.pc = "http"
      BY <3>2 DEF Calls
    <3> QED BY <3>3, <3>4
  <2>4. call' = [call EXCEPT ![c] = v]
    BY <1>6, <2>1, <2>2
  <2>5. OthersSee(c) /\ call'[c] = v
    <3>1. /\ call[c] # None /\ call[c].slot # None /\ op' = Pool(c)
          /\ Answer(c).state \in {"finished", "aborted"}
      BY <1>2, <1>6
    <3> HIDE DEF w, o
    <3> QED BY <2>4, <3>1, Resumed
  <2>6. v.alone => ready[v.job] = None
    <3>1. o.fd # None
      BY <1>2, <1>6 DEF Sound
    <3>2. w.alone => ready[w.job] = None
      BY <1>2, <3>1 DEF Tells
    <3> QED BY <2>1, <2>3, <3>2
  <2>7. Tells(v, op[v.slot])'
    BY <1>1, <2>3, <2>6 DEF Tells, disk
  <2> QED BY <1>1, <1>2, <2>1, <2>3, <2>5, <2>7, Quiet
<1>7. CASE o.result # "ok" /\ o.state = "finished" /\ Return(Pool(c), c, PreparedOutcome(o.result))
  <2>1. o.fd = None
    BY <1>2, <1>7 DEF Sound
  <2>2. PICK out \in Outcomes : out = PreparedOutcome(o.result)
    <3>1. PreparedOutcome(o.result) \in Outcomes
      BY <1>2 DEF Workers, PreparedOutcome, Outcomes
    <3> QED BY <3>1
  <2>3. /\ out = "ok" => o.result = "reuse"
        /\ out = "busy" => o.result = "busy"
        /\ out = "failed" => o.result = "failed"
    BY <1>7, <2>2 DEF PreparedOutcome
  <2>4. Tidings(w, out)
    BY <1>2, <1>3, <2>1, <2>3 DEF Tidings, Tells
  <2> QED BY <1>1, <1>2, <1>7, <2>2, <2>4, Speaks
<1> QED BY <1>4, <1>5, <1>6, <1>7 DEF Prepared

\* A download that goes wrong tells nobody yet.
LEMMA GivesUp ==
    ASSUME ArtInv, TellInv, ArtInv', NEW c \in Callers, call[c] # None,
           call[c].kind = "download", call[c].pc # "returned", UNCHANGED disk,
           NEW ops,
           \/ ops = op /\ call[c].slot = None
           \/ ops = Pool(c) /\ call[c].slot # None /\ Answer(c).state \in {"finished", "aborted"},
           NEW w \in Calls, w.kind = call[c].kind, w.job = call[c].job, w.alone = call[c].alone,
           NEW out \in {"failed", "cancelled"}, Abandon(ops, c, w, out),
           w.alone /\ out = "failed" => DiskFaults \/ ready[w.job] = None
    PROVE  Honest
<1>1. PICK v : v = [w EXCEPT !.cut = None, !.out = out]
  OBVIOUS
<1>2. /\ v \in Calls /\ v.kind = w.kind /\ v.job = w.job /\ v.alone = w.alone /\ v.out = out
  BY <1>1 DEF Calls, Outcomes
<1>3. Submit(ops, c, v, "abandon", "short", {}) /\ "short" \in Contents
  BY <1>1 DEF Abandon, Contents
<1> QED BY <1>2, <1>3, Hands

LEMMA HttpTells ==
    ASSUME ArtInv, TellInv, NEW c \in Callers, At(c, "http")
    PROVE  /\ call[c] # None /\ call[c] \in Calls /\ call[c].slot = None /\ call[c].pc = "http"
           /\ call[c].kind = "download" /\ call[c].pc # "returned"
           /\ call[c].alone => ready[call[c].job] = None
<1>1. call[c] # None /\ call[c].pc = "http"
  BY DEF At
<1>2. Tells(call[c], op[call[c].slot])
  BY <1>1 DEF TellInv
<1>3. call[c].alone => ready[call[c].job] = None
  BY <1>1, <1>2 DEF Tells
<1> QED BY <1>1, <1>3, Talking

LEMMA ExchangeHonest ==
    ASSUME ArtInv, TellInv, ArtInv', NEW c \in Callers,
           Chunk(c) \/ BodyEnds(c) \/ HttpFails(c)
    PROVE  Honest
<1>1. At(c, "http") /\ UNCHANGED disk
  BY DEF Chunk, BodyEnds, HttpFails
<1>2. /\ call[c] # None /\ call[c] \in Calls /\ call[c].slot = None
      /\ call[c].kind = "download" /\ call[c].pc # "returned"
      /\ call[c].alone => ready[call[c].job] = None
  BY <1>1, HttpTells
<1>3. CASE Chunk(c)
  <2>1. PICK bytes \in Contents : Submit(op, c, call[c], "write", bytes, {})
    BY <1>3 DEF Chunk
  <2> QED BY <1>1, <1>2, <2>1, Hands
<1>4. CASE BodyEnds(c)
  <2>1. Submit(op, c, call[c], "finish", "short", {}) /\ "short" \in Contents
    BY <1>4 DEF BodyEnds, Contents
  <2> QED BY <1>1, <1>2, <2>1, Hands
<1>5. CASE HttpFails(c)
  <2>1. Abandon(op, c, call[c], "failed")
    BY <1>5 DEF HttpFails
  <2> QED BY <1>1, <1>2, <2>1, GivesUp
<1> QED BY <1>3, <1>4, <1>5

\* What an answer amounts to.
LEMMA VerdictIs ==
    ASSUME NEW c \in Callers, call[c].cut \in {None, "timeout", "cancel"},
           Answer(c).state \in {"finished", "aborted"}, Answer(c).result \in {"ok", "failed"}
    PROVE  /\ Verdict(c) \in {"ok", "failed", "cancelled"}
           /\ Verdict(c) = "ok" => Answer(c).state = "finished" /\ Answer(c).result = "ok"
           /\ Verdict(c) = "failed" => \/ call[c].cut = "timeout"
                                       \/ Answer(c).state = "finished" /\ Answer(c).result = "failed"
  BY DEF Verdict

LEMMA WrittenHonest ==
    ASSUME ArtInv, TellInv, ArtInv', NEW c \in Callers, Written(c)
    PROVE  Honest
<1> DEFINE w == call[c]
           o == Answer(c)
<1>1. Awaited(c, "write") /\ UNCHANGED disk /\ "write" \in Acts
  BY DEF Written, Acts
<1>2. /\ Tells(w, o) /\ w \in Calls /\ w # None /\ w.pc = "write" /\ w.slot # None
      /\ o \in Workers /\ Sound(o) /\ o.act = "write" /\ o.state \in {"finished", "aborted"}
      /\ w.kind = "download" /\ w.cut \in {None, "timeout", "cancel"}
  BY <1>1, Hears
<1>3. (w.alone => ready[w.job] = None) /\ o.result \in {"ok", "failed"}
  BY <1>2 DEF Tells, Sound
<1>4. CASE Verdict(c) = "ok"
  <2>1. PICK e \in Calls : e = w
    BY <1>2
  <2>2. PICK v : v = [e EXCEPT !.pc = "http", !.slot = None, !.got = o.bytes]
    OBVIOUS
  <2>3. /\ v \in Calls /\ v.kind = e.kind /\ v.job = e.job /\ v.alone = e.alone /\ v.pc = "http"
    <3>1. o.bytes \in Contents
      BY <1>2 DEF Workers
    <3> QED BY <2>2, <3>1 DEF Calls
  <2>4. op' = Pool(c) /\ call' = [call EXCEPT ![c] = v]
    BY <1>4, <2>1, <2>2 DEF Written
  <2>5. OthersSee(c) /\ call'[c] = v
    BY <1>2, <2>4, Resumed
  <2>6. Tells(v, op[v.slot])'
    BY <1>1, <1>3, <2>1, <2>3 DEF Tells, disk
  <2> QED BY <1>1, <1>2, <2>1, <2>3, <2>5, <2>6, Quiet
<1>5. CASE Verdict(c) # "ok"
  <2>1. PICK out \in {"failed", "cancelled"} : out = Verdict(c)
    BY <1>2, <1>3, <1>5, VerdictIs
  <2>2. Abandon(Pool(c), c, w, out)
    BY <1>5, <2>1 DEF Written
  <2> QED BY <1>1, <1>2, <1>3, <2>2, GivesUp
<1> QED BY <1>4, <1>5

LEMMA FinishedHonest ==
    ASSUME ArtInv, TellInv, ArtInv', NEW c \in Callers, Finished(c)
    PROVE  Honest
<1> DEFINE o == Answer(c)
<1>1. Awaited(c, "finish") /\ UNCHANGED disk /\ "finish" \in Acts
  BY DEF Finished, Acts
<1>2. /\ Tells(call[c], o) /\ call[c] \in Calls /\ call[c] # None /\ call[c].pc = "finish"
      /\ call[c].slot # None /\ o \in Workers /\ Sound(o) /\ o.act = "finish"
      /\ o.state \in {"finished", "aborted"}
      /\ call[c].kind = "download" /\ call[c].cut \in {None, "timeout", "cancel"}
  BY <1>1, Hears
<1>3. (call[c].alone => ready[call[c].job] = None) /\ o.result \in {"ok", "failed"}
  BY <1>2 DEF Tells, Sound
<1>4. PICK e \in Calls : e = call[c]
  BY <1>2
<1>5. PICK w : w = [e EXCEPT !.fd = None]
  OBVIOUS
<1>6. w \in Calls /\ w.kind = e.kind /\ w.job = e.job /\ w.alone = e.alone
  BY <1>5 DEF Calls
<1>7. IF Verdict(c) = "ok" THEN Submit(Pool(c), c, w, "promote", "short", {})
      ELSE Abandon(Pool(c), c, w, Verdict(c))
  BY <1>4, <1>5 DEF Finished
<1>8. CASE Verdict(c) = "ok"
  <2>1. Submit(Pool(c), c, w, "promote", "short", {}) /\ "short" \in Contents
    BY <1>7, <1>8 DEF Contents
  <2> QED BY <1>1, <1>2, <1>3, <1>4, <1>6, <2>1, Hands
<1>9. CASE Verdict(c) # "ok"
  <2>1. PICK out \in {"failed", "cancelled"} : out = Verdict(c)
    BY <1>2, <1>3, <1>9, VerdictIs
  <2>2. Abandon(Pool(c), c, w, out)
    BY <1>7, <1>9, <2>1
  <2> QED BY <1>1, <1>2, <1>3, <1>4, <1>6, <2>2, GivesUp
<1> QED BY <1>8, <1>9

LEMMA PromotedHonest ==
    ASSUME ArtInv, TellInv, ArtInv', NEW c \in Callers, Promoted(c)
    PROVE  Honest
<1> DEFINE w == call[c]
           o == Answer(c)
<1>1. Awaited(c, "promote") /\ UNCHANGED disk /\ "promote" \in Acts
  BY DEF Promoted, Acts
<1>2. /\ Tells(w, o) /\ w \in Calls /\ w # None /\ w.pc = "promote" /\ w.slot # None
      /\ o \in Workers /\ Sound(o) /\ o.act = "promote" /\ o.state \in {"finished", "aborted"}
      /\ Staged(w, o)
      /\ w.kind = "download" /\ w.cut \in {None, "timeout", "cancel"} /\ w.cut # "timeout"
  BY <1>1, Hears
<1>3. o.result \in {"ok", "failed"}
  BY <1>2 DEF Sound
<1>4. CASE Verdict(c) = "ok"
  <2>1. o.step = "rehash"
    BY <1>2, <1>3, <1>4, VerdictIs DEF Sound
  <2>2. part[w.job] = None /\ (w.alone => ready[w.job] # None)
    BY <1>2, <2>1 DEF Staged, Tells
  <2>3. Tidings(w, "ok") /\ "ok" \in Outcomes
    BY <1>2, <2>2 DEF Tidings, Outcomes
  <2>4. Return(Pool(c), c, "ok")
    BY <1>4 DEF Promoted
  <2> QED BY <1>1, <1>2, <2>3, <2>4, Speaks
<1>5. CASE Verdict(c) # "ok"
  <2>1. PICK out \in {"failed", "cancelled"} : out = Verdict(c)
    BY <1>2, <1>3, <1>5, VerdictIs
  <2>2. Abandon(Pool(c), c, w, out)
    BY <1>5, <2>1 DEF Promoted
  <2>3. w.alone /\ out = "failed" => DiskFaults \/ ready[w.job] = None
    <3> SUFFICES ASSUME w.alone, out = "failed" PROVE DiskFaults \/ ready[w.job] = None
      OBVIOUS
    <3>1. o.result = "failed"
      BY <1>2, <1>3, <2>1, VerdictIs
    <3>2. o.step \in {"check", "hash", "replace", "rehash", "undo"}
      BY <1>2 DEF Sound, Stages
    <3> QED BY <1>2, <3>1, <3>2 DEF Tells
  <2> QED BY <1>1, <1>2, <2>2, <2>3, GivesUp
<1> QED BY <1>4, <1>5

\* A cleanup that was lost is submitted again.
LEMMA Retries ==
    ASSUME ArtInv, TellInv, ArtInv', NEW c \in Callers, UNCHANGED disk,
           NEW act \in {"abandon", "drop"}, Awaited(c, act),
           Submit(Pool(c), c, call[c], act, "short", {})
    PROVE  Honest
<1>1. act \in Acts /\ "short" \in Contents
  BY DEF Acts, Contents
<1>2. /\ Tells(call[c], Answer(c)) /\ call[c] \in Calls /\ call[c] # None /\ call[c].pc = act
      /\ call[c].slot # None /\ Answer(c).state \in {"finished", "aborted"}
      /\ call[c].kind = "download" /\ call[c].pc # "returned"
  BY <1>1, Hears
<1>3. act = "abandon" =>
         /\ call[c].out \in {"failed", "cancelled"}
         /\ call[c].alone /\ call[c].out = "failed" => DiskFaults \/ ready[call[c].job] = None
  BY <1>2 DEF Tells
<1> QED BY <1>1, <1>2, <1>3, Hands

LEMMA AbandonedHonest ==
    ASSUME ArtInv, TellInv, ArtInv', NEW c \in Callers, Abandoned(c)
    PROVE  Honest
<1> DEFINE w == call[c]
           o == Answer(c)
<1>1. Awaited(c, "abandon") /\ UNCHANGED disk /\ "abandon" \in Acts
  BY DEF Abandoned, Acts
<1>2. /\ Tells(w, o) /\ w \in Calls /\ w # None /\ w.pc = "abandon" /\ w.slot # None
      /\ o \in Workers /\ Sound(o) /\ o.act = "abandon" /\ o.state \in {"finished", "aborted"}
      /\ Staged(w, o)
      /\ w.kind = "download" /\ w.cut \in {None, "timeout", "cancel"} /\ w.cut # "timeout"
  BY <1>1, Hears
<1>3. CASE Lost(c)
  BY <1>1, <1>3, Retries DEF Abandoned
<1>4. CASE ~Lost(c)
  <2>1. o.state = "finished" /\ o.result \in {"ok", "failed"}
    BY <1>2, <1>4 DEF Lost, Sound
  <2>2. PICK out : out = IF w.cut = None /\ o.result = "ok" THEN w.out ELSE Verdict(c)
    OBVIOUS
  <2>3. /\ out \in {"failed", "cancelled"}
        /\ out = "failed" => o.result = "failed" \/ w.out = "failed"
    <3>1. w.out \in {"failed", "cancelled"}
      BY <1>2 DEF Tells
    <3> QED BY <1>2, <2>1, <2>2, <3>1 DEF Verdict
  <2>4. part[w.job] # None => w.job \in residue
    BY <1>2, <2>1 DEF Staged
  <2>5. w.alone /\ out = "failed" => DiskFaults \/ (part[w.job] = None /\ ready[w.job] = None)
    <3>1. w.alone /\ o.result = "failed" => DiskFaults
      BY <1>2 DEF Staged
    <3>2. w.alone /\ o.result = "ok" /\ w.out = "failed" =>
             DiskFaults \/ (part[w.job] = None /\ ready[w.job] = None)
      BY <1>2, <2>1 DEF Tells
    <3> QED BY <2>1, <2>3, <3>1, <3>2
  <2>6. Tidings(w, out) /\ out \in Outcomes
    BY <1>2, <2>3, <2>4, <2>5 DEF Tidings, Outcomes
  <2>7. Return(Pool(c), c, out)
    BY <1>4, <2>2 DEF Abandoned
  <2> QED BY <1>1, <1>2, <2>6, <2>7, Speaks
<1> QED BY <1>3, <1>4

LEMMA DroppedHonest ==
    ASSUME ArtInv, TellInv, ArtInv', NEW c \in Callers, Dropped(c)
    PROVE  Honest
<1>1. Awaited(c, "drop") /\ UNCHANGED disk /\ "drop" \in Acts
  BY DEF Dropped, Acts
<1>2. /\ call[c] # None /\ call[c].slot # None /\ Answer(c).act = "drop"
      /\ Answer(c).state \in {"finished", "aborted"}
      /\ Staged(call[c], Answer(c)) /\ call[c].kind = "download"
  BY <1>1, Hears
<1>3. CASE Lost(c)
  BY <1>1, <1>3, Retries DEF Dropped
<1>4. CASE ~Lost(c)
  <2>1. part[call[c].job] # None => call[c].job \in residue
    BY <1>2, <1>4 DEF Lost, Staged
  <2>2. Tidings(call[c], "cancelled") /\ "cancelled" \in Outcomes
    BY <1>2, <2>1 DEF Tidings, Outcomes
  <2>3. Return(Pool(c), c, "cancelled")
    BY <1>4 DEF Dropped
  <2> QED BY <1>1, <1>2, <2>2, <2>3, Speaks
<1> QED BY <1>3, <1>4

LEMMA CleanedUpHonest ==
    ASSUME ArtInv, TellInv, ArtInv', NEW c \in Callers, CleanedUp(c) \/ Reconciled(c)
    PROVE  Honest
<1> DEFINE w == call[c]
           o == Answer(c)
<1>1. PICK act \in {"remove", "reconcile"} :
         Awaited(c, act) /\ UNCHANGED disk /\ Return(Pool(c), c, Verdict(c))
  BY DEF CleanedUp, Reconciled
<1>2. act \in Acts
  BY DEF Acts
<1>3. /\ Tells(w, o) /\ w \in Calls /\ w # None /\ w.pc = act /\ w.slot # None
      /\ o \in Workers /\ Sound(o) /\ o.act = act /\ o.state \in {"finished", "aborted"}
      /\ w.kind = act /\ w.cut \in {None, "timeout", "cancel"} /\ w.cut # "timeout"
  BY <1>1, <1>2, Hears
<1>4. o.result \in {"ok", "failed"}
  BY <1>3 DEF Sound
<1>5. PICK out \in {"ok", "failed", "cancelled"} : out = Verdict(c)
  BY <1>3, <1>4, VerdictIs
<1>6. /\ out = "ok" => o.state = "finished" /\ o.result = "ok"
      /\ out = "failed" => o.state = "finished" /\ o.result = "failed"
  BY <1>3, <1>4, <1>5, VerdictIs
<1>7. Tidings(w, out) /\ out \in Outcomes
  BY <1>3, <1>6 DEF Tidings, Tells, Outcomes
<1>8. w.kind = "reconcile" =>
         /\ w.pc = "reconcile" /\ (out = "failed" => DiskFaults)
         /\ out = "ok" => \A j \in Jobs \ o.keep : part[j] = None /\ ready[j] = None
  BY <1>3, <1>6 DEF Tells
<1> QED BY <1>1, <1>3, <1>5, <1>7, <1>8, Speaks

\* An interruption that is only recorded.
LEMMA Noticed ==
    ASSUME ArtInv, TellInv, ArtInv', NEW c \in Callers, call[c] # None,
           call[c].pc # "returned", op' = op, UNCHANGED disk,
           NEW cut \in {"timeout", "cancel"}, NEW asked \in BOOLEAN,
           call' = [call EXCEPT ![c] = [@ EXCEPT !.cut = cut, !.asked = asked]]
    PROVE  Honest
<1>1. PICK e \in Calls : e = call[c]
  BY TheCall DEF ArtInv
<1>2. PICK w : w = [e EXCEPT !.cut = cut, !.asked = asked]
  OBVIOUS
<1>3. /\ w \in Calls /\ w.kind = e.kind /\ w.job = e.job /\ w.alone = e.alone
      /\ w.pc = e.pc /\ w.slot = e.slot /\ w.out = e.out
  BY <1>2 DEF Calls
<1>4. call'[c] = w /\ OthersSee(c)
  BY <1>1, <1>2 DEF ArtInv, Types, OthersSee
<1>5. Tells(call[c], op[call[c].slot])
  BY DEF TellInv
<1>6. Tells(w, op[w.slot])'
  BY <1>1, <1>3, <1>5 DEF Tells, disk
<1> QED BY <1>1, <1>3, <1>4, <1>6, Quiet

LEMMA CancelHonest ==
    ASSUME ArtInv, TellInv, ArtInv', NEW c \in Callers, Cancel(c)
    PROVE  Honest
<1>1. call[c] # None /\ call[c].pc # "returned" /\ UNCHANGED disk
  BY DEF Cancel
<1>2. PICK e \in Calls : e = call[c]
  BY <1>1, TheCall DEF ArtInv
<1>3. PICK w : w = [e EXCEPT !.asked = TRUE]
  OBVIOUS
<1>4. /\ w \in Calls /\ w.kind = e.kind /\ w.job = e.job /\ w.alone = e.alone /\ w.pc = e.pc
  BY <1>3 DEF Calls
<1>5. CASE e.pc = "http"
  <2>1. Abandon(op, c, w, "cancelled")
    BY <1>2, <1>3, <1>4, <1>5 DEF Cancel
  <2>2. call[c].slot = None /\ call[c].kind = "download"
    BY <1>1, <1>2, <1>5, HttpTells DEF At
  <2> QED BY <1>1, <1>2, <1>4, <2>1, <2>2, GivesUp
<1>6. CASE e.pc # "http"
  <2>1. op' = op /\ call' = [call EXCEPT ![c] = [w EXCEPT !.cut = "cancel"]]
    BY <1>2, <1>3, <1>4, <1>6 DEF Cancel
  <2>2. [w EXCEPT !.cut = "cancel"] = [e EXCEPT !.cut = "cancel", !.asked = TRUE]
    BY <1>3 DEF Calls
  <2>3. call' = [call EXCEPT ![c] = [@ EXCEPT !.cut = "cancel", !.asked = TRUE]]
    BY <1>2, <2>1, <2>2
  <2>4. PICK asked \in BOOLEAN : asked = TRUE
    OBVIOUS
  <2> QED BY <1>1, <2>1, <2>3, <2>4, Noticed
<1> QED BY <1>5, <1>6

LEMMA ExpireHonest ==
    ASSUME ArtInv, TellInv, ArtInv', NEW c \in Callers, Expire(c)
    PROVE  Honest
<1>1. CASE At(c, "http") /\ Abandon(op, c, call[c], "failed")
  <2>1. UNCHANGED disk
    BY DEF Expire
  <2> QED BY <1>1, <2>1, HttpTells, GivesUp
<1>2. CASE /\ At(c, "write")
           /\ call' = [call EXCEPT ![c].cut = "timeout"]
           /\ op' = op
  <2>1. call[c] # None /\ call[c].pc = "write" /\ UNCHANGED disk
    BY <1>2 DEF Expire, At
  <2>2. PICK e \in Calls : e = call[c]
    BY <2>1, TheCall DEF ArtInv
  <2>3. PICK asked \in BOOLEAN : asked = e.asked
    BY DEF Calls
  <2>4. [e EXCEPT !.cut = "timeout"] = [e EXCEPT !.cut = "timeout", !.asked = asked]
    BY <2>3 DEF Calls
  <2>5. call' = [call EXCEPT ![c] = [@ EXCEPT !.cut = "timeout", !.asked = asked]]
    BY <1>2, <2>2, <2>4
  <2> QED BY <1>2, <2>1, <2>5, Noticed
<1> QED BY <1>1, <1>2 DEF Expire

LEMMA BeginHonest ==
    ASSUME ArtInv, TellInv, ArtInv', NEW c \in Callers,
           StartReconcile(c) \/ \E j \in Jobs : StartDownload(c, j) \/ StartCleanup(c, j)
    PROVE  Honest
<1>1. CASE StartReconcile(c)
  <2>1. PICK keep \in SUBSET Jobs : Begin(c, "reconcile", None, "reconcile", keep)
    BY <1>1 DEF StartReconcile
  <2>2. (\A d \in Callers : call[d] = None) /\ "reconcile" \in Acts
    BY <1>1 DEF StartReconcile, Acts
  <2>3. TellInv' /\ Custody!Ask(c, "reconcile", None, keep)
    BY <2>1, <2>2, Asked
  <2> QED BY <2>3 DEF Honest, Custody!Next
<1>2. ASSUME NEW j \in Jobs, StartDownload(c, j) PROVE Honest
  <2>1. /\ loaded /\ Begin(c, "download", j, "prepare", {})
        /\ \A d \in Others(c, j) : call[d].kind # "download"
    BY <1>2 DEF StartDownload
  <2>2. "prepare" \in Acts /\ j # None /\ {} \in SUBSET Jobs
    BY DEF Acts
  <2>3. TellInv' /\ Custody!Ask(c, "download", j, {})
    BY <2>1, <2>2, Asked
  <2> QED BY <2>3 DEF Honest, Custody!Next
<1>3. ASSUME NEW j \in Jobs, StartCleanup(c, j) PROVE Honest
  <2>1. loaded /\ Begin(c, "remove", j, "remove", {})
    BY <1>3 DEF StartCleanup
  <2>2. "remove" \in Acts /\ j # None /\ {} \in SUBSET Jobs
    BY DEF Acts
  <2>3. TellInv' /\ Custody!Ask(c, "remove", j, {})
    BY <2>1, <2>2, Asked
  <2> QED BY <2>3 DEF Honest, Custody!Next
<1> QED BY <1>1, <1>2, <1>3

----------------------------------------------------------------------------
(* The promise: what the threads do.                                       *)

\* What a thread that works for a download or a cleanup may do to the names.
Disturbs(j, kind) ==
    /\ \A k \in Jobs \ {j} : part'[k] = part[k] /\ ready'[k] = ready[k]
    /\ HeldOf(j)' = HeldOf(j) \/ <<HeldOf(j), HeldOf(j)'>> \in Custody!Moves(kind)
    /\ kind # "download" =>
          part'[j] \in {part[j], None} /\ ready'[j] \in {ready[j], None}
    /\ \E left \in SUBSET {j} :
          (left # {} => DiskFaults) /\ residue' = {k \in residue \cup left : part'[k] # None}

\* A thread at work: the other calls, and what was promised, stay as they are.
LEMMA Works ==
    ASSUME ArtInv, TellInv, ArtInv', NEW s \in Slots, op[s] # None, op[s].state = "running",
           Turns(s), NEW c \in Callers, Serves(s, c), op[s].act # "reconcile",
           NEW j \in Jobs, op[s].job = j,
           UNCHANGED disk \/ Disturbs(j, call[c].kind),
           Tells(call[c], op[s])'
    PROVE  Honest
<1>1. /\ call' = call /\ call[c] \in Calls /\ Proper(call[c]) /\ call[c] # None
      /\ call[c].slot = s /\ call[c].pc = op[s].act /\ call[c].job = j
      /\ op[s] \in Workers /\ Sound(op[s])
      /\ \A d \in Callers \ {c} : ~Owns(d, s)
  BY DEF Turns, Serves, Owns
<1>2. j \in Jobs /\ call[c].pc # "reconcile" /\ call[c].pc \in Acts /\ call[c].pc # "returned"
      /\ call[c].kind \in {"download", "remove"}
  BY <1>1 DEF Sound, Proper, Workers, Acts, Calls
<1>3. \A d \in Callers : call[d] # None => call[d].pc # "reconcile"
  <2> SUFFICES ASSUME NEW d \in Callers, call[d] # None, call[d].pc = "reconcile" PROVE FALSE
    OBVIOUS
  <2>1. d # c
    BY <1>2
  <2> QED BY <1>1, <2>1 DEF ArtInv, LoadInv, At
<1>4. \A d \in Callers : DeedOf(d)' = DeedOf(d)
  BY <1>1, <1>3 DEF DeedOf
<1>5. TellInv'
  <2> SUFFICES ASSUME NEW d \in Callers, call[d] # None PROVE Tells(call[d], op[call[d].slot])'
    BY <1>1 DEF TellInv
  <2>1. CASE d = c
    BY <1>1, <2>1
  <2>2. CASE d # c
    <3> DEFINE w == call[d]
               k == call[d].job
    <3>1. Tells(w, op[w.slot]) /\ w \in Calls /\ Proper(w) /\ w.pc # "reconcile"
      BY <1>3, TheCall DEF TellInv, ArtInv
    <3>2. w.slot # None => op'[w.slot] = op[w.slot]
      BY <1>1, <2>2, Aside
    <3>3. w.slot # None <=> w.pc \in Acts
      BY <3>1 DEF Proper
    <3>4. w.kind = "download" \/ w.pc \in {"remove", "returned"}
      BY <3>1 DEF Proper, Legs, Calls
    <3>5. w.pc # "returned" => k \in Jobs
      BY <3>1 DEF Proper, Legs, Calls
    <3>6. (w.alone \/ (w.kind = "download" /\ call[c].kind = "download")) /\ w.pc # "returned" => k # j
      BY <1>1, <2>2, <3>5 DEF ArtInv, ApartInv
    <3>7. w.pc # "returned" =>
             /\ w.alone => part'[k] = part[k] /\ ready'[k] = ready[k]
             /\ w.kind = "download" => part'[k] \in {part[k], None} /\ ready'[k] \in {ready[k], None}
      <4>1. CASE UNCHANGED disk
        BY <4>1 DEF disk
      <4>2. CASE Disturbs(j, call[c].kind)
        BY <1>2, <3>5, <3>6, <4>2 DEF Disturbs
      <4> QED BY <4>1, <4>2
    <3>8. PICK v : v = w
      OBVIOUS
    <3>9. PICK o : o = op[w.slot]
      OBVIOUS
    <3> HIDE DEF w, k
    <3>10. v.job = k /\ call'[d] = v /\ (v.slot # None => op'[v.slot] = o)
      BY <1>1, <3>2, <3>8, <3>9 DEF w, k
    <3>11. Tells(v, o)'
      BY <3>1, <3>4, <3>7, <3>8, <3>9, <3>10 DEF Tells
    <3>12. CASE v.pc \in Acts
      BY <3>3, <3>8, <3>10, <3>11, <3>12
    <3>13. CASE v.pc \notin Acts
      BY <3>3, <3>4, <3>7, <3>8, <3>10, <3>1, <3>9, <3>13 DEF Tells, Acts
    <3> QED BY <3>12, <3>13
  <2> QED BY <2>1, <2>2
<1>6. CASE UNCHANGED disk
  <2>1. part' = part /\ ready' = ready /\ residue' = residue
    BY <1>6 DEF disk
  <2>2. UNCHANGED Custody!vars
    BY <1>4, <2>1, Unseen
  <2> QED BY <1>5, <2>2 DEF Honest
<1>7. CASE Disturbs(j, call[c].kind)
  <2>1. PICK left \in SUBSET {j} :
           (left # {} => DiskFaults) /\ residue' = {k \in residue \cup left : part'[k] # None}
    BY <1>7 DEF Disturbs
  <2>2. /\ \A k \in Jobs \ {j} : part'[k] = part[k] /\ ready'[k] = ready[k]
        /\ HeldOf(j)' = HeldOf(j) \/ <<HeldOf(j), HeldOf(j)'>> \in Custody!Moves(call[c].kind)
    BY <1>7 DEF Disturbs
  <2>3. call[c].kind # "reconcile"
    BY <1>2
  <2>4. Custody!Next
    BY <1>1, <1>2, <1>4, <2>1, <2>2, <2>3, Touched
  <2> QED BY <1>5, <2>4 DEF Honest
<1> QED BY <1>6, <1>7

\* What may become of the names of a job.
LEMMA NamesStay ==
    ASSUME ArtInv, ArtInv', NEW j \in Jobs, NEW kind, NEW left \in SUBSET {j},
           left # {} => DiskFaults, part' = part, ready' = ready,
           residue' = {k \in residue \cup left : part'[k] # None}
    PROVE  Disturbs(j, kind)
<1>1. HeldOf(j)' = HeldOf(j)
  BY HeldIs, HeldWillBe
<1> QED BY <1>1 DEF Disturbs

LEMMA PartGoes ==
    ASSUME ArtInv, ArtInv', NEW j \in Jobs, NEW kind, NEW left \in SUBSET {j},
           left # {} => DiskFaults, part' = [part EXCEPT ![j] = None], ready' = ready,
           residue' = {k \in residue \cup left : part'[k] # None}
    PROVE  Disturbs(j, kind)
<1>1. part'[j] = None /\ \A k \in Jobs \ {j} : part'[k] = part[k]
  BY DEF ArtInv, Types
<1>2. part[j] # None => ready[j] = None
  BY DEF ArtInv, FilesInv
<1>3. HeldOf(j)' = HeldOf(j) \/ (HeldOf(j) = "part" /\ HeldOf(j)' = "none")
  BY <1>1, <1>2, HeldIs, HeldWillBe
<1>4. <<"part", "none">> \in Custody!Moves(kind)
  BY DEF Custody!Moves
<1> QED BY <1>1, <1>3, <1>4 DEF Disturbs

LEMMA ReadyGoes ==
    ASSUME ArtInv, ArtInv', NEW j \in Jobs, NEW kind,
           kind # "download" \/ DiskFaults \/ ready[j] = None,
           part' = part, ready' = [ready EXCEPT ![j] = None],
           residue' = {k \in residue : part'[k] # None}
    PROVE  Disturbs(j, kind)
<1>1. ready'[j] = None /\ \A k \in Jobs \ {j} : ready'[k] = ready[k]
  BY DEF ArtInv, Types
<1>2. \/ HeldOf(j)' = HeldOf(j)
      \/ ready[j] # None /\ HeldOf(j) = "whole" /\ HeldOf(j)' = "none"
  BY <1>1, HeldIs, HeldWillBe DEF ArtInv, FilesInv
<1>3. kind # "download" \/ DiskFaults => <<"whole", "none">> \in Custody!Moves(kind)
  BY DEF Custody!Moves
<1>4. HeldOf(j)' = HeldOf(j) \/ <<HeldOf(j), HeldOf(j)'>> \in Custody!Moves(kind)
  BY <1>2, <1>3
<1>5. residue' = {k \in residue \cup {} : part'[k] # None}
  OBVIOUS
<1> QED BY <1>1, <1>4, <1>5 DEF Disturbs

LEMMA PartComes ==
    ASSUME ArtInv, ArtInv', NEW j \in Jobs, NEW f, f # None, NEW left \in SUBSET {j},
           left # {} => DiskFaults, part[j] = None, ready[j] = None,
           part' = [part EXCEPT ![j] = f], ready' = ready,
           residue' = {k \in residue \cup left : part'[k] # None}
    PROVE  Disturbs(j, "download")
<1>1. part'[j] = f /\ \A k \in Jobs \ {j} : part'[k] = part[k]
  BY DEF ArtInv, Types
<1>2. HeldOf(j) = "none" /\ HeldOf(j)' = "part"
  BY <1>1, HeldIs, HeldWillBe
<1>3. <<"none", "part">> \in Custody!Moves("download")
  BY DEF Custody!Moves
<1> QED BY <1>1, <1>2, <1>3 DEF Disturbs

LEMMA PartIsPublished ==
    ASSUME ArtInv, ArtInv', NEW j \in Jobs, part[j] # None,
           part' = [part EXCEPT ![j] = None], ready' = [ready EXCEPT ![j] = part[j]],
           residue' = {k \in residue : part'[k] # None}
    PROVE  Disturbs(j, "download")
<1>1. part'[j] = None /\ ready'[j] # None
      /\ \A k \in Jobs \ {j} : part'[k] = part[k] /\ ready'[k] = ready[k]
  BY DEF ArtInv, Types
<1>2. HeldOf(j) = "part" /\ HeldOf(j)' = "whole"
  BY <1>1, HeldIs, HeldWillBe
<1>3. <<"part", "whole">> \in Custody!Moves("download")
  BY DEF Custody!Moves
<1>4. residue' = {k \in residue \cup {} : part'[k] # None}
  OBVIOUS
<1> QED BY <1>1, <1>2, <1>3, <1>4 DEF Disturbs

\* A thread at a step, and the call that awaits it.
LEMMA AtStep ==
    ASSUME ArtInv, TellInv, NEW s \in Slots, NEW step, Running(s, step)
    PROVE  /\ op[s] # None /\ op[s].state = "running" /\ op[s].step = step
           /\ op[s] \in Workers /\ Sound(op[s])
           /\ \E c \in Callers :
                 /\ Serves(s, c) /\ Tells(call[c], op[s]) /\ call[c] # None
                 /\ call[c].pc = op[s].act /\ call[c].job = op[s].job
                 /\ op[s].act # "reconcile" => op[s].job \in Jobs
                 /\ op[s].act \notin {"remove", "reconcile"} => call[c].kind = "download"
<1>1. op[s] # None /\ op[s].state = "running" /\ op[s].step = step
  BY DEF Running
<1>2. PICK c \in Callers : Serves(s, c)
  BY <1>1, Owner
<1>3. /\ call[c] # None /\ call[c].slot = s /\ call[c].pc = op[s].act /\ call[c].job = op[s].job
      /\ op[s] \in Workers /\ Sound(op[s]) /\ call[c] \in Calls /\ Proper(call[c])
  BY <1>2 DEF Serves, Owns
<1>4. Tells(call[c], op[s])
  BY <1>3 DEF TellInv
<1>5. op[s].act # "reconcile" => op[s].job \in Jobs
  BY <1>3 DEF Sound
<1>6. op[s].act \notin {"remove", "reconcile"} => call[c].kind = "download"
  <2>1. call[c].pc # "returned"
    BY <1>3 DEF Workers, Acts
  <2> QED BY <1>3, <2>1 DEF Proper, Legs, Calls
<1> QED BY <1>1, <1>2, <1>3, <1>4, <1>5, <1>6

LEMMA StartHonest ==
    ASSUME ArtInv, TellInv, ArtInv', NEW s \in Slots, Start(s)
    PROVE  Honest
<1>1. /\ op[s] # None /\ call' = call /\ part' = part /\ ready' = ready /\ residue' = residue
      /\ op[s] \in Workers /\ Sound(op[s])
  BY DEF Start, disk, ArtInv, Types, OpInv
<1>2. ASSUME NEW d \in Callers, call[d] # None
      PROVE  /\ DeedOf(d)' = DeedOf(d)
             /\ Tells(call[d], op[call[d].slot])'
  <2>1. /\ call[d] \in Calls /\ Proper(call[d]) /\ Tells(call[d], op[call[d].slot])
        /\ call[d].slot # None =>
              /\ call[d].slot \in Slots /\ op[call[d].slot] \in Workers
              /\ Sound(op[call[d].slot]) /\ op[call[d].slot].act = call[d].pc
    BY <1>2, TheCall DEF ArtInv, TellInv, Awaits
  <2>2. CASE call[d].pc \notin Acts
    <3>1. call[d].pc # "reconcile"
      BY <2>2 DEF Acts
    <3>2. DeedOf(d)' = DeedOf(d)
      BY <1>1, <3>1 DEF DeedOf
    <3>3. Tells(call[d], op[call[d].slot])'
      BY <1>1, <2>1, <2>2 DEF Tells, Acts
    <3> QED BY <3>2, <3>3
  <2>3. CASE call[d].pc \in Acts /\ call[d].slot # s
    <3>1. call[d].slot \in Slots \ {s}
      BY <2>1, <2>3 DEF Proper
    <3>2. op'[call[d].slot] = op[call[d].slot]
      BY <3>1 DEF Start, ArtInv, Types
    <3>3. DeedOf(d)' = DeedOf(d)
      BY <1>1, <3>2 DEF DeedOf, Answer
    <3>4. Tells(call[d], op[call[d].slot])'
      BY <1>1, <2>1, <3>2 DEF Tells
    <3> QED BY <3>3, <3>4
  <2>4. CASE call[d].pc \in Acts /\ call[d].slot = s
    <3>1. op[s].state = "queued" /\ op' = [op EXCEPT ![s].state = "running"]
      BY <1>2, <2>4 DEF Start, Started
    <3>2. PICK o : o = op'[s]
      OBVIOUS
    <3>3. PICK q \in Workers : q = op[s]
      BY <1>1
    <3>4. o = [q EXCEPT !.state = "running"]
      BY <3>1, <3>2, <3>3 DEF ArtInv, Types
    <3>5. /\ o.step = q.step /\ o.result = q.result /\ o.fd = q.fd /\ o.keep = q.keep
          /\ o.state = "running"
      BY <3>4 DEF Workers
    <3>6. DeedOf(d)' = DeedOf(d)
      BY <1>1, <2>4, <3>2, <3>3, <3>5 DEF DeedOf, Answer
    <3>7. q.step = FirstStep(call[d].pc) /\ q.result = "ok" /\ (q.act = "prepare" => q.fd = None)
          /\ q.act = call[d].pc
      BY <1>1, <2>1, <2>4, <3>1, <3>3 DEF Sound
    <3>8. Tells(call[d], q)
      BY <2>1, <2>4, <3>3
    <3>9. Tells(call[d], o)'
      BY <1>1, <3>5, <3>7, <3>8 DEF Tells, FirstStep
    <3> QED BY <1>1, <2>4, <3>2, <3>6, <3>9
  <2> QED BY <2>2, <2>3, <2>4
<1>3. \A d \in Callers : DeedOf(d)' = DeedOf(d)
  BY <1>1, <1>2 DEF DeedOf
<1>4. TellInv'
  BY <1>1, <1>2 DEF TellInv
<1>5. UNCHANGED Custody!vars
  BY <1>1, <1>3, Unseen
<1> QED BY <1>4, <1>5 DEF Honest

LEMMA AbortHonest ==
    ASSUME ArtInv, TellInv, ArtInv', NEW s \in Slots, Abort(s)
    PROVE  Honest
<1>1. /\ op[s] # None /\ call' = call /\ part' = part /\ ready' = ready /\ residue' = residue
      /\ op[s] \in Workers /\ op[s].state = "queued" /\ op' = [op EXCEPT ![s].state = "aborted"]
  BY DEF Abort, disk, ArtInv, Types
<1>2. PICK q \in Workers : q = op[s]
  BY <1>1
<1>3. PICK o : o = [q EXCEPT !.state = "aborted"]
  OBVIOUS
<1>4. /\ o.step = q.step /\ o.result = q.result /\ o.fd = q.fd /\ o.keep = q.keep
      /\ o.state = "aborted"
  BY <1>3 DEF Workers
<1>5. op'[s] = o /\ \A x \in Slots \ {s} : op'[x] = op[x]
  BY <1>1, <1>2, <1>3 DEF ArtInv, Types
<1>6. ASSUME NEW d \in Callers, call[d] # None
      PROVE  /\ DeedOf(d)' = DeedOf(d)
             /\ Tells(call[d], op[call[d].slot])'
  <2>1. /\ call[d] \in Calls /\ Proper(call[d]) /\ Tells(call[d], op[call[d].slot])
        /\ call[d].slot # None => call[d].slot \in Slots
    BY <1>6, TheCall DEF ArtInv, TellInv
  <2>2. CASE call[d].pc \notin Acts
    <3>1. call[d].pc # "reconcile"
      BY <2>2 DEF Acts
    <3>2. DeedOf(d)' = DeedOf(d)
      BY <1>1, <3>1 DEF DeedOf
    <3>3. Tells(call[d], op[call[d].slot])'
      BY <1>1, <2>1, <2>2 DEF Tells, Acts
    <3> QED BY <3>2, <3>3
  <2>3. CASE call[d].pc \in Acts
    <3>1. call[d].slot \in Slots
      BY <2>1, <2>3 DEF Proper
    <3>2. \/ op'[call[d].slot] = op[call[d].slot]
          \/ op[call[d].slot] = q /\ op'[call[d].slot] = o
      BY <1>2, <1>5, <3>1
    <3>3. DeedOf(d)' = DeedOf(d)
      BY <1>1, <1>4, <3>2 DEF DeedOf, Answer
    <3>4. Tells(call[d], op[call[d].slot])'
      <4>1. CASE op'[call[d].slot] = op[call[d].slot]
        BY <1>1, <2>1, <4>1 DEF Tells
      <4>2. CASE op[call[d].slot] = q /\ op'[call[d].slot] = o
        <5>1. Tells(call[d], q)
          BY <2>1, <4>2
        <5>2. Tells(call[d], o)'
          BY <1>1, <1>4, <5>1 DEF Tells
        <5> QED BY <1>1, <4>2, <5>2
      <4> QED BY <3>2, <4>1, <4>2
    <3> QED BY <3>3, <3>4
  <2> QED BY <2>2, <2>3
<1>7. \A d \in Callers : DeedOf(d)' = DeedOf(d)
  BY <1>1, <1>6 DEF DeedOf
<1>8. TellInv'
  BY <1>1, <1>6 DEF TellInv
<1>9. UNCHANGED Custody!vars
  BY <1>1, <1>7, Unseen
<1> QED BY <1>8, <1>9 DEF Honest

LEMMA LookHonest ==
    ASSUME ArtInv, TellInv, ArtInv', NEW s \in Slots, Look(s)
    PROVE  Honest
<1>1. Running(s, "look") /\ UNCHANGED <<call, loaded, aborts>> /\ UNCHANGED disk
  BY DEF Look
<1>2. op[s] # None /\ op[s].state = "running" /\ op[s].act = "prepare" /\ op[s].result = "ok"
      /\ op[s].fd = None /\ {"hash", "create"} \subseteq Stages(op[s].act)
  <2>1. /\ op[s] # None /\ op[s].state = "running" /\ op[s].step = "look"
        /\ op[s] \in Workers /\ Sound(op[s])
    BY <1>1, AtStep
  <2>2. op[s].act = "prepare"
    BY <2>1, Acting
  <2>3. op[s].result = "ok" /\ op[s].fd = None
    BY <2>1, <2>2 DEF Sound
  <2> QED BY <2>1, <2>2, <2>3 DEF Stages
<1>3. PICK c \in Callers :
         /\ Serves(s, c) /\ Tells(call[c], op[s]) /\ call[c] # None
         /\ call[c].pc = op[s].act /\ call[c].job = op[s].job
         /\ op[s].act # "reconcile" => op[s].job \in Jobs
  BY <1>1, AtStep
<1>4. PICK j \in Jobs : op[s].job = j
  BY <1>2, <1>3
<1>5. part' = part /\ ready' = ready /\ call' = call
  BY <1>1 DEF disk
<1>6. CASE ready[j] # None /\ Proceed(s, "hash")
  <2>1. /\ Turns(s) /\ op'[s].fd = None /\ op'[s].result = "ok"
    BY <1>1, <1>2, <1>6, Proceeds
  <2>2. Tells(call[c], op[s])'
    BY <1>2, <1>3, <1>4, <1>5, <1>6, <2>1 DEF Tells
  <2> QED BY <1>1, <1>2, <1>3, <1>4, <2>1, <2>2, Works
<1>7. CASE DiskFaults /\ End(s, "failed")
  <2>1. /\ Turns(s) /\ op'[s].fd = None /\ op'[s].state = "finished" /\ op'[s].result = "failed"
    BY <1>1, <1>2, <1>7, Ends
  <2>2. Tells(call[c], op[s])'
    BY <1>2, <1>3, <1>4, <1>5, <1>7, <2>1 DEF Tells
  <2> QED BY <1>1, <1>2, <1>3, <1>4, <2>1, <2>2, Works
<1>8. CASE part[j] # None /\ End(s, "busy")
  <2>1. /\ Turns(s) /\ op'[s].fd = None /\ op'[s].state = "finished" /\ op'[s].result = "busy"
    BY <1>1, <1>2, <1>8, Ends
  <2>2. Tells(call[c], op[s])'
    BY <1>2, <1>3, <1>4, <1>5, <1>8, <2>1 DEF Tells
  <2> QED BY <1>1, <1>2, <1>3, <1>4, <2>1, <2>2, Works
<1>9. CASE Proceed(s, "create")
  <2>1. /\ Turns(s) /\ op'[s].fd = None /\ op'[s].result = "ok" /\ op'[s].step = "create"
    BY <1>1, <1>2, <1>9, Proceeds
  <2>2. Tells(call[c], op[s])'
    BY <1>2, <1>3, <1>4, <1>5, <2>1 DEF Tells
  <2> QED BY <1>1, <1>2, <1>3, <1>4, <2>1, <2>2, Works
<1>10. ~(ready[j] # None /\ part[j] # None)
  BY DEF ArtInv, FilesInv
<1> QED BY <1>4, <1>6, <1>7, <1>8, <1>9, <1>10 DEF Look, HasReady

LEMMA HashReadyHonest ==
    ASSUME ArtInv, TellInv, ArtInv', NEW s \in Slots, HashReady(s)
    PROVE  Honest
<1>1. Running(s, "hash") /\ UNCHANGED <<call, loaded, aborts>> /\ UNCHANGED disk
      /\ op[s].act = "prepare"
  BY DEF HashReady
<1>2. op[s] # None /\ op[s].state = "running" /\ op[s].step = "hash" /\ op[s].result = "ok"
      /\ op[s].fd = None
  BY <1>1, AtStep DEF Sound
<1>3. PICK c \in Callers :
         /\ Serves(s, c) /\ Tells(call[c], op[s]) /\ call[c] # None
         /\ call[c].pc = op[s].act /\ call[c].job = op[s].job
         /\ op[s].act # "reconcile" => op[s].job \in Jobs
  BY <1>1, AtStep
<1>4. PICK j \in Jobs : op[s].job = j
  BY <1>1, <1>3
<1>5. part' = part /\ ready' = ready /\ call' = call
  BY <1>1 DEF disk
<1>6. call[c].alone => Whole(ready[j])
  BY <1>1, <1>2, <1>3, <1>4 DEF Tells, Whole, ArtInv, FilesInv
<1>7. CASE Whole(ready[j]) /\ End(s, "reuse")
  <2>1. /\ Turns(s) /\ op'[s].fd = None /\ op'[s].state = "finished" /\ op'[s].result = "reuse"
    BY <1>1, <1>2, <1>7, Ends
  <2>2. Tells(call[c], op[s])'
    BY <1>1, <1>3, <1>4, <1>5, <1>7, <2>1 DEF Tells, Whole
  <2> QED BY <1>1, <1>2, <1>3, <1>4, <2>1, <2>2, Works
<1>8. CASE (~Whole(ready[j]) \/ DiskFaults) /\ End(s, "failed")
  <2>1. /\ Turns(s) /\ op'[s].fd = None /\ op'[s].state = "finished" /\ op'[s].result = "failed"
    BY <1>1, <1>2, <1>8, Ends
  <2>2. Tells(call[c], op[s])'
    BY <1>1, <1>3, <1>4, <1>5, <1>6, <1>8, <2>1 DEF Tells
  <2> QED BY <1>1, <1>2, <1>3, <1>4, <2>1, <2>2, Works
<1> QED BY <1>4, <1>7, <1>8 DEF HashReady

LEMMA CreateHonest ==
    ASSUME ArtInv, TellInv, ArtInv', NEW s \in Slots, Create(s)
    PROVE  Honest
<1>1. Running(s, "create") /\ UNCHANGED <<call, loaded, aborts>>
  BY DEF Create
<1>2. /\ op[s] # None /\ op[s].state = "running" /\ op[s].step = "create"
      /\ op[s].act = "prepare" /\ op[s].result = "ok" /\ op[s].fd = None
      /\ op[s] \in Workers /\ Sound(op[s])
  BY <1>1, AtStep, Acting DEF Sound
<1>3. PICK c \in Callers :
         /\ Serves(s, c) /\ Tells(call[c], op[s]) /\ call[c] # None
         /\ call[c].pc = op[s].act /\ call[c].job = op[s].job
         /\ op[s].act # "reconcile" => op[s].job \in Jobs
         /\ op[s].act \notin {"remove", "reconcile"} => call[c].kind = "download"
  BY <1>1, AtStep
<1>4. PICK j \in Jobs : op[s].job = j
  BY <1>2, <1>3
<1>5. ready[j] = None
  BY <1>2, <1>3, <1>4 DEF Serves, Staged
<1>6. CASE part[j] # None /\ End(s, "busy") /\ UNCHANGED disk
  <2>1. /\ Turns(s) /\ op'[s].fd = None /\ op'[s].state = "finished" /\ op'[s].result = "busy"
    BY <1>1, <1>2, <1>6, Ends
  <2>2. Tells(call[c], op[s])'
    BY <1>1, <1>2, <1>3, <1>4, <1>6, <2>1 DEF Tells, disk
  <2> QED BY <1>1, <1>2, <1>3, <1>4, <1>6, <2>1, <2>2, Works
<1>7. CASE DiskFaults /\ End(s, "failed") /\ UNCHANGED disk
  <2>1. /\ Turns(s) /\ op'[s].fd = None /\ op'[s].state = "finished" /\ op'[s].result = "failed"
    BY <1>1, <1>2, <1>7, Ends
  <2>2. Tells(call[c], op[s])'
    BY <1>1, <1>2, <1>3, <1>4, <1>7, <2>1 DEF Tells, disk
  <2> QED BY <1>1, <1>2, <1>3, <1>4, <1>7, <2>1, <2>2, Works
<1>8. ASSUME NEW f \in Files, NEW left \in SUBSET {j}, left # {} => DiskFaults, part[j] = None,
             part' = [part EXCEPT ![j] = f], ready' = ready,
             residue' = {k \in residue \cup left : part'[k] # None}
      PROVE  Disturbs(j, call[c].kind)
  <2>1. f # None
    OBVIOUS
  <2> QED BY <1>2, <1>3, <1>5, <1>8, <2>1, PartComes
<1> DEFINE f == CHOOSE x \in Spare : TRUE
           d == [data EXCEPT ![f] = "short"]
<1>9. CASE /\ part[j] = None /\ Spare # {}
           /\ op' = [op EXCEPT ![s] = [@ EXCEPT !.state = "finished", !.fd = f]]
           /\ Disk([part EXCEPT ![j] = f], ready, d, open \cup {f}, {})
  <2>1. PICK g \in Files : g = f
    BY <1>9 DEF Spare
  <2>2. PICK o : o = [op[s] EXCEPT !.state = "finished", !.fd = g]
    OBVIOUS
  <2>3. /\ o \in Workers /\ o.act = "prepare" /\ o.job = j /\ o.step = "create" /\ o.fd = g
        /\ o.state = "finished" /\ o.result = "ok"
    BY <1>2, <1>4, <2>1, <2>2 DEF Workers
  <2> HIDE DEF f, d
  <2>4. op' = [op EXCEPT ![s] = o]
    BY <1>9, <2>1, <2>2
  <2>5. op'[s] = o /\ \A x \in Slots \ {s} : op'[x] = op[x]
    BY <2>4 DEF ArtInv, Types
  <2>6. Sound(o)
    BY <1>2, <1>4, <2>1, <2>3 DEF Sound, Stages
  <2>7. Turns(s)
    <3>1. op' \in [Slots -> Workers \cup {None}]
      BY <2>3, <2>4 DEF ArtInv, Types
    <3> QED BY <1>1, <1>2, <1>4, <2>3, <2>5, <2>6, <3>1 DEF Turns
  <2>8. ready' = ready /\ part' = [part EXCEPT ![j] = g]
        /\ residue' = {k \in residue \cup {} : part'[k] # None}
    BY <1>9, <2>1 DEF Disk
  <2>9. Disturbs(j, call[c].kind)
    <3>1. PICK left \in SUBSET {j} : left = {}
      OBVIOUS
    <3>2. residue' = {k \in residue \cup left : part'[k] # None}
      BY <2>8, <3>1
    <3> QED BY <1>8, <1>9, <2>8, <3>1, <3>2
  <2>10. Tells(call[c], op[s])'
    BY <1>1, <1>2, <1>3, <1>4, <1>5, <2>3, <2>5, <2>8 DEF Tells
  <2> QED BY <1>2, <1>3, <1>4, <2>7, <2>9, <2>10, Works
<1>10. CASE /\ DiskFaults /\ part[j] = None /\ Spare # {} /\ End(s, "failed")
            /\ Disk([part EXCEPT ![j] = f], ready, d, open, {j})
  <2>1. /\ Turns(s) /\ op'[s].fd = None /\ op'[s].state = "finished" /\ op'[s].result = "failed"
    BY <1>1, <1>2, <1>10, Ends
  <2>2. PICK g \in Files : g = f
    BY <1>10 DEF Spare
  <2> HIDE DEF f, d
  <2>3. ready' = ready /\ part' = [part EXCEPT ![j] = g]
        /\ residue' = {k \in residue \cup {j} : part'[k] # None}
    BY <1>10, <2>2 DEF Disk
  <2>4. Disturbs(j, call[c].kind)
    BY <1>8, <1>10, <2>3
  <2>5. Tells(call[c], op[s])'
    BY <1>1, <1>2, <1>3, <1>4, <1>10, <2>1 DEF Tells
  <2> QED BY <1>2, <1>3, <1>4, <2>1, <2>4, <2>5, Works
<1> HIDE DEF f, d
<1> QED BY <1>4, <1>6, <1>7, <1>9, <1>10 DEF Create, f, d

LEMMA PutHonest ==
    ASSUME ArtInv, TellInv, ArtInv', NEW s \in Slots, Put(s)
    PROVE  Honest
<1>1. Running(s, "put") /\ UNCHANGED <<call, loaded, aborts>>
  BY DEF Put
<1>2. /\ op[s] # None /\ op[s].state = "running" /\ op[s].act = "write"
  BY <1>1, AtStep, Acting
<1>3. PICK c \in Callers :
         /\ Serves(s, c) /\ Tells(call[c], op[s]) /\ call[c] # None
         /\ call[c].pc = op[s].act /\ call[c].job = op[s].job
         /\ op[s].act # "reconcile" => op[s].job \in Jobs
  BY <1>1, AtStep
<1>4. PICK j \in Jobs : op[s].job = j
  BY <1>2, <1>3
<1>5. /\ part' = part /\ ready' = ready
      /\ UNCHANGED disk \/ residue' = {k \in residue \cup {} : part'[k] # None}
  BY DEF Put, Disk, disk
<1>6. UNCHANGED disk \/ Disturbs(j, call[c].kind)
  <2>1. PICK left \in SUBSET {j} : left = {}
    OBVIOUS
  <2> QED BY <1>5, <2>1, NamesStay
<1>7. PICK result \in {"ok", "failed"} : End(s, result)
  BY DEF Put
<1>8. Turns(s)
  BY <1>1, <1>2, <1>7, Ends
<1>9. Tells(call[c], op[s])'
  BY <1>1, <1>2, <1>3, <1>5 DEF Tells
<1> QED BY <1>2, <1>3, <1>4, <1>6, <1>8, <1>9, Works

\* A worker at work for job j of call c.
Serving(s, c, j) ==
    /\ op[s] # None /\ op[s].state = "running" /\ op[s] \in Workers /\ Sound(op[s])
    /\ Serves(s, c) /\ Tells(call[c], op[s]) /\ call[c] # None
    /\ call[c].pc = op[s].act /\ call[c].job = j /\ op[s].job = j

LEMMA AtWork ==
    ASSUME ArtInv, TellInv, NEW s \in Slots, NEW step, Running(s, step), step # "scan"
    PROVE  /\ op[s].step = step
           /\ op[s].act # "reconcile"
           /\ \E c \in Callers, j \in Jobs :
                 /\ Serving(s, c, j)
                 /\ op[s].act # "remove" => call[c].kind = "download"
<1>1. /\ op[s] # None /\ op[s].state = "running" /\ op[s].step = step
      /\ op[s] \in Workers /\ Sound(op[s])
  BY AtStep
<1>2. PICK c \in Callers :
         /\ Serves(s, c) /\ Tells(call[c], op[s]) /\ call[c] # None
         /\ call[c].pc = op[s].act /\ call[c].job = op[s].job
         /\ op[s].act # "reconcile" => op[s].job \in Jobs
         /\ op[s].act \notin {"remove", "reconcile"} => call[c].kind = "download"
  BY AtStep
<1>3. op[s].act # "reconcile"
  BY <1>1 DEF Sound, Stages, FirstStep
<1>4. PICK j \in Jobs : op[s].job = j
  BY <1>2, <1>3
<1> QED BY <1>1, <1>2, <1>3, <1>4 DEF Serving

\* What it does is honest if what it tells afterwards is.
LEMMA Done ==
    ASSUME ArtInv, TellInv, ArtInv', NEW s \in Slots, NEW c \in Callers, NEW j \in Jobs,
           Serving(s, c, j), op[s].act # "reconcile", Turns(s),
           UNCHANGED disk \/ Disturbs(j, call[c].kind),
           Tells(call[c], op[s])'
    PROVE  Honest
  BY Works DEF Serving

LEMMA CheckHonest ==
    ASSUME ArtInv, TellInv, ArtInv', NEW s \in Slots, Check(s)
    PROVE  Honest
<1>1. Running(s, "check") /\ UNCHANGED <<call, loaded, aborts>> /\ UNCHANGED disk
  BY DEF Check
<1>2. PICK c \in Callers, j \in Jobs : Serving(s, c, j)
  BY <1>1, AtWork
<1>3. op[s].step = "check"
  BY <1>1, AtWork
<1>4. op[s].act = "promote" /\ "hash" \in Stages(op[s].act)
  BY <1>2, <1>3, Acting DEF Serving, Stages
<1>5. call' = call /\ part' = part /\ ready' = ready
  BY <1>1 DEF disk
<1>6. CASE part[j] # None /\ ready[j] = None /\ Proceed(s, "hash")
  <2>1. Turns(s) /\ op'[s].step = "hash"
    BY <1>1, <1>2, <1>4, <1>6, Proceeds DEF Serving
  <2>2. Tells(call[c], op[s])'
    BY <1>2, <1>4, <1>5, <1>6, <2>1 DEF Tells, Serving
  <2> QED BY <1>1, <1>2, <1>4, <2>1, <2>2, Done
<1>7. CASE End(s, "failed")
  <2>1. Turns(s) /\ op'[s].step = "check"
    BY <1>1, <1>2, <1>3, <1>4, <1>7, Ends DEF Serving
  <2>2. Tells(call[c], op[s])'
    BY <1>2, <1>3, <1>4, <1>5, <2>1 DEF Tells, Serving
  <2> QED BY <1>1, <1>2, <1>4, <2>1, <2>2, Done
<1> QED BY <1>2, <1>6, <1>7 DEF Check, Serving

LEMMA HashPartialHonest ==
    ASSUME ArtInv, TellInv, ArtInv', NEW s \in Slots, HashPartial(s)
    PROVE  Honest
<1>1. Running(s, "hash") /\ UNCHANGED <<call, loaded, aborts>> /\ UNCHANGED disk
      /\ op[s].act = "promote"
  BY DEF HashPartial
<1>2. PICK c \in Callers, j \in Jobs : Serving(s, c, j)
  BY <1>1, AtWork
<1>3. op[s].step = "hash" /\ "replace" \in Stages(op[s].act)
  BY <1>1, AtWork DEF Stages
<1>4. call' = call /\ part' = part /\ ready' = ready
  BY <1>1 DEF disk
<1>5. Turns(s) /\ op'[s].step \in {"hash", "replace"}
  <2>1. CASE Proceed(s, "replace")
    BY <1>1, <1>2, <1>3, <2>1, Proceeds DEF Serving
  <2>2. CASE End(s, "failed")
    BY <1>1, <1>2, <1>3, <2>2, Ends DEF Serving
  <2> QED BY <2>1, <2>2 DEF HashPartial
<1>6. Tells(call[c], op[s])'
  BY <1>1, <1>2, <1>3, <1>4, <1>5 DEF Tells, Serving
<1> QED BY <1>1, <1>2, <1>5, <1>6, Done

LEMMA ReplaceHonest ==
    ASSUME ArtInv, TellInv, ArtInv', NEW s \in Slots, Replace(s)
    PROVE  Honest
<1>1. Running(s, "replace") /\ UNCHANGED <<call, loaded, aborts>>
  BY DEF Replace
<1>2. op[s].step = "replace"
  BY <1>1, AtWork
<1>3. PICK c \in Callers, j \in Jobs :
         Serving(s, c, j) /\ (op[s].act # "remove" => call[c].kind = "download")
  BY <1>1, AtWork
<1>4. op[s].act = "promote" /\ {"rehash", "undo"} \subseteq Stages(op[s].act)
  BY <1>2, <1>3, Acting DEF Serving, Stages
<1>5. op[s].result = "ok" /\ call' = call
  BY <1>1, <1>3, <1>4 DEF Serving, Sound
<1>6. ASSUME part[j] # None,
             Disk([part EXCEPT ![j] = None], [ready EXCEPT ![j] = part[j]], data, open, {})
      PROVE  Disturbs(j, call[c].kind) /\ ready'[j] # None
  <2>1. /\ part' = [part EXCEPT ![j] = None] /\ ready' = [ready EXCEPT ![j] = part[j]]
        /\ residue' = {k \in residue : part'[k] # None}
    BY <1>6 DEF Disk
  <2>2. ready'[j] # None
    BY <1>6, <2>1 DEF ArtInv, Types
  <2>3. Disturbs(j, "download")
    BY <1>6, <2>1, PartIsPublished
  <2> QED BY <1>3, <1>4, <2>2, <2>3
<1>7. CASE /\ part[j] # None
           /\ Disk([part EXCEPT ![j] = None], [ready EXCEPT ![j] = part[j]], data, open, {})
           /\ Proceed(s, "rehash")
  <2>1. Turns(s) /\ op'[s].step = "rehash" /\ op'[s].result = "ok"
    BY <1>1, <1>3, <1>4, <1>5, <1>7, Proceeds DEF Serving
  <2>2. Tells(call[c], op[s])'
    BY <1>3, <1>4, <1>5, <1>6, <1>7, <2>1 DEF Tells, Serving
  <2> QED BY <1>3, <1>4, <1>6, <1>7, <2>1, <2>2, Done
<1>8. CASE /\ part[j] # None /\ DiskFaults
           /\ Disk([part EXCEPT ![j] = None], [ready EXCEPT ![j] = part[j]], data, open, {})
           /\ Proceed(s, "undo")
  <2>1. Turns(s) /\ op'[s].step = "undo" /\ op'[s].result = "ok"
    BY <1>1, <1>3, <1>4, <1>5, <1>8, Proceeds DEF Serving
  <2>2. Tells(call[c], op[s])'
    BY <1>3, <1>4, <1>5, <1>8, <2>1 DEF Tells, Serving
  <2> QED BY <1>3, <1>4, <1>6, <1>8, <2>1, <2>2, Done
<1>9. CASE End(s, "failed") /\ UNCHANGED disk
  <2>1. Turns(s) /\ op'[s].step = "replace"
    BY <1>1, <1>2, <1>3, <1>4, <1>9, Ends DEF Serving
  <2>2. part' = part /\ ready' = ready
    BY <1>9 DEF disk
  <2>3. Tells(call[c], op[s])'
    BY <1>2, <1>3, <1>4, <1>5, <2>1, <2>2 DEF Tells, Serving
  <2> QED BY <1>3, <1>4, <1>9, <2>1, <2>3, Done
<1> QED BY <1>3, <1>7, <1>8, <1>9 DEF Replace, Serving

LEMMA RehashHonest ==
    ASSUME ArtInv, TellInv, ArtInv', NEW s \in Slots, Rehash(s)
    PROVE  Honest
<1>1. Running(s, "rehash") /\ UNCHANGED <<call, loaded, aborts>> /\ UNCHANGED disk
  BY DEF Rehash
<1>2. op[s].step = "rehash"
  BY <1>1, AtWork
<1>3. PICK c \in Callers, j \in Jobs : Serving(s, c, j)
  BY <1>1, AtWork
<1>4. op[s].act = "promote" /\ "undo" \in Stages(op[s].act)
  BY <1>2, <1>3, Acting DEF Serving, Stages
<1>5. op[s].result = "ok" /\ call' = call /\ part' = part /\ ready' = ready
  BY <1>1, <1>3, <1>4 DEF Serving, Sound, disk
<1>6. CASE Whole(ready[j]) /\ End(s, "ok")
  <2>1. Turns(s) /\ op'[s].step = "rehash" /\ op'[s].result = "ok"
    BY <1>1, <1>2, <1>3, <1>4, <1>5, <1>6, Ends DEF Serving
  <2>2. Tells(call[c], op[s])'
    BY <1>3, <1>4, <1>5, <1>6, <2>1 DEF Tells, Serving, Whole
  <2> QED BY <1>1, <1>3, <1>4, <2>1, <2>2, Done
<1>7. CASE (~Whole(ready[j]) \/ DiskFaults) /\ Proceed(s, "undo")
  <2>1. Turns(s) /\ op'[s].step = "undo" /\ op'[s].result = "ok"
    BY <1>1, <1>3, <1>4, <1>5, <1>7, Proceeds DEF Serving
  <2>2. Whole(ready[j]) <=> ready[j] # None
    BY DEF ArtInv, FilesInv, Whole
  <2>3. Tells(call[c], op[s])'
    BY <1>2, <1>3, <1>4, <1>5, <1>7, <2>1, <2>2 DEF Tells, Serving
  <2> QED BY <1>1, <1>3, <1>4, <2>1, <2>3, Done
<1> QED BY <1>3, <1>6, <1>7 DEF Rehash, Serving

LEMMA UndoHonest ==
    ASSUME ArtInv, TellInv, ArtInv', NEW s \in Slots, Undo(s)
    PROVE  Honest
<1>1. Running(s, "undo") /\ UNCHANGED <<call, loaded, aborts>> /\ End(s, "failed")
  BY DEF Undo
<1>2. op[s].step = "undo"
  BY <1>1, AtWork
<1>3. PICK c \in Callers, j \in Jobs : Serving(s, c, j)
  BY <1>1, AtWork
<1>4. op[s].act = "promote"
  BY <1>2, <1>3, Acting DEF Serving
<1>5. (DiskFaults \/ ready[j] = None) /\ (call[c].alone => DiskFaults) /\ call' = call
  BY <1>1, <1>2, <1>3, <1>4 DEF Serving, Tells
<1>6. Turns(s) /\ op'[s].step = "undo"
  BY <1>1, <1>2, <1>3, <1>4, Ends DEF Serving
<1>7. CASE Disk(part, [ready EXCEPT ![j] = None], data, open, {})
  <2>1. /\ part' = part /\ ready' = [ready EXCEPT ![j] = None]
        /\ residue' = {k \in residue : part'[k] # None}
    BY <1>7 DEF Disk
  <2>2. Disturbs(j, call[c].kind)
    BY <1>5, <2>1, ReadyGoes
  <2>3. ready'[j] = None
    BY <2>1 DEF ArtInv, Types
  <2>4. Tells(call[c], op[s])'
    BY <1>3, <1>4, <1>5, <1>6, <2>3 DEF Tells, Serving
  <2> QED BY <1>3, <1>4, <1>6, <2>2, <2>4, Done
<1>8. CASE DiskFaults /\ UNCHANGED disk
  <2>1. Tells(call[c], op[s])'
    BY <1>3, <1>4, <1>5, <1>6, <1>8 DEF Tells, Serving
  <2> QED BY <1>3, <1>4, <1>6, <1>8, <2>1, Done
<1> QED BY <1>3, <1>7, <1>8 DEF Undo, Serving

LEMMA CloseHonest ==
    ASSUME ArtInv, TellInv, ArtInv', NEW s \in Slots, Close(s)
    PROVE  Honest
<1>1. /\ Running(s, "close") /\ UNCHANGED <<call, loaded, aborts>>
      /\ Disk(part, ready, data, open \ {op[s].fd}, {})
  BY DEF Close
<1>2. op[s].step = "close"
  BY <1>1, AtWork
<1>3. PICK c \in Callers, j \in Jobs : Serving(s, c, j)
  BY <1>1, AtWork
<1>4. op[s].act \in {"finish", "abandon", "drop"}
  BY <1>2, <1>3, Acting DEF Serving
<1>5. call' = call /\ part' = part /\ ready' = ready
      /\ residue' = {k \in residue \cup {} : part'[k] # None}
  BY <1>1 DEF Disk
<1>6. Disturbs(j, call[c].kind)
  <2>1. PICK left \in SUBSET {j} : left = {}
    OBVIOUS
  <2> QED BY <1>5, <2>1, NamesStay
<1>7. CASE op[s].act = "finish"
  <2>1. End(s, "ok") \/ End(s, "failed")
    BY <1>7 DEF Close
  <2>2. Turns(s)
    BY <1>1, <1>3, <1>7, <2>1, Ends DEF Serving
  <2>3. Tells(call[c], op[s])'
    BY <1>3, <1>5, <1>7 DEF Tells, Serving
  <2> QED BY <1>3, <1>6, <1>7, <2>2, <2>3, Done
<1>8. CASE op[s].act \in {"abandon", "drop"}
  <2>1. "partstat" \in Stages(op[s].act)
    BY <1>8 DEF Stages
  <2>2. Turns(s) /\ op'[s].state = "running"
    <3>1. CASE Proceed(s, "partstat")
      BY <1>1, <1>3, <2>1, <3>1, Proceeds DEF Serving
    <3>2. CASE op' = [op EXCEPT ![s] = [@ EXCEPT !.step = "partstat", !.result = "failed"]]
      <4>1. [op[s] EXCEPT !.step = "partstat", !.result = "failed"]
            = [op[s] EXCEPT !.step = "partstat", !.state = "running", !.result = "failed"]
        BY <1>3 DEF Serving, Workers
      <4>2. Noted(s, "partstat", "running", "failed")
        BY <3>2, <4>1 DEF Noted
      <4> QED BY <1>1, <1>3, <1>8, <2>1, <4>2, Again DEF Serving
    <3> QED BY <1>8, <3>1, <3>2 DEF Close
  <2>3. Tells(call[c], op[s])'
    BY <1>3, <1>5, <1>8, <2>2 DEF Tells, Serving
  <2> QED BY <1>3, <1>6, <1>8, <2>2, <2>3, Done
<1> QED BY <1>4, <1>7, <1>8

\* A cleanup goes on to its last file, or ends well.
LEMMA LastHonest ==
    ASSUME ArtInv, TellInv, ArtInv', NEW s \in Slots, NEW c \in Callers, NEW j \in Jobs,
           Serving(s, c, j), op[s].act \in {"remove", "abandon", "drop"}, Last(s),
           UNCHANGED <<call, loaded, aborts>>, UNCHANGED disk \/ Disturbs(j, call[c].kind),
           part'[j] = None, ready' = ready
    PROVE  Honest
<1>1. call' = call
  OBVIOUS
<1>2. CASE op[s].act = "remove"
  <2>1. Proceed(s, "readystat") /\ "readystat" \in Stages(op[s].act)
    BY <1>2 DEF Last, Stages
  <2>2. Turns(s) /\ op'[s].step = "readystat" /\ op'[s].state = "running"
        /\ op'[s].result = op[s].result
    BY <2>1, Proceeds DEF Serving
  <2>3. op[s].result = "ok"
    BY <1>2 DEF Serving, Sound
  <2>4. Tells(call[c], op[s])'
    BY <1>1, <1>2, <2>2, <2>3 DEF Tells, Serving
  <2> QED BY <1>2, <2>2, <2>4, Done
<1>3. CASE op[s].act \in {"abandon", "drop"}
  <2>1. End(s, "ok")
    BY <1>3 DEF Last
  <2>2. Turns(s)
    BY <1>3, <2>1, Ends DEF Serving
  <2>3. Tells(call[c], op[s])'
    BY <1>1, <1>3 DEF Tells, Serving
  <2> QED BY <1>3, <2>2, <2>3, Done
<1> QED BY <1>2, <1>3

\* A cleanup fails, if it has the job to itself because the disk does.
LEMMA CleanupFailsHonest ==
    ASSUME ArtInv, TellInv, ArtInv', NEW s \in Slots, NEW c \in Callers, NEW j \in Jobs,
           Serving(s, c, j), op[s].act \in {"remove", "abandon", "drop"}, End(s, "failed"),
           UNCHANGED <<call, loaded, aborts>>, UNCHANGED disk \/ Disturbs(j, call[c].kind),
           op[s].act = "remove" => DiskFaults \/ ~call[c].alone,
           op[s].act = "abandon" => ready' = ready,
           op[s].step \in {"readystat", "unready"} => part' = part
    PROVE  Honest
<1>1. call' = call
  OBVIOUS
<1>2. /\ Turns(s) /\ op'[s].step = op[s].step /\ op'[s].state = "finished"
      /\ op'[s].result = "failed"
  BY Ends DEF Serving
<1>3. Tells(call[c], op[s])'
  BY <1>1, <1>2 DEF Tells, Serving
<1>4. op[s].act # "reconcile"
  OBVIOUS
<1> QED BY <1>2, <1>3, <1>4, Done

LEMMA PartStatHonest ==
    ASSUME ArtInv, TellInv, ArtInv', NEW s \in Slots, PartStat(s)
    PROVE  Honest
<1>1. Running(s, "partstat") /\ UNCHANGED <<call, loaded, aborts>>
  BY DEF PartStat
<1>2. op[s].step = "partstat"
  BY <1>1, AtWork
<1>3. PICK c \in Callers, j \in Jobs : Serving(s, c, j)
  BY <1>1, AtWork
<1>4. op[s].act \in {"remove", "abandon", "drop"} /\ "unpart" \in Stages(op[s].act)
  <2>1. op[s].act \in {"remove", "abandon", "drop"}
    BY <1>2, <1>3, Acting DEF Serving
  <2> QED BY <2>1 DEF Stages
<1>5. call' = call
  BY <1>1
<1>6. CASE part[j] = None /\ Last(s) /\ UNCHANGED disk
  <2>1. part'[j] = None /\ ready' = ready
    BY <1>6 DEF disk
  <2> QED BY <1>1, <1>3, <1>4, <1>6, <2>1, LastHonest
<1>7. CASE part[j] # None /\ Proceed(s, "unpart") /\ UNCHANGED disk
  <2>1. /\ Turns(s) /\ op'[s].step = "unpart" /\ op'[s].state = "running"
        /\ op'[s].result = op[s].result
    BY <1>1, <1>3, <1>4, <1>7, Proceeds DEF Serving
  <2>2. part' = part /\ ready' = ready
    BY <1>7 DEF disk
  <2>3. Tells(call[c], op[s])'
    BY <1>3, <1>4, <1>5, <1>7, <2>1, <2>2 DEF Tells, Serving
  <2>4. op[s].act # "reconcile"
    BY <1>4
  <2> QED BY <1>3, <1>7, <2>1, <2>3, <2>4, Done
<1>8. CASE DiskFaults /\ End(s, "failed") /\ Disk(part, ready, data, open, {j})
  <2>1. /\ part' = part /\ ready' = ready
        /\ residue' = {k \in residue \cup {j} : part'[k] # None}
    BY <1>8 DEF Disk
  <2>2. Disturbs(j, call[c].kind)
    <3>1. PICK left \in SUBSET {j} : left = {j}
      OBVIOUS
    <3> QED BY <1>8, <2>1, <3>1, NamesStay
  <2> QED BY <1>1, <1>3, <1>4, <1>8, <2>1, <2>2, CleanupFailsHonest
<1> QED BY <1>3, <1>6, <1>7, <1>8 DEF PartStat, Serving

LEMMA UnpartHonest ==
    ASSUME ArtInv, TellInv, ArtInv', NEW s \in Slots, Unpart(s)
    PROVE  Honest
<1>1. Running(s, "unpart") /\ UNCHANGED <<call, loaded, aborts>>
  BY DEF Unpart
<1>2. op[s].step = "unpart"
  BY <1>1, AtWork
<1>3. PICK c \in Callers, j \in Jobs : Serving(s, c, j)
  BY <1>1, AtWork
<1>4. op[s].act \in {"remove", "abandon", "drop"}
  BY <1>2, <1>3, Acting DEF Serving
<1>5. ASSUME Disk([part EXCEPT ![j] = None], ready, data, open, {})
      PROVE  Disturbs(j, call[c].kind) /\ part'[j] = None /\ ready' = ready
  <2>1. /\ part' = [part EXCEPT ![j] = None] /\ ready' = ready
        /\ residue' = {k \in residue \cup {} : part'[k] # None}
    BY <1>5 DEF Disk
  <2>2. PICK left \in SUBSET {j} : left = {}
    OBVIOUS
  <2>3. residue' = {k \in residue \cup left : part'[k] # None}
    BY <2>1, <2>2
  <2>4. Disturbs(j, call[c].kind)
    BY <2>1, <2>2, <2>3, PartGoes
  <2>5. part'[j] = None
    BY <2>1 DEF ArtInv, Types
  <2> QED BY <2>1, <2>4, <2>5
<1>6. CASE Last(s) /\ Disk([part EXCEPT ![j] = None], ready, data, open, {})
  BY <1>1, <1>3, <1>4, <1>5, <1>6, LastHonest
<1>7. CASE part[j] = None /\ End(s, "failed") /\ UNCHANGED disk
  <2>1. part' = part /\ ready' = ready
    BY <1>7 DEF disk
  <2>2. op[s].act = "remove" => ~call[c].alone
    BY <1>2, <1>3, <1>7 DEF Tells, Serving
  <2> QED BY <1>1, <1>3, <1>4, <1>7, <2>1, <2>2, CleanupFailsHonest
<1>8. CASE DiskFaults /\ End(s, "failed") /\ Disk(part, ready, data, open, {j})
  <2>1. /\ part' = part /\ ready' = ready
        /\ residue' = {k \in residue \cup {j} : part'[k] # None}
    BY <1>8 DEF Disk
  <2>2. Disturbs(j, call[c].kind)
    <3>1. PICK left \in SUBSET {j} : left = {j}
      OBVIOUS
    <3> QED BY <1>8, <2>1, <3>1, NamesStay
  <2> QED BY <1>1, <1>3, <1>4, <1>8, <2>1, <2>2, CleanupFailsHonest
<1>9. CASE DiskFaults /\ End(s, "failed")
           /\ Disk([part EXCEPT ![j] = None], ready, data, open, {})
  BY <1>1, <1>2, <1>3, <1>4, <1>5, <1>9, CleanupFailsHonest
<1> QED BY <1>3, <1>6, <1>7, <1>8, <1>9 DEF Unpart, Serving

LEMMA ReadyStatHonest ==
    ASSUME ArtInv, TellInv, ArtInv', NEW s \in Slots, ReadyStat(s)
    PROVE  Honest
<1>1. Running(s, "readystat") /\ UNCHANGED <<call, loaded, aborts>> /\ UNCHANGED disk
  BY DEF ReadyStat
<1>2. op[s].step = "readystat"
  BY <1>1, AtWork
<1>3. PICK c \in Callers, j \in Jobs : Serving(s, c, j)
  BY <1>1, AtWork
<1>4. op[s].act = "remove" /\ "unready" \in Stages(op[s].act) /\ op[s].result = "ok"
  <2>1. op[s].act = "remove"
    BY <1>2, <1>3, Acting DEF Serving
  <2> QED BY <1>3, <2>1 DEF Stages, Serving, Sound
<1>5. call' = call /\ part' = part /\ ready' = ready
  BY <1>1 DEF disk
<1>6. CASE ready[j] = None /\ End(s, "ok")
  <2>1. Turns(s) /\ op'[s].step = "readystat" /\ op'[s].state = "finished" /\ op'[s].result = "ok"
    BY <1>1, <1>2, <1>3, <1>4, <1>6, Ends DEF Serving
  <2>2. Tells(call[c], op[s])'
    BY <1>2, <1>3, <1>4, <1>5, <1>6, <2>1 DEF Tells, Serving
  <2> QED BY <1>1, <1>3, <1>4, <2>1, <2>2, Done
<1>7. CASE ready[j] # None /\ Proceed(s, "unready")
  <2>1. Turns(s) /\ op'[s].step = "unready" /\ op'[s].state = "running" /\ op'[s].result = "ok"
    BY <1>1, <1>3, <1>4, <1>7, Proceeds DEF Serving
  <2>2. Tells(call[c], op[s])'
    BY <1>2, <1>3, <1>4, <1>5, <1>7, <2>1 DEF Tells, Serving
  <2> QED BY <1>1, <1>3, <1>4, <2>1, <2>2, Done
<1>8. CASE DiskFaults /\ End(s, "failed")
  BY <1>1, <1>3, <1>4, <1>5, <1>8, CleanupFailsHonest
<1> QED BY <1>3, <1>6, <1>7, <1>8 DEF ReadyStat, Serving

LEMMA UnreadyHonest ==
    ASSUME ArtInv, TellInv, ArtInv', NEW s \in Slots, Unready(s)
    PROVE  Honest
<1>1. Running(s, "unready") /\ UNCHANGED <<call, loaded, aborts>>
  BY DEF Unready
<1>2. op[s].step = "unready"
  BY <1>1, AtWork
<1>3. PICK c \in Callers, j \in Jobs : Serving(s, c, j)
  BY <1>1, AtWork
<1>4. op[s].act = "remove" /\ op[s].result = "ok"
  <2>1. op[s].act = "remove"
    BY <1>2, <1>3, Acting DEF Serving
  <2> QED BY <1>3, <2>1 DEF Serving, Sound
<1>5. /\ call' = call /\ call[c].kind # "download"
      /\ call[c].alone => part[j] = None /\ ready[j] # None
  <2>1. call[c].kind # "download"
    BY <1>3, <1>4 DEF Serving, Serves, Proper, Legs
  <2> QED BY <1>1, <1>2, <1>3, <1>4, <2>1 DEF Tells, Serving
<1>6. ASSUME Disk(part, [ready EXCEPT ![j] = None], data, open, {})
      PROVE  Disturbs(j, call[c].kind) /\ part' = part /\ ready'[j] = None
  <2>1. /\ part' = part /\ ready' = [ready EXCEPT ![j] = None]
        /\ residue' = {k \in residue : part'[k] # None}
    BY <1>6 DEF Disk
  <2>2. Disturbs(j, call[c].kind)
    BY <1>5, <2>1, ReadyGoes
  <2>3. ready'[j] = None
    BY <2>1 DEF ArtInv, Types
  <2> QED BY <2>1, <2>2, <2>3
<1>7. CASE End(s, "ok") /\ Disk(part, [ready EXCEPT ![j] = None], data, open, {})
  <2>1. Turns(s) /\ op'[s].step = "unready" /\ op'[s].state = "finished" /\ op'[s].result = "ok"
    BY <1>1, <1>2, <1>3, <1>4, <1>7, Ends DEF Serving
  <2>2. Tells(call[c], op[s])'
    BY <1>3, <1>4, <1>5, <1>6, <1>7, <2>1 DEF Tells, Serving
  <2> QED BY <1>3, <1>4, <1>6, <1>7, <2>1, <2>2, Done
<1>8. CASE ready[j] = None /\ End(s, "failed") /\ UNCHANGED disk
  <2>1. part' = part /\ ~call[c].alone
    BY <1>5, <1>8 DEF disk
  <2> QED BY <1>1, <1>3, <1>4, <1>8, <2>1, CleanupFailsHonest
<1>9. CASE DiskFaults /\ End(s, "failed")
           /\ Disk(part, [ready EXCEPT ![j] = None], data, open, {})
  BY <1>1, <1>3, <1>4, <1>6, <1>9, CleanupFailsHonest
<1>10. CASE DiskFaults /\ End(s, "failed") /\ UNCHANGED disk
  <2>1. part' = part
    BY <1>10 DEF disk
  <2> QED BY <1>1, <1>3, <1>4, <1>10, <2>1, CleanupFailsHonest
<1> QED BY <1>3, <1>7, <1>8, <1>9, <1>10 DEF Unready, Serving

LEMMA ReconcileHonest ==
    ASSUME ArtInv, TellInv, ArtInv', NEW s \in Slots, Reconcile(s)
    PROVE  Honest
<1>1. Running(s, "scan") /\ UNCHANGED <<call, loaded, aborts>>
  BY DEF Reconcile
<1>2. PICK c \in Callers :
          /\ Serves(s, c) /\ call[c] # None /\ call[c].pc = "reconcile" /\ call[c].slot = s
          /\ ~loaded /\ \A d \in Callers \ {c} : call[d] = None
  BY <1>1, ReconcilesAlone
<1>3. /\ op[s] # None /\ op[s].state = "running" /\ op[s].act = "reconcile"
      /\ op[s] \in Workers /\ Sound(op[s]) /\ op[s].result = "ok" /\ call[c].kind = "reconcile"
      /\ Tells(call[c], op[s])
  <2>1. /\ op[s] # None /\ op[s].state = "running" /\ op[s].act = "reconcile"
        /\ op[s] \in Workers /\ Sound(op[s])
    BY <1>1, <1>2 DEF Running, Serves
  <2>2. call[c].kind = "reconcile"
    BY <1>2 DEF Serves, Proper, Legs
  <2> QED BY <1>2, <2>1, <2>2 DEF Sound, TellInv
<1>4. call' = call
  BY <1>1
<1>5. ASSUME UNCHANGED disk, NEW result \in {"ok", "failed"}, End(s, result),
             result = "ok" => \A k \in Jobs \ op[s].keep : part[k] = None /\ ready[k] = None,
             result = "failed" => DiskFaults
      PROVE  Honest
  <2>1. PICK o : o = [op[s] EXCEPT !.state = "finished", !.result = result]
    OBVIOUS
  <2>2. op' = [op EXCEPT ![s] = o]
    BY <1>3, <1>5, <2>1 DEF End
  <2>3. op'[s] = o
    BY <2>2 DEF ArtInv, Types
  <2>4. o.keep = op[s].keep /\ o.state = "finished" /\ o.result = result
    BY <1>3, <2>1 DEF Workers
  <2>5. \A d \in Callers : DeedOf(d)' = DeedOf(d)
    <3>1. DeedOf(c)' = DeedOf(c)
      BY <1>2, <1>4, <2>3, <2>4 DEF DeedOf, Answer
    <3>2. \A d \in Callers \ {c} : DeedOf(d)' = DeedOf(d)
      BY <1>2, <1>4 DEF DeedOf
    <3> QED BY <3>1, <3>2
  <2>6. part' = part /\ ready' = ready /\ residue' = residue
    BY <1>5 DEF disk
  <2>7. Tells(call[c], o)'
    BY <1>2, <1>4, <1>5, <2>4, <2>6 DEF Tells
  <2>8. TellInv'
    BY <1>2, <1>4, <2>3, <2>7 DEF TellInv
  <2>9. UNCHANGED Custody!vars
    BY <2>5, <2>6, Unseen
  <2> QED BY <2>8, <2>9 DEF Honest
<1>6. CASE Stale(s) = {} /\ End(s, "ok") /\ UNCHANGED disk
  <2>1. \A k \in Jobs \ op[s].keep : part[k] = None /\ ready[k] = None
    BY <1>6 DEF Stale
  <2> QED BY <1>5, <1>6, <2>1
<1>7. CASE DiskFaults /\ End(s, "failed") /\ UNCHANGED disk
  BY <1>5, <1>7
<1>8. ASSUME NEW j \in Stale(s), op' = op,
             \/ part[j] # None /\ Disk([part EXCEPT ![j] = None], ready, data, open, {})
             \/ ready[j] # None /\ Disk(part, [ready EXCEPT ![j] = None], data, open, {})
      PROVE  Honest
  <2>1. j \in Jobs /\ j \notin op[s].keep
    BY DEF Stale
  <2>2. \A d \in Callers : DeedOf(d)' = DeedOf(d)
    BY <1>4, <1>8 DEF DeedOf, Answer
  <2>3. Tells(call[c], op[s])'
    BY <1>2, <1>3, <1>4, <1>8 DEF Tells
  <2>4. TellInv'
    BY <1>2, <1>4, <2>3 DEF TellInv
  <2>5. \/ /\ part[j] # None /\ part' = [part EXCEPT ![j] = None] /\ ready' = ready
        \/ /\ ready[j] # None /\ part' = part /\ ready' = [ready EXCEPT ![j] = None]
    BY <1>8 DEF Disk
  <2>6. residue' = {k \in residue \cup {} : part'[k] # None}
    BY <1>8 DEF Disk
  <2>7. /\ \A k \in Jobs \ {j} : part'[k] = part[k] /\ ready'[k] = ready[k]
        /\ part[j] # None \/ ready[j] # None
        /\ part'[j] = None /\ ready'[j] = None
    BY <2>1, <2>5 DEF ArtInv, Types, FilesInv
  <2>8. HeldOf(j) \in {"part", "whole"} /\ HeldOf(j)' = "none"
    BY <2>1, <2>7, HeldIs, HeldWillBe
  <2>9. <<HeldOf(j), HeldOf(j)'>> \in Custody!Moves(call[c].kind)
    BY <1>3, <2>8 DEF Custody!Moves
  <2>10. PICK left \in SUBSET {j} : left = {}
    OBVIOUS
  <2>11. residue' = {k \in residue \cup left : part'[k] # None}
    BY <2>6, <2>10
  <2>12. j \notin Answer(c).keep
    BY <1>2, <2>1 DEF Answer
  <2>13. Custody!Next
    BY <1>2, <1>3, <2>1, <2>2, <2>7, <2>9, <2>10, <2>11, <2>12, Touched
  <2> QED BY <2>4, <2>13 DEF Honest
<1> QED BY <1>6, <1>7, <1>8 DEF Reconcile

----------------------------------------------------------------------------
(* The promise is kept.                                                    *)

\* Every step keeps what the workers tell, and is a step of the promise.
LEMMA StepHonest ==
    ASSUME ArtInv, TellInv, ArtInv', [ArtNext]_artVars
    PROVE  Honest
<1>1. ASSUME NEW s \in Slots, ThreadStep(s) PROVE Honest
  BY <1>1, StartHonest, LookHonest, HashReadyHonest, CreateHonest, PutHonest, CloseHonest,
     CheckHonest, HashPartialHonest, ReplaceHonest, RehashHonest, UndoHonest, PartStatHonest,
     UnpartHonest, ReadyStatHonest, UnreadyHonest, ReconcileHonest DEF ThreadStep
<1>2. ASSUME NEW s \in Slots, Abort(s) PROVE Honest
  BY <1>2, AbortHonest
<1>3. ASSUME NEW c \in Callers, CallStep(c) PROVE Honest
  <2>1. CASE BodyEnds(c)
    BY <2>1, ExchangeHonest
  <2>2. CASE CleanedUp(c) \/ Reconciled(c)
    BY <2>2, CleanedUpHonest
  <2>3. CASE Prepared(c)
    BY <2>3, PreparedHonest
  <2>4. CASE Written(c)
    BY <2>4, WrittenHonest
  <2>5. CASE Finished(c)
    BY <2>5, FinishedHonest
  <2>6. CASE Promoted(c)
    BY <2>6, PromotedHonest
  <2>7. CASE Abandoned(c)
    BY <2>7, AbandonedHonest
  <2>8. CASE Dropped(c)
    BY <2>8, DroppedHonest
  <2>9. CASE Over(c)
    BY <2>9, OverHonest
  <2> QED BY <1>3, <2>1, <2>2, <2>3, <2>4, <2>5, <2>6, <2>7, <2>8, <2>9 DEF CallStep
<1>4. ASSUME NEW c \in Callers, Chunk(c) \/ HttpFails(c) PROVE Honest
  BY <1>4, ExchangeHonest
<1>5. ASSUME NEW c \in Callers, Cancel(c) PROVE Honest
  BY <1>5, CancelHonest
<1>6. ASSUME NEW c \in Callers, Expire(c) PROVE Honest
  BY <1>6, ExpireHonest
<1>7. ASSUME NEW c \in Callers,
             StartReconcile(c) \/ \E j \in Jobs : StartDownload(c, j) \/ StartCleanup(c, j)
      PROVE  Honest
  BY <1>7, BeginHonest
<1>8. CASE Crash
  BY <1>8, CrashHonest
<1>9. CASE UNCHANGED artVars
  <2>1. /\ part' = part /\ ready' = ready /\ residue' = residue /\ call' = call /\ op' = op
    BY <1>9 DEF artVars, disk
  <2>2. \A d \in Callers : DeedOf(d)' = DeedOf(d)
    BY <2>1 DEF DeedOf, Answer
  <2>3. UNCHANGED Custody!vars
    BY <2>1, <2>2, Unseen
  <2>4. TellInv'
    <3> SUFFICES ASSUME NEW d \in Callers, call[d] # None PROVE Tells(call[d], op[call[d].slot])'
      BY <2>1 DEF TellInv
    <3>1. PICK v, o : v = call[d] /\ o = op[call[d].slot]
      OBVIOUS
    <3>2. Tells(v, o)
      BY <3>1 DEF TellInv
    <3>3. Tells(v, o)'
      BY <2>1, <3>2 DEF Tells
    <3> QED BY <2>1, <3>1, <3>3
  <2> QED BY <2>3, <2>4 DEF Honest
<1> QED BY <1>1, <1>2, <1>3, <1>4, <1>5, <1>6, <1>7, <1>8, <1>9 DEF ArtNext

LEMMA StartsHonest ==
    ASSUME ArtInit
    PROVE  TellInv /\ Custody!Init
<1>1. TellInv
  BY DEF ArtInit, TellInv
<1>2. \A j \in Jobs : HeldOf(j) = "none"
  BY DEF ArtInit, HeldOf
<1>3. \A c \in Callers : DeedOf(c) = None
  BY DEF ArtInit, DeedOf
<1>4. residue = {}
  BY DEF ArtInit
<1> QED BY <1>1, <1>2, <1>3, <1>4 DEF Custody!Init

\* Threads, descriptors and cancellations implement the promise: nothing but a
\* call for the job changes what it holds, and an answer says what that is
\* (async_download_install_artifact, async_cleanup_install_artifact and
\* async_reconcile_install_artifacts).
THEOREM CustodyKeptAlways == ArtSpec => CustodyKept
<1>1. ArtInit => TellInv /\ Custody!Init
  BY StartsHonest
<1>2. ArtInv /\ TellInv /\ ArtInv' /\ [ArtNext]_artVars => TellInv' /\ [Custody!Next]_(Custody!vars)
  BY StepHonest DEF Honest
<1> QED BY <1>1, <1>2, ArtSafe, PTL DEF ArtSpec, CustodyKept, Custody!Spec

=============================================================================
