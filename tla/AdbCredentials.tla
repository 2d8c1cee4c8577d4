--------------------------- MODULE AdbCredentials ---------------------------
(* AdbCredentialManager of adb_credentials.py: the one ADB key of the         *)
(* integration.  A panel trusts a key once its owner has confirmed it on the  *)
(* screen, so a second key must never take its place.  Calls take a lock; the *)
(* first one generates a key, has Home Assistant's Store write it in a        *)
(* thread, and reads it back before anybody gets it.                          *)
(* Store._async_write_data logs a write that fails and returns, so the answer *)
(* of a save says nothing of the file.  A save whose task the shutdown of     *)
(* Home Assistant cancels goes on in its thread.  Home Assistant starts no    *)
(* new work once it has left its final-write stage; that is assumed here.     *)
(* What a key consists of, and the checks of its encoding, mode and owner,    *)
(* are in the two values of file that are not a key.                          *)
(* A definition marked "mutant" is a faulty variant of the one below it.      *)
EXTENDS Naturals, FiniteSets

CONSTANTS Callers, Keys, None

ASSUME NoneIsApart == None \notin Keys /\ None \notin Callers
ASSUME DamagedIsApart == "damaged" \notin Keys \cup {None}

VARIABLES
    file,       \* the Store file: a key, "damaged" (not acceptable), or None
    aside,      \* is there a damaged file of before beside it (*.corrupt.*)?
    writing,    \* the keys that threads of the Store are about to write
    stopping,   \* Home Assistant is in its stopping or final-write stage
    lock,       \* the call that holds _lock
    cached,     \* _credential
    call,       \* per caller: its call, or None
    made,       \* the keys generated so far
    ondisk,     \* ghost: the keys the file has held
    got         \* ghost: the key that the last call of a caller returned

disk == <<file, aside, ondisk>>
manager == <<lock, cached, call, got>>
credVars == <<disk, writing, stopping, manager, made>>

Kinds == {"get", "durable"}
Drained == {"save", "saving", "relook", "reread"}
Holding == Drained \cup {"look", "make", "read"}

Calls == {w \in [kind : Kinds, pc : Holding \cup {"lock"},
                  key : Keys \cup {None}, failed : BOOLEAN, cut : BOOLEAN] :
            w.pc \in Drained => w.key \in Keys}

ASSUME NoneIsNoCall == None \notin Calls

At(c, pc) == call[c] # None /\ call[c].pc = pc
Go(c, w) == call' = [call EXCEPT ![c] = w] /\ UNCHANGED <<lock, cached, got>>
To(c, pc) == Go(c, [call[c] EXCEPT !.pc = pc])

\* The call leaves the lock with a key, or with an error that also drops what
\* is cached; one that was cancelled on the way ends cancelled.
End(c, key) ==
    LET answer == IF call[c].cut THEN None ELSE key
    IN /\ call' = [call EXCEPT ![c] = None]
       /\ lock' = None
       /\ cached' = answer
       /\ got' = [got EXCEPT ![c] = answer]

Start(c, kind) ==
    /\ call[c] = None
    /\ call' = [call EXCEPT ![c] =
                  [kind |-> kind, pc |-> "lock", key |-> None,
                   failed |-> FALSE, cut |-> FALSE]]
    /\ got' = [got EXCEPT ![c] = None]
    /\ UNCHANGED <<disk, writing, stopping, lock, cached, made>>

\* async with self._lock; what is cached is handed out there and then.
Enter(c) ==
    /\ At(c, "lock") /\ lock = None
    /\ IF call[c].kind = "get" /\ cached # None
       THEN End(c, cached)
       ELSE /\ lock' = c
            /\ call' = [call EXCEPT ![c].pc = "look"]
            /\ UNCHANGED <<cached, got>>
    /\ UNCHANGED <<disk, writing, stopping, made>>

\* _store_presence before anything else: a file that was set aside means that
\* there has been a key, and no other may follow it.
Refused == aside

Look(c) ==
    /\ At(c, "look")
    /\ \/ End(c, None)
       \/ /\ ~Refused
          /\ To(c, IF call[c].kind = "get" /\ file = None THEN "make" ELSE "read")
    /\ UNCHANGED <<disk, writing, stopping, made>>

\* _generate_credential, in a thread that may fail.
Make(c) ==
    /\ At(c, "make")
    /\ \/ End(c, None) /\ UNCHANGED made
       \/ \E k \in Keys \ made :
             /\ Go(c, [call[c] EXCEPT !.pc = "save", !.key = k])
             /\ made' = made \cup {k}
    /\ UNCHANGED <<disk, writing, stopping>>

\* _async_store_save: refused while Home Assistant stops, else the Store hands
\* the key to a thread without another look at the state of Home Assistant.
Save(c) ==
    /\ At(c, "save")
    /\ IF stopping
       THEN /\ Go(c, [call[c] EXCEPT !.pc = "relook", !.failed = TRUE])
            /\ UNCHANGED writing
       ELSE /\ To(c, "saving")
            /\ writing' = writing \cup {call[c].key}
    /\ UNCHANGED <<disk, stopping, made>>

\* The thread: it replaces the file, or it fails.
Write(k) ==
    /\ k \in writing
    /\ writing' = writing \ {k}
    /\ \/ file' = k /\ ondisk' = ondisk \cup {k}
       \/ UNCHANGED <<file, ondisk>>
    /\ UNCHANGED <<aside, stopping, manager, made>>

\* _async_drain_operation: cancelled callers wait for the thread all the same.
WrittenOrCut(c) == call[c].key \notin writing \/ call[c].cut     \* mutant
WrittenWell(c) == file = call[c].key                             \* mutant
Written(c) == call[c].key \notin writing

\* The save returns, well or with an error.
SavedTrusting(c) ==                                              \* mutant
    /\ At(c, "saving") /\ Written(c)
    /\ End(c, call[c].key)
    /\ UNCHANGED <<disk, writing, stopping, made>>
Saved(c) ==
    /\ At(c, "saving") /\ Written(c)
    /\ \E failed \in BOOLEAN :
          Go(c, [call[c] EXCEPT !.pc = "relook", !.failed = failed])
    /\ UNCHANGED <<disk, writing, stopping, made>>

\* The shutdown cancels the task of the save; its thread is not stopped.
SaveCut(c) ==
    /\ At(c, "saving") /\ stopping
    /\ Go(c, [call[c] EXCEPT !.pc = "relook", !.failed = TRUE])
    /\ UNCHANGED <<disk, writing, stopping, made>>

\* The second presence, whatever the save said: the file is there, alone.
Relook(c) ==
    /\ At(c, "relook")
    /\ \/ End(c, None)
       \/ file # None /\ ~aside /\ To(c, "reread")
    /\ UNCHANGED <<disk, writing, stopping, made>>

\* The read-back: only the key just generated, as the file has it, is handed
\* out, and only if everything before it went well.
Reread(c) ==
    /\ At(c, "reread")
    /\ \/ End(c, None)
       \/ ~call[c].failed /\ file = call[c].key /\ End(c, file)
    /\ UNCHANGED <<disk, writing, stopping, made>>

\* _read_durable_credential of a key that was there before.
Read(c) ==
    /\ At(c, "read")
    /\ \/ End(c, None)
       \/ file \in Keys /\ End(c, file)
    /\ UNCHANGED <<disk, writing, stopping, made>>

\* A caller is cancelled.  Waiting for the lock it just leaves; at an await
\* that is not drained it leaves with the cache dropped; else it goes on.
Cancel(c) ==
    /\ call[c] # None /\ ~call[c].cut
    /\ \/ /\ call[c].pc = "lock"
          /\ call' = [call EXCEPT ![c] = None]
          /\ UNCHANGED <<lock, cached, got>>
       \/ call[c].pc \in Drained /\ Go(c, [call[c] EXCEPT !.cut = TRUE])
       \/ call[c].pc \in Holding \ Drained /\ End(c, None)
    /\ UNCHANGED <<disk, writing, stopping, made>>

\* Home Assistant begins to stop.
Stop ==
    /\ ~stopping /\ stopping' = TRUE
    /\ UNCHANGED <<disk, writing, manager, made>>

\* The process ends, with its threads, and is started again.
Crash ==
    /\ writing' = {} /\ stopping' = FALSE
    /\ lock' = None /\ cached' = None /\ call' = [c \in Callers |-> None]
    /\ UNCHANGED <<disk, made, got>>

\* The file is damaged or loses its mode; later somebody sets it aside.
Damage ==
    /\ file \in Keys /\ file' = "damaged"
    /\ UNCHANGED <<aside, ondisk, writing, stopping, manager, made>>

SetAside ==
    /\ file = "damaged" /\ file' = None /\ aside' = TRUE
    /\ UNCHANGED <<ondisk, writing, stopping, manager, made>>

CredInit ==
    /\ file = None /\ aside = FALSE /\ writing = {} /\ stopping = FALSE
    /\ lock = None /\ cached = None /\ made = {} /\ ondisk = {}
    /\ call = [c \in Callers |-> None]
    /\ got = [c \in Callers |-> None]

CallStep(c) ==
    \/ Enter(c) \/ Look(c) \/ Make(c) \/ Save(c) \/ Saved(c) \/ SaveCut(c)
    \/ Relook(c) \/ Reread(c) \/ Read(c)

CredNext ==
    \/ \E c \in Callers :
          CallStep(c) \/ Cancel(c) \/ \E kind \in Kinds : Start(c, kind)
    \/ \E k \in Keys : Write(k)
    \/ Stop \/ Crash \/ Damage \/ SetAside

CredSpec == CredInit /\ [][CredNext]_credVars

\* Threads finish, a holder of the lock goes on, and the lock serves its
\* waiters in turn.
FairCredSpec ==
    /\ CredSpec
    /\ \A k \in Keys : WF_credVars(Write(k))
    /\ \A c \in Callers : SF_credVars(CallStep(c))

----------------------------------------------------------------------------
(* Properties. *)

\* Every variable keeps its shape; who is past the lock holds it.
CredTypeOK ==
    /\ file \in Keys \cup {None, "damaged"}
    /\ aside \in BOOLEAN /\ stopping \in BOOLEAN
    /\ writing \in SUBSET Keys /\ made \in SUBSET Keys /\ ondisk \in SUBSET Keys
    /\ lock \in Callers \cup {None}
    /\ cached \in Keys \cup {None}
    /\ call \in [Callers -> Calls \cup {None}]
    /\ got \in [Callers -> Keys \cup {None}]
    /\ \A c \in Callers : call[c] # None /\ call[c].pc \in Holding => lock = c

\* "the one durable ADB identity": the file never holds a second key, whoever
\* is cancelled, whatever fails, stops or is restarted half way, and also not
\* after the first one was damaged and set aside.
OneIdentity == \A k, l \in ondisk : k = l

\* Nobody gets a key that has not been in the file, and none is remembered: a
\* panel never learns a key that the next start does not have.
GivenIsDurable ==
    /\ cached # None => cached \in ondisk
    /\ \A c \in Callers : got[c] # None => got[c] \in ondisk

\* Every call ends, however the write went, also when it was cancelled.
CallsEnd == \A c \in Callers : call[c] # None ~> call[c] = None

=============================================================================
