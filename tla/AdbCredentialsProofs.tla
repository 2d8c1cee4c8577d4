------------------------ MODULE AdbCredentialsProofs ------------------------
(* The safety of AdbCredentials for any callers and keys.  The inductive      *)
(* invariant says when a save is safe: a call that generates or saves a key   *)
(* while Home Assistant runs has the place of the file to itself, for no file *)
(* is or was there and no thread is about to write one.  Threads that outlive *)
(* their call exist only while Home Assistant stops, when nothing is saved.   *)
EXTENDS AdbCredentials, TLAPS

\* No file is there, none was, and no thread is about to write one.
Vacant == file = None /\ ~aside /\ writing = {}

\* The place of the file is still vacant for a call that may save.
MakersAlone ==
    \A c \in Callers :
        ~stopping /\ (At(c, "make") \/ At(c, "save")) => Vacant

\* A thread that is about to write is the only one, and nothing is there.
WriterAlone ==
    \A k \in writing : file = None /\ ~aside /\ \A l \in writing : l = k

\* While Home Assistant runs, the holder of the lock waits for the thread.
WriterAwaited ==
    ~stopping /\ writing # {} =>
        /\ lock # None /\ At(lock, "saving")
        /\ writing = {call[lock].key}

\* What the file holds or once held.
DiskKnown ==
    /\ file \in Keys => file \in ondisk
    /\ file = None /\ ~aside => ondisk = {}

CredInv ==
    /\ CredTypeOK
    /\ MakersAlone
    /\ WriterAlone
    /\ WriterAwaited
    /\ DiskKnown
    /\ OneIdentity
    /\ GivenIsDurable

USE NoneIsApart, DamagedIsApart, NoneIsNoCall

----------------------------------------------------------------------------
(* Types. *)

\* Who holds the lock is the only one past it.
LEMMA OneHolder ==
    ASSUME CredTypeOK, NEW c \in Callers, NEW d \in Callers,
           call[c] # None, call[c].pc \in Holding,
           call[d] # None, call[d].pc \in Holding
    PROVE  c = d
  BY DEF CredTypeOK

\* A holder that goes on to another place keeps the types.
LEMMA GoTyped ==
    ASSUME CredTypeOK, NEW c \in Callers, call[c] # None, lock = c,
           NEW w \in Calls, Go(c, w)
    PROVE  /\ call' \in [Callers -> Calls \cup {None}]
           /\ lock' = lock /\ cached' = cached /\ got' = got
           /\ call'[c] = w
           /\ \A d \in Callers \ {c} : call'[d] = call[d]
           /\ \A d \in Callers :
                 call'[d] # None /\ call'[d].pc \in Holding => lock' = d
  BY DEF CredTypeOK, Go

\* A holder, or a call that finds the lock free, ends with a key or an error.
LEMMA EndTyped ==
    ASSUME CredTypeOK, NEW c \in Callers, call[c] # None,
           lock = c \/ lock = None, NEW k \in Keys \cup {None}, End(c, k)
    PROVE  /\ call' \in [Callers -> Calls \cup {None}]
           /\ lock' = None
           /\ cached' \in {k, None}
           /\ got' \in [Callers -> Keys \cup {None}]
           /\ \A d \in Callers : got'[d] \in {got[d], k, None}
           /\ call'[c] = None
           /\ \A d \in Callers \ {c} : call'[d] = call[d]
           /\ \A d \in Callers :
                 ~(call'[d] # None /\ call'[d].pc \in Holding)
  BY DEF CredTypeOK, End

\* Init and every step keep the types.
LEMMA TypeInit == CredInit => CredTypeOK
  BY DEF CredInit, CredTypeOK

LEMMA TypeStep == CredTypeOK /\ [CredNext]_credVars => CredTypeOK'
<1> SUFFICES ASSUME CredTypeOK, [CredNext]_credVars
             PROVE  CredTypeOK'
  OBVIOUS
<1> USE DEF disk, manager
<1>1. ASSUME NEW c \in Callers, NEW kind \in Kinds, Start(c, kind)
      PROVE  CredTypeOK'
  BY <1>1 DEF CredTypeOK, Start, Calls, Holding, Drained, Kinds
<1>2. ASSUME NEW c \in Callers, Enter(c)
      PROVE  CredTypeOK'
  <2>1. CASE call[c].kind = "get" /\ cached # None
    BY <1>2, <2>1, EndTyped DEF Enter, At, CredTypeOK
  <2>2. CASE ~(call[c].kind = "get" /\ cached # None)
    <3>1. call[c] \in Calls /\ lock = None /\ lock' = c
      BY <1>2, <2>2 DEF Enter, At, CredTypeOK
    <3>2. [call[c] EXCEPT !.pc = "look"] \in Calls
      BY <3>1 DEF Calls, Holding, Drained
    <3>3. call' = [call EXCEPT ![c] = [call[c] EXCEPT !.pc = "look"]]
      BY <1>2, <2>2 DEF Enter
    <3>4. \A d \in Callers :
             call'[d] # None /\ call'[d].pc \in Holding => lock' = d
      BY <3>1, <3>3 DEF CredTypeOK
    <3> QED BY <1>2, <2>2, <3>1, <3>2, <3>3, <3>4 DEF Enter, CredTypeOK
  <2> QED BY <2>1, <2>2
<1>3. ASSUME NEW c \in Callers, call[c] # None, call[c].pc \in Holding,
             \/ \E w \in Calls : Go(c, w)
             \/ \E k \in Keys \cup {None} : End(c, k),
             file' = file, aside' = aside, stopping' = stopping,
             ondisk' = ondisk,
             writing' \in SUBSET Keys, made' \in SUBSET Keys
      PROVE  CredTypeOK'
  <2>1. lock = c
    BY <1>3 DEF CredTypeOK
  <2>2. CASE \E w \in Calls : Go(c, w)
    BY <1>3, <2>1, <2>2, GoTyped DEF CredTypeOK
  <2>3. CASE \E k \in Keys \cup {None} : End(c, k)
    BY <1>3, <2>1, <2>3, EndTyped DEF CredTypeOK
  <2> QED BY <1>3, <2>2, <2>3
<1>4. ASSUME NEW c \in Callers,
             \/ Look(c) \/ Make(c) \/ Save(c) \/ Saved(c) \/ SaveCut(c)
             \/ Relook(c) \/ Reread(c) \/ Read(c)
      PROVE  CredTypeOK'
  <2>1. call[c] \in Calls /\ call[c].pc \in Holding /\ call[c] # None
    BY <1>4 DEF Look, Make, Save, Saved, SaveCut, Relook, Reread, Read, At,
                CredTypeOK, Holding, Drained
  <2>2. (\E w \in Calls : Go(c, w)) \/ \E k \in Keys \cup {None} : End(c, k)
    <3> DEFINE Moved(pc) == [call[c] EXCEPT !.pc = pc]
               Failed(pc, b) == [call[c] EXCEPT !.pc = pc, !.failed = b]
    <3>a. \A pc \in Holding :
             call[c].pc \in Drained \/ pc \notin Drained => Moved(pc) \in Calls
      BY <2>1 DEF Calls
    <3>b. \A pc \in Holding, b \in BOOLEAN :
             call[c].pc \in Drained => Failed(pc, b) \in Calls
      BY <2>1 DEF Calls
    <3>k. /\ call[c].key \in Keys \cup {None}
          /\ call[c].pc \in Drained => call[c].key \in Keys
      BY <2>1 DEF Calls
    <3>c. Drained \subseteq Holding
      BY DEF Holding
    <3>1. CASE Look(c)
      <4>1. CASE End(c, None)
        BY <4>1
      <4>2. CASE To(c, "make") \/ To(c, "read")
        BY <3>a, <4>2 DEF To, Holding, Drained
      <4> QED BY <3>1, <4>1, <4>2 DEF Look
    <3>2. CASE Make(c)
      <4>1. ASSUME NEW k \in Keys,
                   Go(c, [call[c] EXCEPT !.pc = "save", !.key = k])
            PROVE  \E w \in Calls : Go(c, w)
        <5>1. [call[c] EXCEPT !.pc = "save", !.key = k] \in Calls
          BY <2>1 DEF Calls, Holding, Drained
        <5> QED BY <4>1, <5>1
      <4> QED BY <3>2, <4>1 DEF Make
    <3>3. CASE Save(c)
      <4>1. CASE stopping
        <5>1. Go(c, Failed("relook", TRUE))
          BY <3>3, <4>1 DEF Save
        <5> QED BY <3>3, <3>b, <5>1 DEF Save, At, Holding, Drained
      <4>2. CASE ~stopping
        <5>1. Go(c, Moved("saving"))
          BY <3>3, <4>2 DEF Save, To
        <5> QED BY <3>3, <3>a, <5>1 DEF Save, At, Holding, Drained
      <4> QED BY <4>1, <4>2
    <3>4. CASE Saved(c) \/ SaveCut(c)
      <4>1. PICK b \in BOOLEAN : Go(c, Failed("relook", b))
        BY <3>4 DEF Saved, SaveCut
      <4> QED BY <3>4, <3>b, <4>1 DEF Saved, SaveCut, At, Holding, Drained
    <3>5. CASE Relook(c)
      BY <3>5, <3>a DEF Relook, To, At, Holding, Drained
    <3>6. CASE Reread(c) \/ Read(c)
      BY <3>k, <3>6 DEF Reread, Read
    <3> QED BY <1>4, <3>1, <3>2, <3>3, <3>4, <3>5, <3>6
  <2>3. /\ file' = file /\ aside' = aside /\ stopping' = stopping
        /\ ondisk' = ondisk
        /\ writing' \in SUBSET Keys /\ made' \in SUBSET Keys
    <3>1. CASE Save(c)
      <4>1. call[c].key \in Keys
        BY <2>1, <3>1 DEF Save, At, Calls, Drained
      <4> QED BY <3>1, <4>1 DEF Save, CredTypeOK
    <3>2. CASE ~Save(c)
      BY <1>4, <3>2
         DEF Look, Make, Saved, SaveCut, Relook, Reread, Read, CredTypeOK
    <3> QED BY <3>1, <3>2
  <2> QED BY <1>3, <2>1, <2>2, <2>3
<1>5. ASSUME NEW c \in Callers, Cancel(c)
      PROVE  CredTypeOK'
  <2>1. call[c] \in Calls
    BY <1>5 DEF Cancel, CredTypeOK
  <2>2. CASE call[c].pc = "lock"
    <3>1. /\ call' = [call EXCEPT ![c] = None]
          /\ UNCHANGED <<lock, cached, got, disk, writing, stopping, made>>
      BY <1>5, <2>2 DEF Cancel, Drained, Holding
    <3> QED BY <3>1 DEF CredTypeOK
  <2>3. CASE call[c].pc \in Holding
    <3>1. CASE call[c].pc \in Drained
      <4>1. [call[c] EXCEPT !.cut = TRUE] \in Calls
        BY <2>1 DEF Calls
      <4>2. Go(c, [call[c] EXCEPT !.cut = TRUE])
        BY <1>5, <3>1 DEF Cancel, Drained
      <4>3. UNCHANGED <<disk, writing, stopping, made>> /\ call[c] # None
        BY <1>5 DEF Cancel
      <4> QED BY <1>3, <2>3, <4>1, <4>2, <4>3 DEF CredTypeOK
    <3>2. CASE call[c].pc \notin Drained
      BY <1>3, <1>5, <2>1, <2>3, <3>2
         DEF Cancel, CredTypeOK, Holding, Drained
    <3> QED BY <3>1, <3>2
  <2> QED BY <2>1, <2>2, <2>3 DEF Calls
<1>6. ASSUME NEW k \in Keys, Write(k)
      PROVE  CredTypeOK'
  BY <1>6 DEF Write, CredTypeOK
<1>7. CASE Stop \/ Damage \/ SetAside
  BY <1>7 DEF Stop, Damage, SetAside, CredTypeOK
<1>8. CASE Crash
  BY <1>8 DEF Crash, CredTypeOK
<1>9. CASE UNCHANGED credVars
  BY <1>9 DEF credVars, CredTypeOK
<1> QED
  BY <1>1, <1>2, <1>4, <1>5, <1>6, <1>7, <1>8, <1>9
     DEF CredNext, CallStep

----------------------------------------------------------------------------
(* Safety. *)

MakerAt(c) == At(c, "make") \/ At(c, "save")

LEMMA SafeInit == CredInit => CredInv
<1> SUFFICES ASSUME CredInit PROVE CredInv
  OBVIOUS
<1>1. CredTypeOK
  BY TypeInit
<1>2. MakersAlone /\ WriterAlone /\ WriterAwaited /\ DiskKnown /\ OneIdentity
      /\ GivenIsDurable
  BY DEF CredInit, MakersAlone, WriterAlone, WriterAwaited, DiskKnown,
         OneIdentity, GivenIsDurable, At
<1> QED BY <1>1, <1>2 DEF CredInv

\* A step that touches neither file nor threads keeps the invariant when who
\* comes to make finds the place vacant, a thread stays awaited, and what is
\* remembered or handed out has been in the file.
LEMMA QuietStep ==
    ASSUME CredInv, CredTypeOK', UNCHANGED <<disk, writing, stopping>>,
           \A d \in Callers : MakerAt(d)' => (~stopping => MakerAt(d) \/ Vacant),
           \/ stopping \/ writing = {}
           \/ lock' = lock /\ At(lock, "saving")'
              /\ call'[lock].key = call[lock].key,
           cached' # None => cached' \in ondisk,
           \A d \in Callers : got'[d] # None => got'[d] \in ondisk
    PROVE  CredInv'
<1> USE DEF disk
<1>1. MakersAlone'
  BY DEF CredInv, MakersAlone, MakerAt, Vacant
<1>2. WriterAlone'
  BY DEF CredInv, WriterAlone
<1>3. WriterAwaited'
  BY DEF CredInv, WriterAwaited, At
<1>4. DiskKnown' /\ OneIdentity' /\ GivenIsDurable'
  BY DEF CredInv, DiskKnown, OneIdentity, GivenIsDurable
<1> QED BY <1>1, <1>2, <1>3, <1>4 DEF CredInv

\* The call that ends, ends with a key of the file or none, and no thread that
\* it should have awaited is left.
LEMMA EndStep ==
    ASSUME CredInv, CredTypeOK', UNCHANGED <<disk, writing, stopping>>,
           NEW c \in Callers, call[c] # None, lock = c \/ lock = None,
           stopping \/ writing = {},
           NEW k \in Keys \cup {None}, End(c, k), k # None => k \in ondisk
    PROVE  CredInv'
<1>1. /\ cached' \in {k, None} /\ call'[c] = None
      /\ \A d \in Callers : got'[d] \in {got[d], k, None}
      /\ \A d \in Callers \ {c} : call'[d] = call[d]
  BY EndTyped DEF CredInv
<1>2. \A d \in Callers : MakerAt(d)' => MakerAt(d)
  BY <1>1 DEF MakerAt, At
<1>3. \A d \in Callers : got'[d] # None => got'[d] \in ondisk
  BY <1>1 DEF CredInv, GivenIsDurable
<1> QED BY <1>1, <1>2, <1>3, QuietStep

\* The holder goes on, to a place where it does not make a key.
LEMMA GoStep ==
    ASSUME CredInv, CredTypeOK', UNCHANGED <<disk, writing, stopping>>,
           NEW c \in Callers, call[c] # None, lock = c,
           NEW w \in Calls, Go(c, w),
           w.pc \in {"make", "save"} => (~stopping => MakerAt(c) \/ Vacant),
           \/ stopping \/ writing = {}
           \/ w.pc = "saving" /\ w.key = call[c].key
    PROVE  CredInv'
<1>1. /\ lock' = lock /\ cached' = cached /\ got' = got
      /\ call'[c] = w
      /\ \A d \in Callers \ {c} : call'[d] = call[d]
  BY GoTyped DEF CredInv
<1>2. \A d \in Callers : MakerAt(d)' => (~stopping => MakerAt(d) \/ Vacant)
  BY <1>1 DEF MakerAt, At
<1>3. \A d \in Callers : got'[d] # None => got'[d] \in ondisk
  BY <1>1 DEF CredInv, GivenIsDurable
<1>4. \/ stopping \/ writing = {}
      \/ lock' = lock /\ At(lock, "saving")' /\ call'[lock].key = call[lock].key
  BY <1>1 DEF At, CredInv, CredTypeOK
<1>5. cached' # None => cached' \in ondisk
  BY <1>1 DEF CredInv, GivenIsDurable
<1> QED BY <1>2, <1>3, <1>4, <1>5, QuietStep

\* The steps of a call that holds the lock.
LEMMA HolderStep ==
    ASSUME CredInv, CredTypeOK', NEW c \in Callers,
           \/ Look(c) \/ Make(c) \/ Saved(c) \/ SaveCut(c)
           \/ Relook(c) \/ Reread(c) \/ Read(c)
    PROVE  CredInv'
<1> USE DEF disk
<1>1. /\ call[c] \in Calls /\ call[c] # None /\ lock = c
      /\ UNCHANGED <<disk, writing, stopping>>
  BY DEF Look, Make, Saved, SaveCut, Relook, Reread, Read, At,
         CredInv, CredTypeOK, Holding, Drained
<1>2. CASE \E k \in Keys \cup {None} : End(c, k) /\ (k # None => k \in ondisk)
                                       /\ ~At(c, "saving")
  <2>1. stopping \/ writing = {}
    BY <1>1, <1>2 DEF CredInv, WriterAwaited
  <2> QED BY <1>1, <1>2, <2>1, EndStep
<1>3. ASSUME NEW w \in Calls, Go(c, w),
             w.pc = "make" => (~stopping => Vacant),
             w.pc = "save" => At(c, "make"),
             ~At(c, "saving") \/ call[c].key \notin writing \/ stopping
      PROVE  CredInv'
  <2>1. stopping \/ writing = {}
    BY <1>1, <1>3 DEF CredInv, WriterAwaited
  <2> QED BY <1>1, <1>3, <2>1, GoStep DEF MakerAt
<1>4. CASE Look(c)
  <2>1. CASE End(c, None)
    BY <1>2, <1>4, <2>1 DEF Look, At
  <2>2. CASE ~aside /\ To(c, "read")
    <3>1. [call[c] EXCEPT !.pc = "read"] \in Calls
          /\ [call[c] EXCEPT !.pc = "read"].pc = "read"
      BY <1>1 DEF Calls, Holding, Drained
    <3> QED BY <1>3, <1>4, <2>2, <3>1 DEF Look, At, To
  <2>3. CASE ~aside /\ file = None /\ To(c, "make")
    <3>1. [call[c] EXCEPT !.pc = "make"] \in Calls
          /\ [call[c] EXCEPT !.pc = "make"].pc = "make"
      BY <1>1 DEF Calls, Holding, Drained
    <3>2. ~stopping => Vacant
      BY <1>1, <1>4, <2>3 DEF Vacant, CredInv, WriterAwaited, Look, At
    <3> QED BY <1>3, <1>4, <2>3, <3>1, <3>2 DEF Look, At, To
  <2> QED BY <1>4, <2>1, <2>2, <2>3 DEF Look, Refused
<1>5. CASE Make(c)
  <2>1. CASE End(c, None)
    BY <1>2, <1>5, <2>1 DEF Make, At
  <2>2. ASSUME NEW k \in Keys,
               Go(c, [call[c] EXCEPT !.pc = "save", !.key = k])
        PROVE  CredInv'
    <3>1. [call[c] EXCEPT !.pc = "save", !.key = k] \in Calls
          /\ [call[c] EXCEPT !.pc = "save", !.key = k].pc = "save"
      BY <1>1 DEF Calls, Holding, Drained
    <3> QED BY <1>3, <1>5, <2>2, <3>1 DEF Make, At
  <2> QED BY <1>5, <2>1, <2>2 DEF Make
<1>6. CASE Saved(c) \/ SaveCut(c)
  <2>1. PICK b \in BOOLEAN :
           Go(c, [call[c] EXCEPT !.pc = "relook", !.failed = b])
    BY <1>6 DEF Saved, SaveCut
  <2>2. [call[c] EXCEPT !.pc = "relook", !.failed = b] \in Calls
        /\ [call[c] EXCEPT !.pc = "relook", !.failed = b].pc = "relook"
    BY <1>1, <1>6 DEF Saved, SaveCut, At, Calls, Holding, Drained
  <2>3. call[c].key \notin writing \/ stopping
    BY <1>6 DEF Saved, SaveCut, Written
  <2> QED BY <1>3, <2>1, <2>2, <2>3
<1>7. CASE Relook(c)
  <2>1. CASE End(c, None)
    BY <1>2, <1>7, <2>1 DEF Relook, At
  <2>2. CASE To(c, "reread")
    <3>1. [call[c] EXCEPT !.pc = "reread"] \in Calls
          /\ [call[c] EXCEPT !.pc = "reread"].pc = "reread"
      BY <1>1, <1>7 DEF Relook, At, Calls, Holding, Drained
    <3> QED BY <1>3, <1>7, <2>2, <3>1 DEF Relook, At, To
  <2> QED BY <1>7, <2>1, <2>2 DEF Relook
<1>8. CASE Reread(c) \/ Read(c)
  <2>1. ~At(c, "saving")
    BY <1>8 DEF Reread, Read, At
  <2>2. CASE End(c, None)
    BY <1>2, <2>1, <2>2
  <2>3. CASE file \in Keys /\ End(c, file)
    BY <1>2, <2>1, <2>3 DEF CredInv, DiskKnown
  <2>4. Reread(c) => call[c].key \in Keys
    BY <1>1 DEF Reread, At, Calls, Drained
  <2> QED BY <1>8, <2>2, <2>3, <2>4 DEF Reread, Read
<1> QED BY <1>4, <1>5, <1>6, <1>7, <1>8

\* The thread is started where nothing was, and it is the only one.
LEMMA SaveStep ==
    ASSUME CredInv, CredTypeOK', NEW c \in Callers, Save(c)
    PROVE  CredInv'
<1> USE DEF disk
<1>1. call[c] \in Calls /\ call[c] # None /\ lock = c /\ call[c].key \in Keys
  BY DEF Save, At, CredInv, CredTypeOK, Calls, Holding, Drained
<1>2. CASE stopping
  <2>1. [call[c] EXCEPT !.pc = "relook", !.failed = TRUE] \in Calls
        /\ [call[c] EXCEPT !.pc = "relook", !.failed = TRUE].pc = "relook"
    BY <1>1 DEF Save, At, Calls, Holding, Drained
  <2> QED BY <1>1, <1>2, <2>1, GoStep DEF Save
<1>3. CASE ~stopping
  <2>1. Vacant
    BY <1>1, <1>3 DEF Save, CredInv, MakersAlone
  <2> DEFINE w == [call[c] EXCEPT !.pc = "saving"]
  <2>2. w \in Calls /\ w.pc = "saving" /\ w.key = call[c].key
    BY <1>1 DEF Save, At, Calls, Holding, Drained
  <2>3. Go(c, w)
    BY <1>3 DEF Save, To
  <2>4. /\ lock' = lock /\ cached' = cached /\ got' = got /\ call'[c] = w
        /\ \A d \in Callers \ {c} : call'[d] = call[d]
    BY <1>1, <2>2, <2>3, GoTyped DEF CredInv
  <2>5. UNCHANGED <<file, aside, ondisk, stopping>>
        /\ writing' = {call[c].key}
    BY <1>3, <2>1 DEF Save, Vacant
  <2>6. MakersAlone'
    <3>1. \A d \in Callers : MakerAt(d)' => d # c
      BY <2>2, <2>4 DEF MakerAt, At
    <3>2. \A d \in Callers \ {c} : ~MakerAt(d)
      BY <1>1 DEF MakerAt, At, CredInv, CredTypeOK, Holding, Drained
    <3> QED BY <2>4, <3>1, <3>2 DEF MakersAlone, MakerAt, At
  <2>7. WriterAlone' /\ DiskKnown' /\ OneIdentity' /\ GivenIsDurable'
    BY <2>1, <2>4, <2>5 DEF WriterAlone, DiskKnown, OneIdentity, GivenIsDurable,
                            Vacant, CredInv
  <2>8. WriterAwaited'
    BY <1>1, <2>2, <2>4, <2>5 DEF WriterAwaited, At
  <2> QED BY <2>6, <2>7, <2>8 DEF CredInv
<1> QED BY <1>2, <1>3

\* The thread writes where nothing was.
LEMMA WriteStep ==
    ASSUME CredInv, CredTypeOK', NEW k \in Keys, Write(k)
    PROVE  CredInv'
<1>1. /\ k \in writing /\ file = None /\ ~aside
      /\ \A l \in writing : l = k
      /\ ondisk = {}
  BY DEF Write, CredInv, WriterAlone, DiskKnown
<1>2. writing' = {} /\ UNCHANGED <<aside, stopping, lock, cached, call, got>>
  BY <1>1 DEF Write, manager
<1>3. MakersAlone'
  <2>1. \A c \in Callers : ~stopping => ~MakerAt(c)
    BY <1>1 DEF CredInv, MakersAlone, MakerAt, Vacant
  <2> QED BY <1>2, <2>1 DEF MakersAlone, MakerAt, At
<1>4. WriterAlone' /\ WriterAwaited'
  BY <1>2 DEF WriterAlone, WriterAwaited
<1>5. DiskKnown' /\ OneIdentity' /\ GivenIsDurable'
  BY <1>1, <1>2 DEF Write, CredInv, DiskKnown, OneIdentity, GivenIsDurable
<1> QED BY <1>3, <1>4, <1>5 DEF CredInv

LEMMA SafeStep == CredInv /\ [CredNext]_credVars => CredInv'
<1> SUFFICES ASSUME CredInv, [CredNext]_credVars
             PROVE  CredInv'
  OBVIOUS
<1> USE DEF disk, manager
<1>1. CredTypeOK'
  BY TypeStep DEF CredInv
<1>2. ASSUME NEW c \in Callers, NEW kind \in Kinds, Start(c, kind)
      PROVE  CredInv'
  <2>1. /\ \A d \in Callers \ {c} : call'[d] = call[d] /\ got'[d] = got[d]
        /\ call'[c].pc = "lock" /\ got'[c] = None /\ call[c] = None
        /\ UNCHANGED <<disk, writing, stopping, lock, cached>>
    BY <1>2 DEF Start, CredInv, CredTypeOK
  <2>2. \A d \in Callers : MakerAt(d)' => (~stopping => MakerAt(d) \/ Vacant)
    BY <2>1 DEF MakerAt, At
  <2>3. \/ stopping \/ writing = {}
        \/ lock' = lock /\ At(lock, "saving")'
           /\ call'[lock].key = call[lock].key
    BY <2>1 DEF CredInv, WriterAwaited, At, CredTypeOK
  <2> QED BY <1>1, <2>1, <2>2, <2>3, QuietStep DEF CredInv, GivenIsDurable
<1>3. ASSUME NEW c \in Callers, Enter(c)
      PROVE  CredInv'
  <2>1. stopping \/ writing = {}
    BY <1>3 DEF Enter, CredInv, WriterAwaited
  <2>2. CASE call[c].kind = "get" /\ cached # None
    BY <1>1, <1>3, <2>1, <2>2, EndStep
       DEF Enter, At, CredInv, CredTypeOK, GivenIsDurable
  <2>3. CASE ~(call[c].kind = "get" /\ cached # None)
    <3>1. /\ \A d \in Callers \ {c} : call'[d] = call[d]
          /\ call'[c].pc = "look"
          /\ UNCHANGED <<disk, writing, stopping, cached, got>>
      <4>1. call[c] \in Calls
        BY <1>3 DEF Enter, At, CredInv, CredTypeOK
      <4> QED BY <1>3, <2>3, <4>1 DEF Enter, CredInv, CredTypeOK, Calls
    <3>2. \A d \in Callers : MakerAt(d)' => MakerAt(d)
      BY <3>1 DEF MakerAt, At
    <3> QED BY <1>1, <2>1, <3>1, <3>2, QuietStep DEF CredInv, GivenIsDurable
  <2> QED BY <2>2, <2>3
<1>4. ASSUME NEW c \in Callers, Cancel(c)
      PROVE  CredInv'
  <2>1. /\ call[c] \in Calls /\ call[c] # None
        /\ UNCHANGED <<disk, writing, stopping>>
    BY <1>4 DEF Cancel, CredInv, CredTypeOK
  <2>2. CASE call[c].pc = "lock"
    <3>1. /\ call' = [call EXCEPT ![c] = None]
          /\ UNCHANGED <<lock, cached, got>>
      BY <1>4, <2>2 DEF Cancel, Drained, Holding
    <3>2. \A d \in Callers : MakerAt(d)' => MakerAt(d)
      BY <3>1 DEF MakerAt, At, CredInv, CredTypeOK
    <3>3. \/ stopping \/ writing = {}
          \/ lock' = lock /\ At(lock, "saving")'
             /\ call'[lock].key = call[lock].key
      BY <2>2, <3>1 DEF CredInv, WriterAwaited, At, CredTypeOK
    <3> QED BY <1>1, <2>1, <3>1, <3>2, <3>3, QuietStep
            DEF CredInv, GivenIsDurable
  <2>3. CASE call[c].pc \in Drained
    <3> DEFINE w == [call[c] EXCEPT !.cut = TRUE]
    <3>1. w \in Calls /\ w.pc = call[c].pc /\ w.key = call[c].key
      BY <2>1 DEF Calls
    <3>2. lock = c /\ Go(c, w)
      BY <1>4, <2>1, <2>3 DEF Cancel, Drained, Holding, CredInv, CredTypeOK
    <3>3. w.pc \in {"make", "save"} => (~stopping => MakerAt(c) \/ Vacant)
      BY <2>1, <3>1 DEF MakerAt, At
    <3>4. \/ stopping \/ writing = {}
          \/ w.pc = "saving" /\ w.key = call[c].key
      BY <3>1, <3>2 DEF CredInv, WriterAwaited, At
    <3> QED BY <1>1, <2>1, <3>1, <3>2, <3>3, <3>4, GoStep
  <2>4. CASE call[c].pc \in Holding \ Drained
    <3>1. lock = c /\ End(c, None)
      BY <1>4, <2>1, <2>4 DEF Cancel, Drained, Holding, CredInv, CredTypeOK
    <3>2. stopping \/ writing = {}
      BY <2>4, <3>1 DEF CredInv, WriterAwaited, At, Holding, Drained
    <3> QED BY <1>1, <2>1, <3>1, <3>2, EndStep
  <2> QED BY <2>1, <2>2, <2>3, <2>4 DEF Calls
<1>5. CASE Stop
  BY <1>1, <1>5 DEF Stop, CredInv, MakersAlone, WriterAlone, WriterAwaited,
     DiskKnown, OneIdentity, GivenIsDurable
<1>6. CASE Crash
  BY <1>1, <1>6 DEF Crash, CredInv, MakersAlone, WriterAlone, WriterAwaited,
     DiskKnown, OneIdentity, GivenIsDurable, At, CredTypeOK
<1>7. CASE Damage \/ SetAside
  <2>1. /\ writing = {} /\ writing' = {}
        /\ \A c \in Callers : ~stopping => ~MakerAt(c)
        /\ UNCHANGED <<stopping, lock, cached, call, got, ondisk>>
    BY <1>7 DEF Damage, SetAside, CredInv, CredTypeOK, WriterAlone, MakersAlone,
                MakerAt, Vacant
  <2>2. MakersAlone' /\ WriterAlone' /\ WriterAwaited'
    BY <2>1 DEF MakersAlone, WriterAlone, WriterAwaited, MakerAt, At
  <2>3. DiskKnown'
    BY <1>7, <2>1 DEF Damage, SetAside, DiskKnown, CredInv, CredTypeOK
  <2> QED BY <1>1, <2>1, <2>2, <2>3 DEF CredInv, OneIdentity, GivenIsDurable
<1>8. CASE UNCHANGED credVars
  BY <1>1, <1>8 DEF credVars, CredInv, MakersAlone, WriterAlone, WriterAwaited,
     DiskKnown, OneIdentity, GivenIsDurable, At, Vacant
<1> QED
  BY <1>1, <1>2, <1>3, <1>4, <1>5, <1>6, <1>7, <1>8,
     HolderStep, SaveStep, WriteStep DEF CredNext, CallStep

----------------------------------------------------------------------------
(* What holds of every behaviour. *)

\* The inductive invariant: a key is generated and saved only in a vacant
\* place, and no second thread writes (_async_drain_operation keeps the lock).
THEOREM CredSafe == CredSpec => []CredInv
<1>1. CredInit => CredInv
  BY SafeInit
<1>2. CredInv /\ [CredNext]_credVars => CredInv'
  BY SafeStep
<1> QED BY <1>1, <1>2, PTL DEF CredSpec

\* The manager, its calls and its file stay well formed, and only the holder
\* of the lock is past it.
THEOREM CredTypeCorrect == CredSpec => []CredTypeOK
<1>1. CredInv => CredTypeOK
  BY DEF CredInv
<1> QED BY <1>1, CredSafe, PTL

\* The file never holds a second key ("the one durable ADB identity").
THEOREM OneIdentityTheorem == CredSpec => []OneIdentity
<1>1. CredInv => OneIdentity
  BY DEF CredInv
<1> QED BY <1>1, CredSafe, PTL

\* What is cached or handed out has been in the file.
THEOREM DurableTheorem == CredSpec => []GivenIsDurable
<1>1. CredInv => GivenIsDurable
  BY DEF CredInv
<1> QED BY <1>1, CredSafe, PTL

=============================================================================
